--------------------------- MODULE MCZoneCommands ---------------------------
(* ZoneCommands for TLC: two clients and the daemon; a deposit, withdrawals by *)
(* its recipient and by a holder without coins, one of which sets the height, *)
(* and proposals of each kind, one by someone without authority.              *)
EXTENDS ZoneCommands, TLC

CONSTANTS alice, carol, c1, c2

MCClaims == {[id |-> 1, recipient |-> alice]}

MCWithdrawals == {[id |-> 1, owner |-> alice, height |-> 0],
                  [id |-> 2, owner |-> carol, height |-> 3]}

MCAssetProposals == {[id |-> "off", authorized |-> TRUE, enabled |-> FALSE],
                     [id |-> "rogue", authorized |-> FALSE, enabled |-> FALSE]}
MCLimitProposals == {[id |-> "limit", authorized |-> TRUE, limit |-> 1]}
MCPolicyProposals == {[id |-> "close", authorized |-> TRUE, policy |-> "closed"]}

MCSymmetry == Permutations(Clients)
=============================================================================
