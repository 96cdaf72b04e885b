----------------------------- MODULE MCZoneNode -----------------------------
(* ZoneNode for TLC: two holders, a deposit for each, and blocks of up to two *)
(* transactions: claims, transfers with and without a sender, withdrawals     *)
(* that leave the height alone, set it back or set it ahead, a funding and    *)
(* the SDK's own sends.                                                       *)
EXTENDS ZoneNode

CONSTANTS asset, alice, carol, osmo

Claim(h, n) == [recipient |-> h, amount |-> n]

MCClaims == {Claim(alice, 2), Claim(carol, 1)}

MCMemos == {[word |-> ""]}

Profile(enabled) == [denom |-> "ibc", enabled |-> enabled, assets |-> {asset},
                     actions |-> {}, prefixes |-> {}]

MCProfiles == {Profile(TRUE), Profile(FALSE)}

Queue(c) == [type |-> "queue_deposit_claim", claim |-> c]

Transfer(sender, n) ==
    [type |-> "initiate_ibc_transfer", sender |-> sender, amount |-> n,
     asset |-> asset, route |-> osmo, receiver |-> alice, memo |-> [word |-> ""]]

Withdraw(owner, h) == [type |-> "execute_withdrawal", owner |-> owner,
                       amount |-> 1, height |-> h]

MCTxs == {Queue(c) : c \in MCClaims}
           \cup {Transfer(alice, 1), Transfer(NoSender, 1)}
           \cup {Withdraw(alice, 0), Withdraw(alice, 1), Withdraw(alice, 5)}
           \cup {[type |-> "fund_account", address |-> carol, amount |-> 1],
                 [type |-> "sdk", account |-> alice, delta |-> -1],
                 FaucetSend(carol, 1)}

MCBlocks == {<<>>} \cup {<<t>> : t \in MCTxs}
              \cup {<<t, u>> : t, u \in {Queue(Claim(alice, 2)), Transfer(alice, 1),
                       Withdraw(alice, 1), [type |-> "sdk", account |-> alice, delta |-> -1]}}
=============================================================================
