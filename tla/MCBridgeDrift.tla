---------------------------- MODULE MCBridgeDrift ----------------------------
(* BridgeDrift for TLC: two assets with a denomination each, either or both   *)
(* of which may have drifted.                                                 *)
EXTENDS BridgeDrift, TLC

CONSTANTS a1, a2, d1, d2, m1, m2

Claim(k, a) == [messageID |-> k, assetID |-> a, amount |-> 1,
                recipient |-> CHOOSE x \in Accounts : TRUE, deadline |-> 2]

MCDenomOf == (a1 :> d1) @@ (a2 :> d2)

MCDeposits == {Claim(m1, a1), Claim(m2, a2)}

MCSignerSet == [version |-> 1, signers |-> Signers, threshold |-> 1,
                activatedAt |-> 0, expiresAt |-> 0]

MCAttestations == {[version |-> 1, threshold |-> 1, expiry |-> 2,
                    proofs |-> Signers]}

MCLimit == {[windowBlocks |-> 2, maxAmount |-> 3]}
=============================================================================
