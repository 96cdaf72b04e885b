----------------------------- MODULE MCBridgeApp -----------------------------
(* BridgeApp for TLC: one asset, two accounts, one deposit of two units and   *)
(* one of one unit, a block or two, and a crash at any point.                 *)
EXTENDS BridgeApp

CONSTANTS a1, d1, m1, m2, alice, carol

Claim(k, n, who) == [messageID |-> k, assetID |-> a1, amount |-> n,
                     recipient |-> who, deadline |-> 2]

MCDenomOf == [a \in AssetIDs |-> d1]

MCDeposits == {Claim(m1, 2, alice), Claim(m2, 1, carol)}

MCSignerSet == [version |-> 1, signers |-> Signers, threshold |-> 1,
                activatedAt |-> 0, expiresAt |-> 0]

MCAttestations == {[version |-> 1, threshold |-> 1, expiry |-> 2,
                    proofs |-> Signers]}

MCLimit == {[windowBlocks |-> 2, maxAmount |-> 4]}
=============================================================================
