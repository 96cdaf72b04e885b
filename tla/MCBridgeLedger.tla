--------------------------- MODULE MCBridgeLedger ---------------------------
(* BridgeKeeper for TLC: two assets that derive the same denomination,       *)
(* genuine and forged claims, withdrawals, and signer sets that are rotated, *)
(* expire and come back when the height is set back.  The attesters s1 and   *)
(* s2 are faulty: signer set 1 is in their hands, the sets that replace it   *)
(* are not.  Collectors with one signer's keys or with two sign for what is   *)
(* in a file of votes.                                                        *)
EXTENDS AttestedClaims, TLC

CONSTANTS a1, a2, d1, m1, m2, m3, s1, s2, s3, s4

Claim(k, a, n) == [messageID |-> k, assetID |-> a, amount |-> n,
                   recipient |-> CHOOSE x \in Accounts : TRUE, deadline |-> 2]

MCDenomOf == (a1 :> d1) @@ (a2 :> d1)

(* The event behind m1 is of one unit; no event is behind m2. *)
MCDeposits == {Claim(m1, a1, 1), Claim(m3, a2, 2)}
MCClaims == MCDeposits \cup {Claim(m1, a1, 2), Claim(m2, a2, 1)}

Rotation(v, members, n, from, to) ==
    [version |-> v, signers |-> members, threshold |-> n,
     activatedAt |-> from, expiresAt |-> to]

MCSignerSet == Rotation(1, {s1, s2, s3}, 2, 0, 0)

MCSignerSets == {Rotation(2, {s2, s3, s4}, 2, 1, 0),
                 Rotation(2, {s2, s3, s4}, 2, 0, 1),
                 Rotation(3, {s3, s4}, 1, 1, 1),
                 Rotation(3, {s3, s4}, 3, 0, 0)}

MCAttestations == [version : 1 .. 3, threshold : {1, 2}, expiry : {1, 2},
                   proofs : {{s1, s2}, {s2, s3}, {s1, s2, s4}, {s3, s4}, {s4}}]

MCLimit == {[windowBlocks |-> 1, maxAmount |-> 3]}

(* Votes for an event: those of s3 under two expiries, and one of s4 that s2
   has signed in its name. *)
Entry(s, n, by) == [event |-> 0, signer |-> s, expiry |-> n, signedBy |-> by]

MCVoteFiles == SUBSET {Entry(s3, 1, s3), Entry(s3, 2, s3), Entry(s4, 1, s4),
                       Entry(s4, 2, s2)}

MCKeySets == {{s3}, {s3, s4}}
=============================================================================
