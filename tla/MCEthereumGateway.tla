------------------------- MODULE MCEthereumGateway -------------------------
(* EthereumGateway for TLC: one token besides ETH, three attesters of which *)
(* one is faulty, and two signer sets of two of them with their rotation,    *)
(* or any one of them as the single attester.                               *)
EXTENDS EthereumGateway, TLC

CONSTANTS m1, m2, m3, s1, s2, s3, token

Request(id, asset, amount) ==
    [messageID |-> id, asset |-> asset, amount |-> amount, expiry |-> 1]

MCWithdrawals == {Request(m1, ETH, 1), Request(m2, token, 1), Request(m3, ETH, 1)}

(* A request that no withdrawal backs. *)
MCRequests == MCWithdrawals \cup {Request(m2, ETH, 2)}

MCSignerSet == [signers |-> {s1, s2}, threshold |-> 2]

MCRotation == {[signers |-> {s2, s3}, threshold |-> 2]}

(* Both signers of either set, the faulty one twice, and too few of them, for
   the one version and the other. *)
MCProofs == [version : {1, 2},
             signatures : {<<s1, s2>>, <<s2, s3>>, <<s3, s3>>, <<s2>>, <<s3>>}]
=============================================================================
