------------------------ MODULE AttestationCollector ------------------------
(***************************************************************************)
(* The attestation collector of the bridge relayer                          *)
(* (relayer/internal/attestations).  Votes for an event lie in a shared      *)
(* file, each with the signature of its voter; the collector picks a         *)
(* threshold of voters and signs for them with the keys it holds, or signs   *)
(* with its own keys when nobody has voted.                                  *)
(*                                                                           *)
(* Voters whose votes expire together are ranked by address; any order of    *)
(* addresses is possible here, so Collect is the set of its possible results *)
(* and is empty when it fails.                                               *)
(***************************************************************************)
EXTENDS Integers, FiniteSetsExt

(* FileVoteSource.Votes: the votes for the event that their voter has signed.
   An entry is [event, signer, expiry, signedBy]. *)
Votes(entries, event) ==
    {v \in entries : v.event = event /\ v.signedBy = v.signer}

(* A voter counts once, with the vote that expires last. *)
Unique(votes) ==
    [s \in {v.signer : v \in votes} |-> Max({v.expiry : v \in {w \in votes : w.signer = s}})]

(* The voters that are taken: no one else's vote lasts longer. *)
Ranked(expiryOf, threshold) ==
    {chosen \in SUBSET DOMAIN expiryOf :
        /\ Cardinality(chosen) = threshold
        /\ \A s \in chosen, t \in DOMAIN expiryOf \ chosen : expiryOf[s] >= expiryOf[t]}

(* Mutant: every vote counts, two of the same voter as well. *)
CollectVotes(votes, keys, threshold, version, longest) ==
    LET expiryOf == IF votes = {} THEN [s \in keys |-> longest] ELSE Unique(votes)
    IN  IF threshold = 0 \/ Cardinality(votes) < threshold THEN {}
        ELSE {[version |-> version, threshold |-> threshold,
               expiry |-> Min({expiryOf[s] : s \in chosen}), proofs |-> chosen] :
                 chosen \in {c \in SUBSET DOMAIN expiryOf :
                                c \subseteq keys /\ c # {} /\ Cardinality(c) <= threshold}}

(* Collect: the keys of those that were taken must all be here. *)
Collect(votes, keys, threshold, version, longest) ==
    LET expiryOf == IF votes = {} THEN [s \in keys |-> longest] ELSE Unique(votes)
    IN  IF threshold = 0 \/ Cardinality(DOMAIN expiryOf) < threshold THEN {}
        ELSE {[version |-> version, threshold |-> threshold,
               expiry |-> Min({expiryOf[s] : s \in chosen}), proofs |-> chosen] :
                 chosen \in {c \in Ranked(expiryOf, threshold) : c \subseteq keys}}
=============================================================================
