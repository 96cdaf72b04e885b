--------------------------- MODULE AttestedClaims ---------------------------
(***************************************************************************)
(* The attestation collector of the relayer and the bridge keeper together: *)
(* what the one puts together for a deposit against what the other asks for.*)
(***************************************************************************)
EXTENDS BridgeKeeper, AttestationCollector

CONSTANTS
    VoteFiles,   \* the files of votes: sets of entries [event, signer, expiry, signedBy]
    KeySets,     \* the signers whose keys a collector holds
    Thresholds, Versions  \* what collectors are configured with

ASSUME CollectorAssumption ==
    /\ \A entries \in VoteFiles :
           IsFiniteSet(entries) /\ \A v \in entries : v.expiry \in Nat
    /\ \A keys \in KeySets : keys \subseteq Signers
    /\ Thresholds \subseteq Nat

(* The collectors that found enough votes for the event 0, with what they came
   up with. *)
Collected ==
    UNION {{[keys |-> keys, votes |-> Votes(entries, 0), attestation |-> att] :
               att \in Collect(Votes(entries, 0), keys, n, v, MaxUint64)} :
             entries \in VoteFiles, keys \in KeySets, n \in Thresholds, v \in Versions}

(* An attestation that the collector puts together for a deposit is accepted by
   the keeper as long as neither it nor the claim has expired, if the collector
   was configured for the signer set that is active: the voters are different
   members, as many as the keeper asks for, and the attestation lasts no longer
   than the latest vote of each of them (Collect, verifyDepositClaim). *)
CollectedAreAccepted ==
    \A c \in Collected :
        LET att == c.attestation
        IN  /\ \A s \in att.proofs : \/ c.votes = {}
                                    \/ \E v \in c.votes : v.signer = s /\ v.expiry >= att.expiry
            /\ (/\ IsActiveVersion(att.version)
                /\ c.keys \subseteq signerSets[att.version].signers
                /\ att.threshold >= signerSets[att.version].threshold
                /\ height <= att.expiry)
                   => \A claim \in Deposits :
                          height <= claim.deadline => VerifyDepositClaim(claim, att)
=============================================================================
