---------------------------- MODULE BridgeKeeper ----------------------------
(***************************************************************************)
(* The bridge keeper of the AegisLink zone (chain/aegislink/x/bridge) with *)
(* the keepers it consults: the asset registry, the pauser and the rate    *)
(* limits.  It turns attested Ethereum deposits into supply of a bridged   *)
(* denomination, burns supply for withdrawals, and recomputes the supply   *)
(* from its records after every operation, opening a circuit breaker when  *)
(* the two disagree.                                                       *)
(*                                                                         *)
(* An operation that is rejected changes nothing here: the counter of      *)
(* rejected claims is a metric and is left out.  The one rejection that    *)
(* leaves a trace, a withdrawal that exceeds the supply, is an action.     *)
(***************************************************************************)
EXTENDS RateLimits, Totals, Sequences

CONSTANTS
    Denoms,            \* bridged denominations
    DenomOf,           \* asset -> the denomination derived from its id and kind
    MessageIDs,        \* replay keys of deposit claims
    Accounts,          \* bech32 accounts of the zone
    EthAccounts,       \* non-zero Ethereum addresses
    Claims,            \* the deposit claims that may be submitted
    Attestations,      \* the attestations that may come with them
    Deposits,          \* those that an event of the Ethereum gateway backs
    Signers,           \* attester addresses
    Faulty,            \* attesters that may sign a claim no event backs
    InitialSignerSet,  \* signer set 1, from the runtime configuration
    SignerSetChoices,  \* signer sets that may be upserted
    LimitChoices,      \* rate limits that may be set
    WithdrawalAmounts, \* amounts a withdrawal may ask for
    Deadlines,         \* deadlines a withdrawal may carry
    MaxHeight,         \* bound: heights that are set
    MaxWithdrawals     \* bound: withdrawals recorded

DepositClaim == [messageID : MessageIDs, assetID : AssetIDs,
                 amount : Nat \ {0}, recipient : Accounts,
                 deadline : Uint64 \ {0}]

Attestation == [version : Uint64 \ {0}, threshold : Nat \ {0},
                expiry : Uint64 \ {0}, proofs : SUBSET Signers]

SignerSet == [version : Uint64 \ {0}, signers : SUBSET Signers,
              threshold : Nat \ {0}, activatedAt : Uint64, expiresAt : Uint64]

(* SignerSet.ValidateBasic; signers is a set, so duplicates cannot occur. *)
ValidSignerSet(set) ==
    /\ set \in SignerSet
    /\ set.threshold <= Cardinality(set.signers)
    /\ set.expiresAt # 0 => set.expiresAt >= set.activatedAt

ASSUME BridgeAssumption ==
    /\ DenomOf \in [AssetIDs -> Denoms]
    /\ Claims \subseteq DepositClaim
    /\ Deposits \subseteq Claims
    /\ \A c, d \in Deposits : c.messageID = d.messageID => c = d
    /\ Attestations \subseteq Attestation
    /\ IsFiniteSet(Signers) /\ Faulty \subseteq Signers
    /\ InitialSignerSet \in SignerSet
    /\ InitialSignerSet.version = 1
    /\ InitialSignerSet.activatedAt = 0 /\ InitialSignerSet.expiresAt = 0
    /\ LimitChoices \subseteq RateLimit
    /\ WithdrawalAmounts \subseteq Nat \ {0}
    /\ Deadlines \subseteq Uint64 \ {0}
    /\ MaxHeight \in Uint64 /\ MaxWithdrawals \in Nat

VARIABLES
    assets,           \* registry: asset -> "unregistered", "enabled", "disabled"
    paused,           \* pauser: the paused flows, which are asset ids
    height,           \* currentHeight
    signerSets,       \* version -> signer set
    processedClaims,  \* message id -> record of the accepted claim
    supply,           \* supplyByDenom; zero when there is no entry
    withdrawals,      \* the withdrawal records, in order
    nextNonce,        \* nextWithdrawalNonce
    tripped,          \* circuitBreakerTripped
    acceptedUnder     \* history: message id -> the signer set active at that time

policyVars == <<assets, paused, height, signerSets>>
ledgerVars == <<processedClaims, supply, withdrawals, nextNonce, tripped,
                acceptedUnder>>
keeperVars == <<limits, usage, assets, paused, height, signerSets,
                processedClaims, supply, withdrawals, nextNonce, tripped,
                acceptedUnder>>

ClaimRecord == [denom : Denoms, assetID : AssetIDs, recipient : Accounts,
                amount : Nat \ {0}]

WithdrawalRecord == [blockHeight : Uint64, nonce : Nat \ {0},
                     assetID : AssetIDs, amount : Nat \ {0},
                     recipient : EthAccounts, deadline : Uint64]

TypeOK ==
    /\ LimitsTypeOK
    /\ assets \in [AssetIDs -> {"unregistered", "enabled", "disabled"}]
    /\ paused \subseteq AssetIDs
    /\ height \in Uint64
    /\ DOMAIN signerSets \subseteq Uint64
    /\ signerSets \in [DOMAIN signerSets -> SignerSet]
    /\ DOMAIN processedClaims \subseteq MessageIDs
    /\ processedClaims \in [DOMAIN processedClaims -> ClaimRecord]
    /\ supply \in [Denoms -> Nat]
    /\ withdrawals \in Seq(WithdrawalRecord)
    /\ nextNonce \in Nat \ {0}
    /\ tripped \in BOOLEAN
    /\ acceptedUnder \in [DOMAIN processedClaims -> SignerSet]

Init ==
    /\ LimitsInit
    /\ assets = [a \in AssetIDs |-> "unregistered"]
    /\ paused = {}
    /\ height = 0
    /\ signerSets = [v \in {1} |-> InitialSignerSet]
    /\ processedClaims = [k \in {} |-> 0]
    /\ supply = [d \in Denoms |-> 0]
    /\ withdrawals = <<>>
    /\ nextNonce = 1
    /\ tripped = FALSE
    /\ acceptedUnder = [k \in {} |-> 0]

-----------------------------------------------------------------------------
(* Attestations of deposit claims. *)

(* The proofs of an attestation whose signature recovers to the signer it
   names.  An honest attester signs only what an event of the gateway backs;
   a proof that does not verify is skipped. *)
VerifiedSigners(claim, att) ==
    {s \in att.proofs : s \in Faulty \/ claim \in Deposits}

Active(set) == /\ set.activatedAt <= height
               /\ set.expiresAt # 0 => height <= set.expiresAt

(* The active signer set is the one with the highest version among those
   whose activation has come and whose expiry has not passed. *)
IsActiveVersion(v) ==
    /\ v \in DOMAIN signerSets
    /\ Active(signerSets[v])
    /\ \A w \in DOMAIN signerSets : Active(signerSets[w]) => w <= v

ActiveSignerSet == signerSets[CHOOSE v \in DOMAIN signerSets : IsActiveVersion(v)]

(* Mutant: any stored signer set may vouch, not only the active one. *)
VerifyAnyVersion(claim, att) ==
    /\ att.threshold <= Cardinality(att.proofs)
    /\ height <= claim.deadline
    /\ height <= att.expiry
    /\ att.version \in DOMAIN signerSets
    /\ att.threshold >= signerSets[att.version].threshold
    /\ Cardinality(VerifiedSigners(claim, att)
                     \cap signerSets[att.version].signers)
          >= signerSets[att.version].threshold

(* Attestation.ValidateBasic, then the checks of verifyDepositClaim.  The
   attestation is one for this claim: a message id or a payload hash that
   differs is rejected. *)
VerifyDepositClaim(claim, att) ==
    /\ att.threshold <= Cardinality(att.proofs)
    /\ height <= claim.deadline
    /\ height <= att.expiry
    /\ IsActiveVersion(att.version)
    /\ att.threshold >= signerSets[att.version].threshold
    /\ Cardinality(VerifiedSigners(claim, att)
                     \cap signerSets[att.version].signers)
          >= signerSets[att.version].threshold

-----------------------------------------------------------------------------
(* The accounting invariant. *)

Minted(claims, d) ==
    Total(Amounts(claims), {k \in DOMAIN claims : claims[k].denom = d})

Burned(records, d) ==
    Total(Amounts(records), {i \in DOMAIN records : DenomOf[records[i].assetID] = d})

(* Mutant: a supply above the recorded one is let pass. *)
SupplyCovered(claims, sup, records) ==
    \A d \in Denoms : sup[d] >= Minted(claims, d) - Burned(records, d)

(* CheckAccountingInvariant: every withdrawal is of a registered asset, no
   denomination has burned more than it minted, and the supply is the
   difference. *)
AccountingHolds(claims, sup, records) ==
    /\ \A i \in DOMAIN records : assets[records[i].assetID] # "unregistered"
    /\ \A d \in Denoms : /\ Burned(records, d) <= Minted(claims, d)
                         /\ sup[d] = Minted(claims, d) - Burned(records, d)

-----------------------------------------------------------------------------
(* Operations of the bridge keeper. *)

(* The asset checks that both bridge operations make. *)
FlowOpen(a) == assets[a] = "enabled" /\ a \notin paused

(* acceptDepositClaim: mint the representation and record the claim. *)
AcceptDepositClaim(claim) ==
    LET k == claim.messageID
        d == DenomOf[claim.assetID]
    IN  /\ supply' = [supply EXCEPT ![d] = @ + claim.amount]
        /\ processedClaims' =
               [m \in DOMAIN processedClaims \cup {k} |->
                   IF m = k
                   THEN [denom |-> d, assetID |-> claim.assetID,
                         recipient |-> claim.recipient, amount |-> claim.amount]
                   ELSE processedClaims[m]]
        /\ acceptedUnder' =
               [m \in DOMAIN processedClaims \cup {k} |->
                   IF m = k THEN ActiveSignerSet ELSE acceptedUnder[m]]
        /\ UNCHANGED <<withdrawals, nextNonce>>

(* Mutant: a claim is not looked up before it is accepted. *)
CanReplayClaim(claim, att) ==
    /\ ~tripped
    /\ VerifyDepositClaim(claim, att)
    /\ FlowOpen(claim.assetID)
    /\ CheckTransferAtHeight(claim.assetID, claim.amount, height)

(* Mutant: the asset is not checked. *)
CanClaimClosedFlow(claim, att) ==
    /\ ~tripped
    /\ claim.messageID \notin DOMAIN processedClaims
    /\ VerifyDepositClaim(claim, att)
    /\ CheckTransferAtHeight(claim.assetID, claim.amount, height)

CanExecuteDepositClaim(claim, att) ==
    /\ ~tripped
    /\ claim.messageID \notin DOMAIN processedClaims
    /\ VerifyDepositClaim(claim, att)
    /\ FlowOpen(claim.assetID)
    /\ CheckTransferAtHeight(claim.assetID, claim.amount, height)

ExecuteDepositClaim(claim, att) ==
    /\ CanExecuteDepositClaim(claim, att)
    /\ RecordTransferAtHeight(claim.assetID, claim.amount, height)
    /\ AcceptDepositClaim(claim)
    /\ tripped' = ~AccountingHolds(processedClaims', supply', withdrawals)
    /\ UNCHANGED policyVars

(* Mutant: the nonce is not advanced. *)
RecordWithSameNonce(a, amount, recipient, deadline) ==
    /\ supply' = [supply EXCEPT ![DenomOf[a]] = @ - amount]
    /\ withdrawals' = Append(withdrawals,
           [blockHeight |-> height, nonce |-> nextNonce, assetID |-> a,
            amount |-> amount, recipient |-> recipient, deadline |-> deadline])
    /\ UNCHANGED <<nextNonce, processedClaims, acceptedUnder>>

(* Burn the representation and append the record with the next nonce. *)
RecordWithdrawal(a, amount, recipient, deadline) ==
    /\ supply' = [supply EXCEPT ![DenomOf[a]] = @ - amount]
    /\ withdrawals' = Append(withdrawals,
           [blockHeight |-> height, nonce |-> nextNonce, assetID |-> a,
            amount |-> amount, recipient |-> recipient, deadline |-> deadline])
    /\ nextNonce' = nextNonce + 1
    /\ UNCHANGED <<processedClaims, acceptedUnder>>

CanExecuteWithdrawal(a, amount) ==
    /\ ~tripped
    /\ FlowOpen(a)
    /\ CheckTransferAtHeight(a, amount, height)

(* Mutant: the supply is not compared with the amount. *)
WithdrawUnchecked(a, amount, recipient, deadline) ==
    /\ Len(withdrawals) < MaxWithdrawals
    /\ CanExecuteWithdrawal(a, amount)
    /\ RecordTransferAtHeight(a, amount, height)
    /\ RecordWithdrawal(a, amount, recipient, deadline)
    /\ tripped' = ~AccountingHolds(processedClaims, supply', withdrawals')
    /\ UNCHANGED policyVars

ExecuteWithdrawal(a, amount, recipient, deadline) ==
    /\ Len(withdrawals) < MaxWithdrawals
    /\ CanExecuteWithdrawal(a, amount)
    /\ supply[DenomOf[a]] >= amount
    /\ RecordTransferAtHeight(a, amount, height)
    /\ RecordWithdrawal(a, amount, recipient, deadline)
    /\ tripped' = ~AccountingHolds(processedClaims, supply', withdrawals')
    /\ UNCHANGED policyVars

(* The usage is recorded before the supply is looked at, so a withdrawal
   that is turned down for lack of supply has used up its share. *)
RejectWithdrawalForSupply(a, amount) ==
    /\ CanExecuteWithdrawal(a, amount)
    /\ supply[DenomOf[a]] < amount
    /\ RecordTransferAtHeight(a, amount, height)
    /\ UNCHANGED policyVars
    /\ UNCHANGED ledgerVars

(* Any height may be set: a block advances it by one, and a withdrawal
   submitted with a height sets it to that height. *)
SetCurrentHeight(h) ==
    /\ height' = h
    /\ UNCHANGED limitsVars
    /\ UNCHANGED <<assets, paused, signerSets>>
    /\ UNCHANGED ledgerVars

UpsertSignerSet(set) ==
    /\ ValidSignerSet(set)
    /\ signerSets' = [v \in DOMAIN signerSets \cup {set.version} |->
                         IF v = set.version THEN set ELSE signerSets[v]]
    /\ UNCHANGED limitsVars
    /\ UNCHANGED <<assets, paused, height>>
    /\ UNCHANGED ledgerVars

-----------------------------------------------------------------------------
(* Operations of the registry, the pauser and the limits keeper. *)

(* Mutant: the denomination may be taken. *)
RegisterAnyAsset(a, status) ==
    /\ assets[a] = "unregistered"
    /\ assets' = [assets EXCEPT ![a] = status]
    /\ UNCHANGED limitsVars
    /\ UNCHANGED <<paused, height, signerSets>>
    /\ UNCHANGED ledgerVars

(* A new asset must not share the denomination of a registered one. *)
RegisterAsset(a, status) ==
    /\ assets[a] = "unregistered"
    /\ \A b \in AssetIDs :
           b # a /\ assets[b] # "unregistered" => DenomOf[b] # DenomOf[a]
    /\ assets' = [assets EXCEPT ![a] = status]
    /\ UNCHANGED limitsVars
    /\ UNCHANGED <<paused, height, signerSets>>
    /\ UNCHANGED ledgerVars

SetAssetEnabled(a, status) ==
    /\ assets[a] # "unregistered"
    /\ assets' = [assets EXCEPT ![a] = status]
    /\ UNCHANGED limitsVars
    /\ UNCHANGED <<paused, height, signerSets>>
    /\ UNCHANGED ledgerVars

Pause(a) ==
    /\ paused' = paused \cup {a}
    /\ UNCHANGED limitsVars
    /\ UNCHANGED <<assets, height, signerSets>>
    /\ UNCHANGED ledgerVars

Unpause(a) ==
    /\ paused' = paused \ {a}
    /\ UNCHANGED limitsVars
    /\ UNCHANGED <<assets, height, signerSets>>
    /\ UNCHANGED ledgerVars

UpdateLimit(a, limit) ==
    /\ SetLimit(a, limit)
    /\ UNCHANGED policyVars
    /\ UNCHANGED ledgerVars

-----------------------------------------------------------------------------

Policy ==
    \/ \E h \in 0 .. MaxHeight : SetCurrentHeight(h)
    \/ \E set \in SignerSetChoices : UpsertSignerSet(set)
    \/ \E a \in AssetIDs, status \in {"enabled", "disabled"} :
           RegisterAsset(a, status) \/ SetAssetEnabled(a, status)
    \/ \E a \in AssetIDs : Pause(a) \/ Unpause(a)
    \/ \E a \in AssetIDs, limit \in LimitChoices : UpdateLimit(a, limit)

Next ==
    \/ \E claim \in Claims, att \in Attestations : ExecuteDepositClaim(claim, att)
    \/ \E a \in AssetIDs, amount \in WithdrawalAmounts :
           \/ \E recipient \in EthAccounts, deadline \in Deadlines :
                  ExecuteWithdrawal(a, amount, recipient, deadline)
           \/ RejectWithdrawalForSupply(a, amount)
    \/ Policy

Spec == Init /\ [][Next]_keeperVars

-----------------------------------------------------------------------------
(* Properties. *)

(* No sequence of operations opens the circuit breaker: after every one of
   them the supply that CheckAccountingInvariant recomputes from the claims
   and the withdrawals is the supply the keeper holds. *)
CircuitStaysClosed ==
    ~tripped /\ AccountingHolds(processedClaims, supply, withdrawals)

ClaimedOf(claims, a) ==
    Total(Amounts(claims), {k \in DOMAIN claims : claims[k].assetID = a})

WithdrawnOf(records, a) ==
    Total(Amounts(records), {i \in DOMAIN records : records[i].assetID = a})

(* The supply of a registered asset's denomination is what was deposited of
   that very asset less what was withdrawn of it: no asset is redeemed with
   the deposits of another (ensureDestinationDenomAvailable in the registry,
   supplyByDenom in the bridge keeper). *)
AssetBacking ==
    \A a \in AssetIDs : assets[a] # "unregistered" =>
        supply[DenomOf[a]] + WithdrawnOf(withdrawals, a)
            = ClaimedOf(processedClaims, a)

RecordOf(claim) == [denom |-> DenomOf[claim.assetID], assetID |-> claim.assetID,
                    recipient |-> claim.recipient, amount |-> claim.amount]

(* A claim that no gateway event backs, or that differs from the event in its
   asset, recipient or amount, is accepted only if the signer set that was
   active at the time had a threshold of faulty signers: attestations of
   retired, future or foreign signers never count (verifyDepositClaim,
   ActiveSignerSet). *)
GenuineClaims ==
    \A k \in DOMAIN processedClaims :
        \/ \E claim \in Deposits : /\ claim.messageID = k
                                   /\ processedClaims[k] = RecordOf(claim)
        \/ Cardinality(acceptedUnder[k].signers \cap Faulty)
               >= acceptedUnder[k].threshold

(* Withdrawal records carry the nonces 1, 2, 3, ... in order, so that no two
   of them share a message id on the Ethereum side (newWithdrawalRecord). *)
NoncesInOrder ==
    /\ \A i \in DOMAIN withdrawals : withdrawals[i].nonce = i
    /\ nextNonce = Len(withdrawals) + 1

(* A paused or disabled asset neither gains nor loses supply, and an accepted
   claim or a recorded withdrawal is never dropped or altered
   (ExecuteDepositClaim, ExecuteWithdrawal). *)
LedgerStep ==
    /\ \A d \in Denoms : supply'[d] # supply[d] =>
           \E a \in AssetIDs : DenomOf[a] = d /\ FlowOpen(a)
    /\ \A k \in DOMAIN processedClaims :
           k \in DOMAIN processedClaims' /\ processedClaims'[k] = processedClaims[k]
    /\ \A i \in DOMAIN withdrawals :
           i \in DOMAIN withdrawals' /\ withdrawals'[i] = withdrawals[i]

LedgerOnlyGrows == [][LedgerStep]_keeperVars
=============================================================================
