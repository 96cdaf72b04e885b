---------------------------- MODULE BridgeProofs ----------------------------
(***************************************************************************)
(* Proofs about the bridge keeper, for every choice of assets, signers,     *)
(* claims and bounds, and about the application around it, for any number   *)
(* of accounts, queued claims and crashes: the wallets follow the supply    *)
(* through every commit, rollback and crash, the ledger of the keeper       *)
(* survives the rollbacks, and no application goes on without a saved claim.*)
(***************************************************************************)
EXTENDS BridgeApp, BridgeDrift, AttestedClaims, TotalsProofs, SequenceTheorems

-----------------------------------------------------------------------------
(* Type correctness. *)

(* A recorded transfer leaves a well-typed usage record. *)
LEMMA RecordTyped ==
    ASSUME LimitsTypeOK, NEW a \in AssetIDs, NEW amount \in Nat,
           NEW h \in Uint64, RecordTransferAtHeight(a, amount, h)
    PROVE  LimitsTypeOK'
<1>1. usage[a] \in WindowUsage
  BY DEF LimitsTypeOK
<1>2. ActiveUsage(limits[a], usage[a], h) \in WindowUsage
  BY <1>1 DEF ActiveUsage, WindowUsage
<1>3. RecordedUsage(a, amount, h) \in WindowUsage
  BY <1>2 DEF RecordedUsage, WindowUsage
<1> QED
  BY <1>3 DEF RecordTransferAtHeight, LimitsTypeOK

(* The signer set active for an accepted attestation is a stored one: the
   one whose version the attestation names. *)
LEMMA ActiveIsNamed ==
    ASSUME TypeOK, NEW claim, NEW att, VerifyDepositClaim(claim, att)
    PROVE  /\ att.version \in DOMAIN signerSets
           /\ ActiveSignerSet = signerSets[att.version]
           /\ ActiveSignerSet \in SignerSet
<1>1. IsActiveVersion(att.version)
  BY DEF VerifyDepositClaim
<1>2. att.version \in DOMAIN signerSets
  BY <1>1 DEF IsActiveVersion
<1> DEFINE v == CHOOSE w \in DOMAIN signerSets : IsActiveVersion(w)
<1>3. v \in DOMAIN signerSets /\ IsActiveVersion(v)
  BY <1>1, <1>2
<1>4. v \in Int /\ att.version \in Int
  BY <1>2, <1>3, MaxUint64Assumption DEF TypeOK, Uint64
<1>5. v <= att.version /\ att.version <= v
  BY <1>1, <1>3 DEF IsActiveVersion
<1>6. v = att.version
  <2> HIDE DEF v
  <2> QED BY <1>4, <1>5
<1>7. ActiveSignerSet = signerSets[att.version]
  BY <1>6 DEF ActiveSignerSet
<1> QED
  BY <1>2, <1>7 DEF TypeOK

(* What accepting a claim leaves in the ledger. *)
LEMMA AcceptTyped ==
    ASSUME TypeOK, NEW claim \in Claims, NEW att,
           VerifyDepositClaim(claim, att), AcceptDepositClaim(claim)
    PROVE  /\ DOMAIN processedClaims' = DOMAIN processedClaims \cup {claim.messageID}
           /\ DOMAIN processedClaims' \subseteq MessageIDs
           /\ processedClaims' \in [DOMAIN processedClaims' -> ClaimRecord]
           /\ supply' \in [Denoms -> Nat]
           /\ acceptedUnder' \in [DOMAIN processedClaims' -> SignerSet]
<1>1. /\ claim.messageID \in MessageIDs /\ claim.assetID \in AssetIDs
      /\ claim.amount \in Nat \ {0} /\ claim.recipient \in Accounts
  BY BridgeAssumption DEF DepositClaim
<1>2. DenomOf[claim.assetID] \in Denoms
  BY <1>1, BridgeAssumption
<1>3. [denom |-> DenomOf[claim.assetID], assetID |-> claim.assetID,
       recipient |-> claim.recipient, amount |-> claim.amount] \in ClaimRecord
  BY <1>1, <1>2 DEF ClaimRecord
<1>4. supply' \in [Denoms -> Nat]
  BY <1>1, <1>2 DEF AcceptDepositClaim, TypeOK
<1>5. /\ DOMAIN processedClaims' = DOMAIN processedClaims \cup {claim.messageID}
      /\ processedClaims' \in [DOMAIN processedClaims' -> ClaimRecord]
  BY <1>3 DEF AcceptDepositClaim, TypeOK
<1>6. ActiveSignerSet \in SignerSet
  BY ActiveIsNamed
<1>7. acceptedUnder' \in [DOMAIN processedClaims' -> SignerSet]
  BY <1>5, <1>6 DEF AcceptDepositClaim, TypeOK
<1> QED
  BY <1>1, <1>4, <1>5, <1>7 DEF TypeOK

(* A keeper with no records, whatever supply it was loaded with. *)
Fresh ==
    /\ LimitsInit
    /\ assets = [a \in AssetIDs |-> "unregistered"]
    /\ paused = {} /\ height = 0
    /\ signerSets = [v \in {1} |-> InitialSignerSet]
    /\ processedClaims = [k \in {} |-> 0] /\ withdrawals = <<>> /\ nextNonce = 1
    /\ tripped = FALSE
    /\ acceptedUnder = [k \in {} |-> 0]

LEMMA FreshTyped ==
    ASSUME Fresh, supply \in [Denoms -> Nat]
    PROVE  TypeOK
<1>1. LimitsTypeOK
  BY MaxUint64Assumption DEF Fresh, LimitsInit, LimitsTypeOK, WindowUsage, NoUsage, Uint64
<1>2. withdrawals \in Seq(WithdrawalRecord)
  BY EmptySeq DEF Fresh
<1>3. /\ DOMAIN signerSets \subseteq Uint64
      /\ signerSets \in [DOMAIN signerSets -> SignerSet]
  BY BridgeAssumption, MaxUint64Assumption DEF Fresh, Uint64
<1>4. /\ DOMAIN processedClaims = {}
      /\ processedClaims \in [{} -> ClaimRecord]
      /\ acceptedUnder \in [{} -> SignerSet]
  BY DEF Fresh
<1>5. height \in Uint64 /\ supply \in [Denoms -> Nat]
  BY MaxUint64Assumption DEF Fresh, Uint64
<1>6. /\ assets \in [AssetIDs -> {"unregistered", "enabled", "disabled"}]
      /\ paused \subseteq AssetIDs
      /\ nextNonce \in Nat \ {0}
  BY DEF Fresh
<1>7. tripped \in BOOLEAN
  BY DEF Fresh
<1> QED
  BY <1>1, <1>2, <1>3, <1>4, <1>5, <1>6, <1>7 DEF TypeOK

(* The initial state is well typed. *)
LEMMA InitTyped ==
    ASSUME Init
    PROVE  TypeOK
<1>1. Fresh /\ supply \in [Denoms -> Nat]
  BY DEF Init, Fresh
<1> QED
  BY <1>1, FreshTyped

(* Every operation keeps the types. *)
LEMMA StepTyped ==
    ASSUME TypeOK, [Next]_keeperVars
    PROVE  TypeOK'
<1>1. ASSUME NEW claim \in Claims, NEW att \in Attestations,
             ExecuteDepositClaim(claim, att)
      PROVE  TypeOK'
  <2>1. VerifyDepositClaim(claim, att) /\ AcceptDepositClaim(claim)
    BY <1>1 DEF ExecuteDepositClaim, CanExecuteDepositClaim
  <2>2. claim.assetID \in AssetIDs /\ claim.amount \in Nat
    BY BridgeAssumption DEF DepositClaim
  <2>3. LimitsTypeOK'
    BY <1>1, <2>2, RecordTyped DEF ExecuteDepositClaim, TypeOK
  <2>4. tripped' \in BOOLEAN
    BY <1>1 DEF ExecuteDepositClaim
  <2> QED
    BY <1>1, <2>1, <2>3, <2>4, AcceptTyped
       DEF ExecuteDepositClaim, AcceptDepositClaim, TypeOK, policyVars
<1>2. ASSUME NEW a \in AssetIDs, NEW amount \in WithdrawalAmounts,
             NEW recipient \in EthAccounts, NEW deadline \in Deadlines,
             ExecuteWithdrawal(a, amount, recipient, deadline)
      PROVE  TypeOK'
  <2>1. amount \in Nat \ {0} /\ deadline \in Uint64 /\ DenomOf[a] \in Denoms
    BY BridgeAssumption
  <2>2. LimitsTypeOK'
    BY <1>2, <2>1, RecordTyped DEF ExecuteWithdrawal, TypeOK
  <2>3. supply' \in [Denoms -> Nat]
    BY <1>2, <2>1 DEF ExecuteWithdrawal, RecordWithdrawal, TypeOK
  <2>4. [blockHeight |-> height, nonce |-> nextNonce, assetID |-> a,
         amount |-> amount, recipient |-> recipient,
         deadline |-> deadline] \in WithdrawalRecord
    BY <2>1 DEF TypeOK, WithdrawalRecord
  <2>5. withdrawals' \in Seq(WithdrawalRecord)
    BY <1>2, <2>4, AppendProperties DEF ExecuteWithdrawal, RecordWithdrawal, TypeOK
  <2>6. nextNonce' \in Nat \ {0} /\ tripped' \in BOOLEAN
    BY <1>2 DEF ExecuteWithdrawal, RecordWithdrawal, TypeOK
  <2> QED
    BY <1>2, <2>2, <2>3, <2>5, <2>6
       DEF ExecuteWithdrawal, RecordWithdrawal, TypeOK, policyVars
<1>3. ASSUME NEW a \in AssetIDs, NEW amount \in WithdrawalAmounts,
             RejectWithdrawalForSupply(a, amount)
      PROVE  TypeOK'
  <2>1. amount \in Nat
    BY BridgeAssumption
  <2>2. LimitsTypeOK'
    BY <1>3, <2>1, RecordTyped DEF RejectWithdrawalForSupply, TypeOK
  <2> QED
    BY <1>3, <2>2 DEF RejectWithdrawalForSupply, TypeOK, policyVars, ledgerVars
<1>4. ASSUME NEW h \in 0 .. MaxHeight, SetCurrentHeight(h)
      PROVE  TypeOK'
  BY <1>4, BridgeAssumption, MaxUint64Assumption
     DEF SetCurrentHeight, TypeOK, LimitsTypeOK, limitsVars, ledgerVars, Uint64
<1>5. ASSUME NEW set \in SignerSetChoices, UpsertSignerSet(set)
      PROVE  TypeOK'
  <2>1. set \in SignerSet /\ set.version \in Uint64
    BY <1>5 DEF UpsertSignerSet, ValidSignerSet, SignerSet
  <2>2. /\ DOMAIN signerSets' = DOMAIN signerSets \cup {set.version}
        /\ signerSets' \in [DOMAIN signerSets' -> SignerSet]
    BY <1>5, <2>1 DEF UpsertSignerSet, TypeOK
  <2> QED
    BY <1>5, <2>1, <2>2
       DEF UpsertSignerSet, TypeOK, LimitsTypeOK, limitsVars, ledgerVars
<1>6. ASSUME NEW a \in AssetIDs, NEW status \in {"enabled", "disabled"},
             RegisterAsset(a, status) \/ SetAssetEnabled(a, status)
      PROVE  TypeOK'
  BY <1>6 DEF RegisterAsset, SetAssetEnabled, TypeOK, LimitsTypeOK, limitsVars,
              ledgerVars
<1>7. ASSUME NEW a \in AssetIDs, Pause(a) \/ Unpause(a)
      PROVE  TypeOK'
  BY <1>7 DEF Pause, Unpause, TypeOK, LimitsTypeOK, limitsVars, ledgerVars
<1>8. ASSUME NEW a \in AssetIDs, NEW limit \in LimitChoices,
             UpdateLimit(a, limit)
      PROVE  TypeOK'
  BY <1>8 DEF UpdateLimit, SetLimit, TypeOK, LimitsTypeOK, policyVars, ledgerVars
<1>9. CASE UNCHANGED keeperVars
  BY <1>9 DEF keeperVars, TypeOK, LimitsTypeOK
<1> QED
  BY <1>1, <1>2, <1>3, <1>4, <1>5, <1>6, <1>7, <1>8, <1>9 DEF Next, Policy

(* Every state the keeper reaches is well typed; in particular no burn takes
   the supply below zero. *)
THEOREM TypeCorrect == Spec => []TypeOK
<1>1. Init => TypeOK
  BY InitTyped
<1>2. TypeOK /\ [Next]_keeperVars => TypeOK'
  BY StepTyped
<1> QED
  BY <1>1, <1>2, PTL DEF Spec

-----------------------------------------------------------------------------
(* The accounting invariant. *)

(* The records of the ledger are finitely many and carry natural amounts. *)
LEMMA RecordsFinite ==
    ASSUME TypeOK
    PROVE  /\ IsFiniteSet(DOMAIN withdrawals)
           /\ DOMAIN withdrawals = 1 .. Len(withdrawals)
           /\ Len(withdrawals) \in Nat
           /\ \A i \in DOMAIN withdrawals : withdrawals[i] \in WithdrawalRecord
           /\ \A i \in DOMAIN withdrawals : withdrawals[i].amount \in Nat
           /\ \A k \in DOMAIN processedClaims : processedClaims[k].amount \in Nat
<1>1. /\ Len(withdrawals) \in Nat
      /\ DOMAIN withdrawals = 1 .. Len(withdrawals)
      /\ withdrawals \in [1 .. Len(withdrawals) -> WithdrawalRecord]
  BY LenProperties DEF TypeOK
<1>2. IsFiniteSet(DOMAIN withdrawals)
  BY <1>1, FS_Interval
<1>3. \A i \in DOMAIN withdrawals : withdrawals[i] \in WithdrawalRecord
  BY <1>1
<1>4. \A i \in DOMAIN withdrawals : withdrawals[i].amount \in Nat
  BY <1>3 DEF WithdrawalRecord
<1>5. \A k \in DOMAIN processedClaims : processedClaims[k].amount \in Nat
  BY DEF TypeOK, ClaimRecord
<1> QED
  BY <1>1, <1>2, <1>3, <1>4, <1>5

(* An accepted claim is one more record under its message id. *)
LEMMA AcceptAddsRecord ==
    ASSUME TypeOK, NEW claim \in Claims,
           claim.messageID \notin DOMAIN processedClaims,
           AcceptDepositClaim(claim)
    PROVE  /\ DOMAIN processedClaims' = DOMAIN processedClaims \cup {claim.messageID}
           /\ \A k \in DOMAIN processedClaims : processedClaims'[k] = processedClaims[k]
           /\ processedClaims'[claim.messageID] = RecordOf(claim)
           /\ RecordOf(claim).amount = claim.amount
           /\ RecordOf(claim).assetID = claim.assetID
           /\ RecordOf(claim).denom = DenomOf[claim.assetID]
           /\ claim.amount \in Nat
           /\ claim.assetID \in AssetIDs
<1>1. /\ claim.amount \in Nat /\ claim.assetID \in AssetIDs
  BY BridgeAssumption DEF DepositClaim
<1> QED
  BY <1>1 DEF AcceptDepositClaim, RecordOf

(* Totals over the accepted claims after one more was accepted. *)
LEMMA AcceptTotals ==
    ASSUME TypeOK, IsFiniteSet(DOMAIN processedClaims), NEW claim \in Claims,
           claim.messageID \notin DOMAIN processedClaims,
           AcceptDepositClaim(claim)
    PROVE  \A d \in Denoms :
               /\ Minted(processedClaims, d) \in Nat
               /\ Minted(processedClaims', d) = Minted(processedClaims, d)
                     + IF d = DenomOf[claim.assetID] THEN claim.amount ELSE 0
<1> DEFINE old == processedClaims
           new == processedClaims'
           k == claim.messageID
<1>1. /\ DOMAIN new = DOMAIN old \cup {k} /\ k \notin DOMAIN old
      /\ \A m \in DOMAIN old : new[m] = old[m]
      /\ new[k].amount = claim.amount
      /\ new[k].assetID = claim.assetID
      /\ new[k].denom = DenomOf[claim.assetID]
      /\ claim.amount \in Nat
  BY AcceptAddsRecord
<1>2. \A m \in DOMAIN old : old[m].amount \in Nat
  BY RecordsFinite
<1> HIDE DEF old, new, k
<1>3. \A S \in SUBSET DOMAIN old :
          /\ Total(Amounts(new), S) = Total(Amounts(old), S)
          /\ Total(Amounts(new), S \cup {k}) = Total(Amounts(old), S) + claim.amount
          /\ Total(Amounts(old), S) \in Nat
  <2> SUFFICES ASSUME NEW S \in SUBSET DOMAIN old
               PROVE  /\ Total(Amounts(new), S) = Total(Amounts(old), S)
                      /\ Total(Amounts(new), S \cup {k})
                            = Total(Amounts(old), S) + claim.amount
                      /\ Total(Amounts(old), S) \in Nat
    OBVIOUS
  <2>1. IsFiniteSet(DOMAIN old)
    BY DEF old
  <2> QED
    BY <1>1, <1>2, <2>1, TotalWithRecord
<1>4. ASSUME NEW d \in Denoms
      PROVE  /\ Minted(old, d) \in Nat
             /\ Minted(new, d) = Minted(old, d)
                   + IF d = DenomOf[claim.assetID] THEN claim.amount ELSE 0
  <2> DEFINE S == {m \in DOMAIN old : old[m].denom = d}
             T == {m \in DOMAIN new : new[m].denom = d}
  <2>1. T = IF d = DenomOf[claim.assetID] THEN S \cup {k} ELSE S
    BY <1>1
  <2>2. Minted(old, d) = Total(Amounts(old), S) /\ Minted(new, d) = Total(Amounts(new), T)
    BY DEF Minted
  <2>3. S \in SUBSET DOMAIN old
    OBVIOUS
  <2>4. /\ Total(Amounts(new), S) = Total(Amounts(old), S)
        /\ Total(Amounts(new), S \cup {k}) = Total(Amounts(old), S) + claim.amount
        /\ Total(Amounts(old), S) \in Nat
    BY <1>3, <2>3
  <2> HIDE DEF S, T
  <2>5. CASE d = DenomOf[claim.assetID]
    BY <2>1, <2>2, <2>4, <2>5
  <2>6. CASE ~(d = DenomOf[claim.assetID])
    BY <2>1, <2>2, <2>4, <2>6
  <2> QED
    BY <2>5, <2>6
<1> QED
  BY <1>4 DEF old, new

(* A recorded withdrawal is one more record at the end. *)
LEMMA WithdrawalAddsRecord ==
    ASSUME TypeOK, NEW a \in AssetIDs, NEW amount \in WithdrawalAmounts,
           NEW recipient \in EthAccounts, NEW deadline \in Deadlines,
           RecordWithdrawal(a, amount, recipient, deadline)
    PROVE  /\ Len(withdrawals) + 1 \notin DOMAIN withdrawals
           /\ DOMAIN withdrawals' = DOMAIN withdrawals \cup {Len(withdrawals) + 1}
           /\ Len(withdrawals') = Len(withdrawals) + 1
           /\ \A i \in DOMAIN withdrawals : withdrawals'[i] = withdrawals[i]
           /\ withdrawals'[Len(withdrawals) + 1].amount = amount
           /\ withdrawals'[Len(withdrawals) + 1].assetID = a
           /\ withdrawals'[Len(withdrawals) + 1].nonce = nextNonce
           /\ amount \in Nat
<1> DEFINE rec == [blockHeight |-> height, nonce |-> nextNonce, assetID |-> a,
                   amount |-> amount, recipient |-> recipient, deadline |-> deadline]
<1>1. amount \in Nat \ {0} /\ deadline \in Uint64
  BY BridgeAssumption
<1>2. rec \in WithdrawalRecord
  BY <1>1 DEF TypeOK, WithdrawalRecord
<1>3. withdrawals' = Append(withdrawals, rec)
  BY DEF RecordWithdrawal
<1>4. rec.amount = amount /\ rec.assetID = a /\ rec.nonce = nextNonce
  OBVIOUS
<1>5. /\ Len(withdrawals) \in Nat
      /\ DOMAIN withdrawals = 1 .. Len(withdrawals)
  BY RecordsFinite
<1> HIDE DEF rec
<1>6. /\ withdrawals' \in Seq(WithdrawalRecord)
      /\ Len(withdrawals') = Len(withdrawals) + 1
      /\ \A i \in 1 .. Len(withdrawals) : withdrawals'[i] = withdrawals[i]
      /\ withdrawals'[Len(withdrawals) + 1] = rec
  BY <1>2, <1>3, AppendProperties DEF TypeOK
<1>7. DOMAIN withdrawals' = 1 .. (Len(withdrawals) + 1)
  BY <1>6, LenProperties
<1>8. DOMAIN withdrawals' = DOMAIN withdrawals \cup {Len(withdrawals) + 1}
  BY <1>5, <1>7
<1>9. Len(withdrawals) + 1 \notin DOMAIN withdrawals
  BY <1>5
<1> QED
  BY <1>1, <1>4, <1>5, <1>6, <1>8, <1>9

(* Totals over the withdrawals after one more was recorded. *)
LEMMA WithdrawalTotals ==
    ASSUME TypeOK, NEW a \in AssetIDs, NEW amount \in WithdrawalAmounts,
           NEW recipient \in EthAccounts, NEW deadline \in Deadlines,
           RecordWithdrawal(a, amount, recipient, deadline)
    PROVE  \A d \in Denoms :
               /\ Burned(withdrawals, d) \in Nat
               /\ Burned(withdrawals', d) = Burned(withdrawals, d)
                     + IF d = DenomOf[a] THEN amount ELSE 0
<1> DEFINE old == withdrawals
           new == withdrawals'
           k == Len(withdrawals) + 1
<1>1. /\ DOMAIN new = DOMAIN old \cup {k} /\ k \notin DOMAIN old
      /\ \A m \in DOMAIN old : new[m] = old[m]
      /\ new[k].amount = amount
      /\ new[k].assetID = a
      /\ amount \in Nat
  BY WithdrawalAddsRecord
<1>2. \A m \in DOMAIN old : old[m].amount \in Nat
  BY RecordsFinite
<1>3. IsFiniteSet(DOMAIN old)
  BY RecordsFinite
<1> HIDE DEF old, new, k
<1>4. \A S \in SUBSET DOMAIN old :
          /\ Total(Amounts(new), S) = Total(Amounts(old), S)
          /\ Total(Amounts(new), S \cup {k}) = Total(Amounts(old), S) + amount
          /\ Total(Amounts(old), S) \in Nat
  <2> SUFFICES ASSUME NEW S \in SUBSET DOMAIN old
               PROVE  /\ Total(Amounts(new), S) = Total(Amounts(old), S)
                      /\ Total(Amounts(new), S \cup {k})
                            = Total(Amounts(old), S) + amount
                      /\ Total(Amounts(old), S) \in Nat
    OBVIOUS
  <2>1. new[k].amount \in Nat
    BY <1>1
  <2>2. /\ Total(Amounts(new), S) = Total(Amounts(old), S)
        /\ Total(Amounts(new), S \cup {k}) = Total(Amounts(old), S) + new[k].amount
        /\ Total(Amounts(old), S) \in Nat
    <3>1. DOMAIN new = DOMAIN old \cup {k}
      BY <1>1
    <3>2. k \notin DOMAIN old
      BY <1>1
    <3>3. \A m \in DOMAIN old : new[m] = old[m]
      BY <1>1
    <3> QED
      BY <1>2, <1>3, <2>1, <3>1, <3>2, <3>3, TotalWithRecord
  <2> QED
    BY <1>1, <2>2
<1>5. ASSUME NEW d \in Denoms
      PROVE  /\ Burned(old, d) \in Nat
             /\ Burned(new, d) = Burned(old, d)
                   + IF d = DenomOf[a] THEN amount ELSE 0
  <2> DEFINE S == {m \in DOMAIN old : DenomOf[old[m].assetID] = d}
             T == {m \in DOMAIN new : DenomOf[new[m].assetID] = d}
  <2>1. T = IF d = DenomOf[a] THEN S \cup {k} ELSE S
    BY <1>1
  <2>2. Burned(old, d) = Total(Amounts(old), S) /\ Burned(new, d) = Total(Amounts(new), T)
    BY DEF Burned
  <2>3. S \in SUBSET DOMAIN old
    OBVIOUS
  <2>4. /\ Total(Amounts(new), S) = Total(Amounts(old), S)
        /\ Total(Amounts(new), S \cup {k}) = Total(Amounts(old), S) + amount
        /\ Total(Amounts(old), S) \in Nat
    BY <1>4, <2>3
  <2> HIDE DEF S, T
  <2>5. CASE d = DenomOf[a]
    BY <2>1, <2>2, <2>4, <2>5
  <2>6. CASE ~(d = DenomOf[a])
    BY <2>1, <2>2, <2>4, <2>6
  <2> QED
    BY <2>5, <2>6
<1> QED
  BY <1>5 DEF old, new

-----------------------------------------------------------------------------
(* The inductive invariant of the ledger.  CheckAccountingInvariant alone is
   not inductive: that supplies of different assets do not mix rests on the
   denominations the claims were recorded with, on the claims and withdrawals
   being of registered assets, and on those having different denominations. *)

Registered(a) == assets[a] # "unregistered"

RecordsOfRegistered ==
    /\ \A k \in DOMAIN processedClaims :
           /\ Registered(processedClaims[k].assetID)
           /\ processedClaims[k].denom = DenomOf[processedClaims[k].assetID]
    /\ \A i \in DOMAIN withdrawals : Registered(withdrawals[i].assetID)

DenomsApart ==
    \A a, b \in AssetIDs :
        Registered(a) /\ Registered(b) /\ DenomOf[a] = DenomOf[b] => a = b

SupplyBalanced ==
    \A d \in Denoms :
        supply[d] + Burned(withdrawals, d) = Minted(processedClaims, d)

LedgerInv ==
    /\ TypeOK
    /\ IsFiniteSet(DOMAIN processedClaims)
    /\ RecordsOfRegistered
    /\ DenomsApart
    /\ SupplyBalanced
    /\ tripped = FALSE

(* A balanced ledger passes CheckAccountingInvariant. *)
LEMMA BalancedHolds ==
    ASSUME NEW claims, NEW sup, NEW records,
           \A i \in DOMAIN records : Registered(records[i].assetID),
           \A d \in Denoms : /\ sup[d] \in Nat
                             /\ Burned(records, d) \in Nat
                             /\ sup[d] + Burned(records, d) = Minted(claims, d)
    PROVE  AccountingHolds(claims, sup, records)
  BY DEF AccountingHolds, Registered

(* The totals of a well-typed ledger are natural numbers. *)
LEMMA TotalsTyped ==
    ASSUME TypeOK, IsFiniteSet(DOMAIN processedClaims), NEW d \in Denoms
    PROVE  Burned(withdrawals, d) \in Nat /\ Minted(processedClaims, d) \in Nat
<1> DEFINE S == {i \in DOMAIN withdrawals : DenomOf[withdrawals[i].assetID] = d}
           T == {k \in DOMAIN processedClaims : processedClaims[k].denom = d}
<1>1. IsFiniteSet(DOMAIN withdrawals)
  BY RecordsFinite
<1>2. IsFiniteSet(S) /\ IsFiniteSet(T)
  BY <1>1, FS_Subset
<1>3. /\ \A i \in S : Amounts(withdrawals)[i] \in Nat
      /\ \A k \in T : Amounts(processedClaims)[k] \in Nat
  BY RecordsFinite DEF Amounts
<1> QED
  BY <1>2, <1>3, TotalIsNat DEF Burned, Minted

(* Accepting a claim keeps the ledger balanced, so that the check that
   follows it passes. *)
LEMMA DepositKeepsLedger ==
    ASSUME LedgerInv, TypeOK', NEW claim \in Claims, NEW att \in Attestations,
           ExecuteDepositClaim(claim, att)
    PROVE  LedgerInv'
<1> USE DEF LedgerInv
<1>1. /\ claim.messageID \notin DOMAIN processedClaims
      /\ AcceptDepositClaim(claim)
      /\ FlowOpen(claim.assetID)
      /\ UNCHANGED assets
      /\ withdrawals' = withdrawals
  BY DEF ExecuteDepositClaim, CanExecuteDepositClaim, AcceptDepositClaim, policyVars
<1>2. /\ DOMAIN processedClaims' = DOMAIN processedClaims \cup {claim.messageID}
      /\ \A k \in DOMAIN processedClaims : processedClaims'[k] = processedClaims[k]
      /\ processedClaims'[claim.messageID].assetID = claim.assetID
      /\ processedClaims'[claim.messageID].denom = DenomOf[claim.assetID]
      /\ claim.amount \in Nat
      /\ claim.assetID \in AssetIDs
  BY <1>1, AcceptAddsRecord
<1>3. IsFiniteSet(DOMAIN processedClaims')
  BY <1>2, FS_AddElement
<1>4. RecordsOfRegistered'
  BY <1>1, <1>2 DEF RecordsOfRegistered, Registered, FlowOpen
<1>5. DenomsApart'
  BY <1>1 DEF DenomsApart, Registered
<1>6. ASSUME NEW d \in Denoms
      PROVE  /\ supply'[d] \in Nat
             /\ Burned(withdrawals, d) \in Nat
             /\ supply'[d] + Burned(withdrawals, d) = Minted(processedClaims', d)
  <2>1. /\ Minted(processedClaims, d) \in Nat
        /\ Minted(processedClaims', d) = Minted(processedClaims, d)
              + IF d = DenomOf[claim.assetID] THEN claim.amount ELSE 0
    BY <1>1, AcceptTotals
  <2>2. supply'[d] = supply[d] + IF d = DenomOf[claim.assetID] THEN claim.amount ELSE 0
    BY <1>1, <1>2 DEF AcceptDepositClaim, TypeOK
  <2>3. supply[d] \in Nat /\ supply[d] + Burned(withdrawals, d) = Minted(processedClaims, d)
    BY DEF TypeOK, SupplyBalanced
  <2>4. Burned(withdrawals, d) \in Nat
    BY TotalsTyped
  <2> QED
    BY <1>2, <2>1, <2>2, <2>3, <2>4
<1>7. SupplyBalanced'
  BY <1>1, <1>6 DEF SupplyBalanced
<1>8. AccountingHolds(processedClaims', supply', withdrawals)
  BY <1>6, BalancedHolds DEF RecordsOfRegistered
<1>9. tripped' = FALSE
  BY <1>8 DEF ExecuteDepositClaim
<1> QED
  BY <1>3, <1>4, <1>5, <1>7, <1>9

(* Recording a withdrawal burns what it records. *)
LEMMA WithdrawalKeepsLedger ==
    ASSUME LedgerInv, TypeOK', NEW a \in AssetIDs,
           NEW amount \in WithdrawalAmounts, NEW recipient \in EthAccounts,
           NEW deadline \in Deadlines,
           ExecuteWithdrawal(a, amount, recipient, deadline)
    PROVE  LedgerInv'
<1> USE DEF LedgerInv
<1>1. /\ RecordWithdrawal(a, amount, recipient, deadline)
      /\ FlowOpen(a)
      /\ supply[DenomOf[a]] >= amount
      /\ UNCHANGED assets
      /\ processedClaims' = processedClaims
  BY DEF ExecuteWithdrawal, CanExecuteWithdrawal, RecordWithdrawal, policyVars
<1> DEFINE k == Len(withdrawals) + 1
<1>2. /\ DOMAIN withdrawals' = DOMAIN withdrawals \cup {k}
      /\ \A i \in DOMAIN withdrawals : withdrawals'[i] = withdrawals[i]
      /\ withdrawals'[k].assetID = a
      /\ amount \in Nat
  BY <1>1, WithdrawalAddsRecord
<1> HIDE DEF k
<1>3. RecordsOfRegistered'
  BY <1>1, <1>2 DEF RecordsOfRegistered, Registered, FlowOpen
<1>4. DenomsApart'
  BY <1>1 DEF DenomsApart, Registered
<1>5. ASSUME NEW d \in Denoms
      PROVE  /\ supply'[d] \in Nat
             /\ Burned(withdrawals', d) \in Nat
             /\ supply'[d] + Burned(withdrawals', d) = Minted(processedClaims, d)
  <2>1. /\ Burned(withdrawals, d) \in Nat
        /\ Burned(withdrawals', d) = Burned(withdrawals, d)
              + IF d = DenomOf[a] THEN amount ELSE 0
    BY <1>1, WithdrawalTotals
  <2>2. supply'[d] = supply[d] - IF d = DenomOf[a] THEN amount ELSE 0
    BY <1>1, <1>2 DEF RecordWithdrawal, TypeOK
  <2>3. supply[d] \in Nat /\ supply[d] + Burned(withdrawals, d) = Minted(processedClaims, d)
    BY DEF TypeOK, SupplyBalanced
  <2>4. Minted(processedClaims, d) \in Nat
    BY TotalsTyped
  <2> QED
    BY <1>1, <1>2, <2>1, <2>2, <2>3, <2>4
<1>6. SupplyBalanced'
  BY <1>1, <1>5 DEF SupplyBalanced
<1>7. AccountingHolds(processedClaims, supply', withdrawals')
  <2>1. \A i \in DOMAIN withdrawals' : Registered(withdrawals'[i].assetID)
    BY <1>1, <1>3 DEF RecordsOfRegistered, Registered
  <2> QED
    BY <1>5, <2>1, BalancedHolds
<1>8. tripped' = FALSE
  BY <1>7 DEF ExecuteWithdrawal
<1> QED
  BY <1>1, <1>3, <1>4, <1>6, <1>8

(* A step that leaves the ledger alone and keeps every registered asset
   registered, and no two with one denomination, keeps the invariant. *)
LEMMA PolicyKeepsLedger ==
    ASSUME LedgerInv, TypeOK', UNCHANGED ledgerVars, DenomsApart',
           \A a \in AssetIDs : Registered(a) => Registered(a)'
    PROVE  LedgerInv'
<1>1. /\ processedClaims' = processedClaims /\ withdrawals' = withdrawals
      /\ supply' = supply /\ tripped' = tripped
  BY DEF ledgerVars
<1>2. \A k \in DOMAIN processedClaims : processedClaims[k].assetID \in AssetIDs
  BY DEF LedgerInv, TypeOK, ClaimRecord
<1>3. \A i \in DOMAIN withdrawals : withdrawals[i].assetID \in AssetIDs
  BY RecordsFinite DEF LedgerInv, WithdrawalRecord
<1>4. RecordsOfRegistered'
  BY <1>1, <1>2, <1>3 DEF LedgerInv, RecordsOfRegistered
<1>5. SupplyBalanced'
  BY <1>1 DEF LedgerInv, SupplyBalanced
<1> QED
  BY <1>1, <1>4, <1>5 DEF LedgerInv

(* The totals of a ledger without records. *)
LEMMA EmptyTotals ==
    ASSUME DOMAIN processedClaims = {}, DOMAIN withdrawals = {}, NEW d \in Denoms
    PROVE  Burned(withdrawals, d) = 0 /\ Minted(processedClaims, d) = 0
<1> DEFINE S == {i \in DOMAIN withdrawals : DenomOf[withdrawals[i].assetID] = d}
           T == {k \in DOMAIN processedClaims : processedClaims[k].denom = d}
<1>1. S = {} /\ T = {}
  OBVIOUS
<1> HIDE DEF S, T
<1>2. /\ Total(Amounts(withdrawals), S) = 0
      /\ Total(Amounts(processedClaims), T) = 0
  BY <1>1, TotalOfNone
<1> QED
  BY <1>2 DEF S, T, Burned, Minted

(* An empty ledger is balanced. *)
LEMMA EmptyLedger ==
    ASSUME Init, TypeOK
    PROVE  LedgerInv
<1>1. /\ DOMAIN processedClaims = {} /\ DOMAIN withdrawals = {}
      /\ supply = [d \in Denoms |-> 0]
      /\ \A a \in AssetIDs : ~Registered(a)
      /\ tripped = FALSE
  BY DEF Init, Registered
<1>2. \A d \in Denoms : Burned(withdrawals, d) = 0 /\ Minted(processedClaims, d) = 0
  BY <1>1, EmptyTotals
<1>3. SupplyBalanced
  BY <1>1, <1>2 DEF SupplyBalanced
<1>4. RecordsOfRegistered /\ DenomsApart
  BY <1>1 DEF RecordsOfRegistered, DenomsApart
<1>5. IsFiniteSet(DOMAIN processedClaims)
  BY <1>1, FS_EmptySet
<1> QED
  BY <1>1, <1>3, <1>4, <1>5 DEF LedgerInv

(* Every operation keeps the invariant. *)
LEMMA StepKeepsLedger ==
    ASSUME LedgerInv, TypeOK', [Next]_keeperVars
    PROVE  LedgerInv'
<1>1. ASSUME UNCHANGED ledgerVars, UNCHANGED assets
      PROVE  LedgerInv'
  <2>1. DenomsApart' /\ \A a \in AssetIDs : Registered(a) => Registered(a)'
    BY <1>1 DEF LedgerInv, DenomsApart, Registered
  <2> QED
    BY <1>1, <2>1, PolicyKeepsLedger
<1>2. ASSUME NEW claim \in Claims, NEW att \in Attestations,
             ExecuteDepositClaim(claim, att)
      PROVE  LedgerInv'
  BY <1>2, DepositKeepsLedger
<1>3. ASSUME NEW a \in AssetIDs, NEW amount \in WithdrawalAmounts,
             NEW recipient \in EthAccounts, NEW deadline \in Deadlines,
             ExecuteWithdrawal(a, amount, recipient, deadline)
      PROVE  LedgerInv'
  BY <1>3, WithdrawalKeepsLedger
<1>4. ASSUME NEW a \in AssetIDs, NEW amount \in WithdrawalAmounts,
             RejectWithdrawalForSupply(a, amount)
      PROVE  LedgerInv'
  BY <1>1, <1>4 DEF RejectWithdrawalForSupply, policyVars
<1>5. ASSUME NEW h \in 0 .. MaxHeight, SetCurrentHeight(h)
      PROVE  LedgerInv'
  BY <1>1, <1>5 DEF SetCurrentHeight
<1>6. ASSUME NEW set \in SignerSetChoices, UpsertSignerSet(set)
      PROVE  LedgerInv'
  BY <1>1, <1>6 DEF UpsertSignerSet
<1>7. ASSUME NEW a \in AssetIDs, NEW status \in {"enabled", "disabled"},
             RegisterAsset(a, status) \/ SetAssetEnabled(a, status)
      PROVE  LedgerInv'
  <2>1. UNCHANGED ledgerVars /\ assets' = [assets EXCEPT ![a] = status]
    BY <1>7 DEF RegisterAsset, SetAssetEnabled
  <2>2. assets \in [AssetIDs -> {"unregistered", "enabled", "disabled"}]
    BY DEF LedgerInv, TypeOK
  <2>3. \A b \in AssetIDs : Registered(b)' <=> (Registered(b) \/ b = a)
    BY <2>1, <2>2 DEF Registered
  <2>4. \A b \in AssetIDs : b # a /\ Registered(b) => DenomOf[b] # DenomOf[a]
    BY <1>7 DEF RegisterAsset, SetAssetEnabled, LedgerInv, DenomsApart, Registered
  <2>5. DenomsApart'
    BY <2>3, <2>4 DEF LedgerInv, DenomsApart
  <2> QED
    BY <2>1, <2>3, <2>5, PolicyKeepsLedger
<1>8. ASSUME NEW a \in AssetIDs, Pause(a) \/ Unpause(a)
      PROVE  LedgerInv'
  BY <1>1, <1>8 DEF Pause, Unpause
<1>9. ASSUME NEW a \in AssetIDs, NEW limit \in LimitChoices, UpdateLimit(a, limit)
      PROVE  LedgerInv'
  BY <1>1, <1>9 DEF UpdateLimit, policyVars
<1>10. CASE UNCHANGED keeperVars
  BY <1>1, <1>10 DEF keeperVars, ledgerVars
<1> QED
  BY <1>2, <1>3, <1>4, <1>5, <1>6, <1>7, <1>8, <1>9, <1>10 DEF Next, Policy

(* The invariant of the ledger holds in every state the keeper reaches. *)
LEMMA LedgerInvariant == Spec => []LedgerInv
<1>1. Init /\ TypeOK => LedgerInv
  BY EmptyLedger
<1>2. LedgerInv /\ TypeOK' /\ [Next]_keeperVars => LedgerInv'
  BY StepKeepsLedger
<1> QED
  BY <1>1, <1>2, TypeCorrect, PTL DEF Spec

(* The invariant passes CheckAccountingInvariant. *)
LEMMA LedgerIsAccounted ==
    ASSUME LedgerInv
    PROVE  CircuitStaysClosed
<1>1. \A d \in Denoms : /\ supply[d] \in Nat
                        /\ Burned(withdrawals, d) \in Nat
                        /\ supply[d] + Burned(withdrawals, d)
                              = Minted(processedClaims, d)
  BY TotalsTyped DEF LedgerInv, TypeOK, SupplyBalanced
<1>2. \A i \in DOMAIN withdrawals : Registered(withdrawals[i].assetID)
  BY DEF LedgerInv, RecordsOfRegistered
<1>3. AccountingHolds(processedClaims, supply, withdrawals)
  BY <1>1, <1>2, BalancedHolds
<1> QED
  BY <1>3 DEF LedgerInv, CircuitStaysClosed

(* No sequence of operations opens the circuit breaker. *)
THEOREM CircuitNeverTrips == Spec => []CircuitStaysClosed
<1>1. LedgerInv => CircuitStaysClosed
  BY LedgerIsAccounted
<1> QED
  BY <1>1, LedgerInvariant, PTL

(* Registered assets have denominations of their own, so the supply balances
   asset by asset. *)
LEMMA LedgerBacksAssets ==
    ASSUME LedgerInv
    PROVE  AssetBacking
<1> SUFFICES ASSUME NEW a \in AssetIDs, Registered(a)
             PROVE  supply[DenomOf[a]] + WithdrawnOf(withdrawals, a)
                       = ClaimedOf(processedClaims, a)
  BY DEF AssetBacking, Registered
<1>1. DenomOf[a] \in Denoms
  BY BridgeAssumption
<1>2. \A k \in DOMAIN processedClaims :
          processedClaims[k].denom = DenomOf[a] <=> processedClaims[k].assetID = a
  <2>1. \A k \in DOMAIN processedClaims : processedClaims[k].assetID \in AssetIDs
    BY DEF LedgerInv, TypeOK, ClaimRecord
  <2> QED
    BY <2>1 DEF LedgerInv, RecordsOfRegistered, DenomsApart
<1>3. \A i \in DOMAIN withdrawals :
          DenomOf[withdrawals[i].assetID] = DenomOf[a] <=> withdrawals[i].assetID = a
  <2>1. \A i \in DOMAIN withdrawals : withdrawals[i].assetID \in AssetIDs
    BY RecordsFinite DEF LedgerInv, WithdrawalRecord
  <2> QED
    BY <2>1 DEF LedgerInv, RecordsOfRegistered, DenomsApart
<1>4. /\ {k \in DOMAIN processedClaims : processedClaims[k].denom = DenomOf[a]}
            = {k \in DOMAIN processedClaims : processedClaims[k].assetID = a}
      /\ {i \in DOMAIN withdrawals : DenomOf[withdrawals[i].assetID] = DenomOf[a]}
            = {i \in DOMAIN withdrawals : withdrawals[i].assetID = a}
  BY <1>2, <1>3
<1>5. /\ Minted(processedClaims, DenomOf[a]) = ClaimedOf(processedClaims, a)
      /\ Burned(withdrawals, DenomOf[a]) = WithdrawnOf(withdrawals, a)
  BY <1>4 DEF Minted, ClaimedOf, Burned, WithdrawnOf
<1> QED
  BY <1>1, <1>5 DEF LedgerInv, SupplyBalanced

(* The supply of a denomination is backed by deposits of its own asset. *)
THEOREM SupplyBackedByAsset == Spec => []AssetBacking
<1>1. LedgerInv => AssetBacking
  BY LedgerBacksAssets
<1> QED
  BY <1>1, LedgerInvariant, PTL

-----------------------------------------------------------------------------
(* Attestations, nonces and the history of the ledger. *)

(* Every other step leaves the ledger alone. *)
LEMMA OtherStepsKeepLedger ==
    ASSUME [Next]_keeperVars
    PROVE  \/ \E claim \in Claims, att \in Attestations : ExecuteDepositClaim(claim, att)
           \/ \E a \in AssetIDs, amount \in WithdrawalAmounts,
                 recipient \in EthAccounts, deadline \in Deadlines :
                 ExecuteWithdrawal(a, amount, recipient, deadline)
           \/ UNCHANGED ledgerVars
<1>1. ASSUME NEW a \in AssetIDs, NEW amount \in WithdrawalAmounts,
             RejectWithdrawalForSupply(a, amount)
      PROVE  UNCHANGED ledgerVars
  BY <1>1 DEF RejectWithdrawalForSupply
<1>2. ASSUME Policy PROVE UNCHANGED ledgerVars
  BY <1>2 DEF Policy, SetCurrentHeight, UpsertSignerSet, RegisterAsset,
              SetAssetEnabled, Pause, Unpause, UpdateLimit
<1>3. CASE UNCHANGED keeperVars
  BY <1>3 DEF keeperVars, ledgerVars
<1> QED
  BY <1>1, <1>2, <1>3 DEF Next

(* An attested claim is a deposit, or the active signers that are faulty
   reach the threshold. *)
LEMMA AttestedIsGenuine ==
    ASSUME TypeOK, NEW claim \in Claims, NEW att \in Attestations,
           VerifyDepositClaim(claim, att), claim \notin Deposits
    PROVE  Cardinality(ActiveSignerSet.signers \cap Faulty)
              >= ActiveSignerSet.threshold
<1> DEFINE set == signerSets[att.version]
           A == VerifiedSigners(claim, att) \cap set.signers
           B == set.signers \cap Faulty
<1>1. ActiveSignerSet = set /\ set \in SignerSet
  BY ActiveIsNamed
<1>2. Cardinality(A) >= set.threshold
  BY DEF VerifyDepositClaim
<1>3. A \in SUBSET B
  BY DEF VerifiedSigners
<1>4. B \in SUBSET Signers /\ set.threshold \in Nat
  BY <1>1 DEF SignerSet
<1>5. IsFiniteSet(B)
  BY <1>4, BridgeAssumption, FS_Subset
<1> HIDE DEF A, B
<1>6. /\ Cardinality(A) <= Cardinality(B)
      /\ Cardinality(A) \in Nat /\ Cardinality(B) \in Nat
  BY <1>3, <1>5, FS_Subset, FS_CardinalityType
<1>7. Cardinality(B) >= set.threshold
  BY <1>2, <1>4, <1>6
<1> QED
  BY <1>1, <1>7 DEF B

(* Every operation accepts genuine claims only, up to faulty signers. *)
LEMMA StepKeepsGenuine ==
    ASSUME TypeOK, GenuineClaims, [Next]_keeperVars
    PROVE  GenuineClaims'
<1>1. ASSUME UNCHANGED <<processedClaims, acceptedUnder>>
      PROVE  GenuineClaims'
  BY <1>1 DEF GenuineClaims
<1>2. ASSUME NEW claim \in Claims, NEW att \in Attestations,
             ExecuteDepositClaim(claim, att)
      PROVE  GenuineClaims'
  <2>1. /\ VerifyDepositClaim(claim, att) /\ AcceptDepositClaim(claim)
        /\ claim.messageID \notin DOMAIN processedClaims
    BY <1>2 DEF ExecuteDepositClaim, CanExecuteDepositClaim
  <2>2. /\ DOMAIN processedClaims' = DOMAIN processedClaims \cup {claim.messageID}
        /\ \A k \in DOMAIN processedClaims : processedClaims'[k] = processedClaims[k]
        /\ processedClaims'[claim.messageID] = RecordOf(claim)
    BY <2>1, AcceptAddsRecord
  <2>3. /\ \A k \in DOMAIN processedClaims : acceptedUnder'[k] = acceptedUnder[k]
        /\ acceptedUnder'[claim.messageID] = ActiveSignerSet
    BY <2>1 DEF AcceptDepositClaim
  <2>4. \/ claim \in Deposits
        \/ Cardinality(ActiveSignerSet.signers \cap Faulty)
              >= ActiveSignerSet.threshold
    BY <2>1, AttestedIsGenuine
  <2>5. ASSUME NEW k \in DOMAIN processedClaims'
        PROVE  \/ \E c \in Deposits : /\ c.messageID = k
                                      /\ processedClaims'[k] = RecordOf(c)
               \/ Cardinality(acceptedUnder'[k].signers \cap Faulty)
                     >= acceptedUnder'[k].threshold
    <3>1. CASE k \in DOMAIN processedClaims
      BY <2>2, <2>3, <3>1 DEF GenuineClaims
    <3>2. CASE k = claim.messageID
      BY <2>2, <2>3, <2>4, <3>2
    <3> QED
      BY <2>2, <3>1, <3>2
  <2> QED
    BY <2>5 DEF GenuineClaims, RecordOf
<1>3. ASSUME NEW a \in AssetIDs, NEW amount \in WithdrawalAmounts,
             NEW recipient \in EthAccounts, NEW deadline \in Deadlines,
             ExecuteWithdrawal(a, amount, recipient, deadline)
      PROVE  GenuineClaims'
  BY <1>1, <1>3 DEF ExecuteWithdrawal, RecordWithdrawal
<1>4. CASE UNCHANGED ledgerVars
  BY <1>1, <1>4 DEF ledgerVars
<1> QED
  BY <1>2, <1>3, <1>4, OtherStepsKeepLedger

(* Every accepted claim is a deposit, unless the signer set it was accepted
   under had a threshold of faulty signers. *)
THEOREM ClaimsAreGenuine == Spec => []GenuineClaims
<1>1. Init => GenuineClaims
  BY DEF Init, GenuineClaims
<1>2. TypeOK /\ GenuineClaims /\ [Next]_keeperVars => GenuineClaims'
  BY StepKeepsGenuine
<1> QED
  BY <1>1, <1>2, TypeCorrect, PTL DEF Spec

(* Every operation keeps the nonces in order. *)
LEMMA StepKeepsNonces ==
    ASSUME TypeOK, NoncesInOrder, [Next]_keeperVars
    PROVE  NoncesInOrder'
<1>1. ASSUME UNCHANGED <<withdrawals, nextNonce>>
      PROVE  NoncesInOrder'
  BY <1>1 DEF NoncesInOrder
<1>2. ASSUME NEW claim \in Claims, NEW att \in Attestations,
             ExecuteDepositClaim(claim, att)
      PROVE  NoncesInOrder'
  BY <1>1, <1>2 DEF ExecuteDepositClaim, AcceptDepositClaim
<1>3. ASSUME NEW a \in AssetIDs, NEW amount \in WithdrawalAmounts,
             NEW recipient \in EthAccounts, NEW deadline \in Deadlines,
             ExecuteWithdrawal(a, amount, recipient, deadline)
      PROVE  NoncesInOrder'
  <2>1. RecordWithdrawal(a, amount, recipient, deadline)
    BY <1>3 DEF ExecuteWithdrawal
  <2>2. nextNonce' = nextNonce + 1
    BY <2>1 DEF RecordWithdrawal
  <2> QED
    BY <2>1, <2>2, WithdrawalAddsRecord DEF NoncesInOrder
<1>4. CASE UNCHANGED ledgerVars
  BY <1>1, <1>4 DEF ledgerVars
<1> QED
  BY <1>2, <1>3, <1>4, OtherStepsKeepLedger

(* Withdrawals are numbered 1, 2, 3, ... *)
THEOREM WithdrawalsNumbered == Spec => []NoncesInOrder
<1>1. Init => NoncesInOrder
  BY DEF Init, NoncesInOrder
<1>2. TypeOK /\ NoncesInOrder /\ [Next]_keeperVars => NoncesInOrder'
  BY StepKeepsNonces
<1> QED
  BY <1>1, <1>2, TypeCorrect, PTL DEF Spec

(* No step rewrites the ledger or moves the supply of a closed flow. *)
THEOREM LedgerGrows == Spec => LedgerOnlyGrows
<1>1. TypeOK /\ [Next]_keeperVars => [LedgerStep]_keeperVars
  <2> SUFFICES ASSUME TypeOK, [Next]_keeperVars
               PROVE  LedgerStep
    OBVIOUS
  <2>1. ASSUME NEW claim \in Claims, NEW att \in Attestations,
               ExecuteDepositClaim(claim, att)
        PROVE  LedgerStep
    <3>1. /\ AcceptDepositClaim(claim) /\ FlowOpen(claim.assetID)
          /\ claim.messageID \notin DOMAIN processedClaims
          /\ withdrawals' = withdrawals
      BY <2>1 DEF ExecuteDepositClaim, CanExecuteDepositClaim, AcceptDepositClaim
    <3>2. /\ \A k \in DOMAIN processedClaims :
                 /\ k \in DOMAIN processedClaims'
                 /\ processedClaims'[k] = processedClaims[k]
          /\ claim.assetID \in AssetIDs
      BY <3>1, AcceptAddsRecord
    <3>3. \A d \in Denoms : supply'[d] # supply[d] => d = DenomOf[claim.assetID]
      BY <3>1 DEF AcceptDepositClaim, TypeOK
    <3> QED
      BY <3>1, <3>2, <3>3 DEF LedgerStep
  <2>2. ASSUME NEW a \in AssetIDs, NEW amount \in WithdrawalAmounts,
               NEW recipient \in EthAccounts, NEW deadline \in Deadlines,
               ExecuteWithdrawal(a, amount, recipient, deadline)
        PROVE  LedgerStep
    <3>1. /\ RecordWithdrawal(a, amount, recipient, deadline) /\ FlowOpen(a)
          /\ processedClaims' = processedClaims
      BY <2>2 DEF ExecuteWithdrawal, CanExecuteWithdrawal, RecordWithdrawal
    <3>2. \A i \in DOMAIN withdrawals :
              i \in DOMAIN withdrawals' /\ withdrawals'[i] = withdrawals[i]
      BY <3>1, WithdrawalAddsRecord
    <3>3. \A d \in Denoms : supply'[d] # supply[d] => d = DenomOf[a]
      BY <3>1 DEF RecordWithdrawal, TypeOK
    <3> QED
      BY <3>1, <3>2, <3>3 DEF LedgerStep
  <2>3. CASE UNCHANGED ledgerVars
    BY <2>3 DEF ledgerVars, LedgerStep
  <2> QED
    BY <2>1, <2>2, <2>3, OtherStepsKeepLedger
<1> QED
  BY <1>1, TypeCorrect, PTL DEF Spec, LedgerOnlyGrows

-----------------------------------------------------------------------------
(* A supply that no record explains. *)

(* Until an operation goes through the ledger is empty and its supply is not
   zero; the first operation that goes through opens the breaker. *)
DriftInv ==
    /\ TypeOK
    /\ IF tripped
       THEN /\ IsFiniteSet(DOMAIN processedClaims)
            /\ Cardinality(DOMAIN processedClaims) + Len(withdrawals) <= 1
       ELSE /\ DOMAIN processedClaims = {} /\ withdrawals = <<>>
            /\ \E d \in Denoms : supply[d] > 0

(* A deposit on a drifted ledger is counted, and the drift stays. *)
LEMMA DriftedDeposit ==
    ASSUME DriftInv, ~tripped, TypeOK', NEW claim \in Claims, NEW att \in Attestations,
           ExecuteDepositClaim(claim, att)
    PROVE  DriftInv'
<1>1. /\ DOMAIN processedClaims = {} /\ withdrawals = <<>> /\ DOMAIN withdrawals = {}
      /\ TypeOK
  BY DEF DriftInv
<1>2. /\ claim.messageID \notin DOMAIN processedClaims /\ AcceptDepositClaim(claim)
      /\ withdrawals' = withdrawals
      /\ tripped' = ~AccountingHolds(processedClaims', supply', withdrawals)
  BY DEF ExecuteDepositClaim, CanExecuteDepositClaim, AcceptDepositClaim
<1>3. PICK d \in Denoms : supply[d] > 0
  BY DEF DriftInv
<1>4. Burned(withdrawals, d) = 0 /\ Minted(processedClaims, d) = 0
  BY <1>1, EmptyTotals
<1>5. IsFiniteSet(DOMAIN processedClaims)
  BY <1>1, FS_EmptySet
<1>6. Minted(processedClaims', d) = IF d = DenomOf[claim.assetID] THEN claim.amount ELSE 0
  <2>1. Minted(processedClaims', d) = Minted(processedClaims, d)
            + IF d = DenomOf[claim.assetID] THEN claim.amount ELSE 0
    BY <1>1, <1>2, <1>5, AcceptTotals
  <2>2. claim.amount \in Nat
    BY BridgeAssumption DEF DepositClaim
  <2> QED
    BY <1>4, <2>1, <2>2
<1>7. supply'[d] = supply[d] + IF d = DenomOf[claim.assetID] THEN claim.amount ELSE 0
  <2>1. /\ supply \in [Denoms -> Nat] /\ claim.amount \in Nat
        /\ supply' = [supply EXCEPT ![DenomOf[claim.assetID]] = @ + claim.amount]
    BY <1>1, <1>2, BridgeAssumption DEF TypeOK, AcceptDepositClaim, DepositClaim
  <2> QED
    BY <2>1
<1>8. supply'[d] # Minted(processedClaims', d) - Burned(withdrawals, d)
  <2>1. supply[d] \in Nat /\ claim.amount \in Nat
    BY <1>1, BridgeAssumption DEF TypeOK, DepositClaim
  <2> QED
    BY <1>3, <1>4, <1>6, <1>7, <2>1
<1>9. tripped' = TRUE
  BY <1>2, <1>8 DEF AccountingHolds
<1>10. DOMAIN processedClaims' = {claim.messageID}
  BY <1>1, <1>2, AcceptAddsRecord
<1>11. IsFiniteSet(DOMAIN processedClaims') /\ Cardinality(DOMAIN processedClaims') = 1
  BY <1>10, FS_Singleton
<1>12. Len(withdrawals') = 0
  BY <1>1, <1>2
<1> QED
  BY <1>9, <1>11, <1>12 DEF DriftInv

(* A withdrawal burns what no claim has minted. *)
LEMMA DriftedWithdrawal ==
    ASSUME DriftInv, ~tripped, TypeOK', NEW a \in AssetIDs, NEW amount \in WithdrawalAmounts,
           NEW recipient \in EthAccounts, NEW deadline \in Deadlines,
           ExecuteWithdrawal(a, amount, recipient, deadline)
    PROVE  DriftInv'
<1>1. /\ DOMAIN processedClaims = {} /\ withdrawals = <<>> /\ DOMAIN withdrawals = {}
      /\ TypeOK
  BY DEF DriftInv
<1>2. /\ RecordWithdrawal(a, amount, recipient, deadline) /\ processedClaims' = processedClaims
      /\ tripped' = ~AccountingHolds(processedClaims, supply', withdrawals')
  BY DEF ExecuteWithdrawal, RecordWithdrawal
<1>3. PICK d \in Denoms : d = DenomOf[a]
  BY BridgeAssumption
<1>4. Burned(withdrawals, d) = 0 /\ Minted(processedClaims, d) = 0
  BY <1>1, EmptyTotals
<1>5. amount \in Nat \ {0}
  BY BridgeAssumption
<1>6. Burned(withdrawals', d) = amount
  <2>1. Burned(withdrawals', d) = Burned(withdrawals, d) + amount
    BY <1>1, <1>2, <1>3, WithdrawalTotals
  <2> QED
    BY <1>4, <1>5, <2>1
<1>7. tripped' = TRUE
  <2>1. ~(Burned(withdrawals', d) <= Minted(processedClaims, d))
    BY <1>4, <1>5, <1>6
  <2>2. ~AccountingHolds(processedClaims, supply', withdrawals')
    BY <2>1 DEF AccountingHolds
  <2> QED
    BY <1>2, <2>2
<1>8. Len(withdrawals') = 1
  BY <1>1, <1>2, WithdrawalAddsRecord
<1>9. IsFiniteSet(DOMAIN processedClaims') /\ Cardinality(DOMAIN processedClaims') = 0
  BY <1>1, <1>2, FS_EmptySet
<1> QED
  BY <1>7, <1>8, <1>9 DEF DriftInv

(* However the supply was damaged, of whatever denominations, at most one
   operation goes through before the breaker opens, and none after it. *)
THEOREM DriftStaysContained == DriftSpec => []DriftIsContained
<1>1. DriftInit => DriftInv
  <2> SUFFICES ASSUME DriftInit PROVE DriftInv
    OBVIOUS
  <2>1. Fresh /\ supply \in [Denoms -> Nat]
    BY DriftAssumption DEF DriftInit, Fresh
  <2>2. TypeOK
    BY <2>1, FreshTyped
  <2>3. \E d \in Denoms : supply[d] > 0
    <3>1. supply # [d \in Denoms |-> 0]
      BY DEF DriftInit
    <3>2. \E d \in Denoms : supply[d] # 0
      BY <2>1, <3>1
    <3> QED
      BY <2>1, <3>2
  <2> QED
    BY <2>1, <2>2, <2>3 DEF DriftInv, Fresh
<1>2. DriftInv /\ [Next]_keeperVars => DriftInv'
  <2> SUFFICES ASSUME DriftInv, [Next]_keeperVars PROVE DriftInv'
    OBVIOUS
  <2>1. TypeOK'
    BY StepTyped DEF DriftInv
  <2>2. ASSUME NEW claim \in Claims, NEW att \in Attestations,
               ExecuteDepositClaim(claim, att)
        PROVE  DriftInv'
    BY <2>1, <2>2, DriftedDeposit DEF ExecuteDepositClaim, CanExecuteDepositClaim
  <2>3. ASSUME NEW a \in AssetIDs, NEW amount \in WithdrawalAmounts,
               NEW recipient \in EthAccounts, NEW deadline \in Deadlines,
               ExecuteWithdrawal(a, amount, recipient, deadline)
        PROVE  DriftInv'
    BY <2>1, <2>3, DriftedWithdrawal DEF ExecuteWithdrawal, CanExecuteWithdrawal
  <2>4. CASE UNCHANGED ledgerVars
    BY <2>1, <2>4 DEF DriftInv, ledgerVars
  <2> QED
    BY <2>2, <2>3, <2>4, OtherStepsKeepLedger
<1>3. DriftInv => DriftIsContained
  <2> SUFFICES ASSUME DriftInv PROVE DriftIsContained
    OBVIOUS
  <2>1. CASE tripped
    BY <2>1 DEF DriftInv, DriftIsContained
  <2>2. CASE ~tripped
    <3>1. /\ DOMAIN processedClaims = {} /\ withdrawals = <<>>
          /\ processedClaims \in [DOMAIN processedClaims -> ClaimRecord]
      BY <2>2 DEF DriftInv, TypeOK
    <3>2. processedClaims = [k \in {} |-> 0]
      BY <3>1
    <3>3. Cardinality(DOMAIN processedClaims) = 0 /\ Len(withdrawals) = 0
      BY <3>1, FS_EmptySet
    <3> QED
      BY <3>1, <3>2, <3>3 DEF DriftIsContained
  <2> QED
    BY <2>1, <2>2
<1> QED
  BY <1>1, <1>2, <1>3, PTL DEF DriftSpec

-----------------------------------------------------------------------------
(* Attestations. *)

(* Max and Min are what their names say. *)
LEMMA LongestVote ==
    ASSUME NEW S \in SUBSET Nat, S # {}, IsFiniteSet(S)
    PROVE  Max(S) \in S /\ \A y \in S : Max(S) >= y
BY GreatestNatural DEF Max

LEMMA ShortestVote ==
    ASSUME NEW S \in SUBSET Nat, S # {}
    PROVE  Min(S) \in S /\ \A y \in S : Min(S) <= y
BY LeastNatural DEF Min

(* A voter is ranked by a vote of its own, the one that lasts longest. *)
LEMMA VotersKeepAVote ==
    ASSUME NEW votes, IsFiniteSet(votes), \A v \in votes : v.expiry \in Nat,
           NEW s \in DOMAIN Unique(votes)
    PROVE  /\ Unique(votes)[s] \in Nat
           /\ \E v \in votes : v.signer = s /\ v.expiry = Unique(votes)[s]
<1> DEFINE mine == {w \in votes : w.signer = s}
           E == {v.expiry : v \in mine}
           f == [v \in mine |-> v.expiry]
<1>1. s \in {v.signer : v \in votes} /\ Unique(votes)[s] = Max(E)
  BY DEF Unique
<1>2. E # {} /\ E \in SUBSET Nat
  BY <1>1
<1>3. IsFiniteSet(E)
  <2>1. IsFiniteSet(mine)
    BY FS_Subset
  <2>2. f \in Surjection(mine, E)
    BY DEF Surjection
  <2> HIDE DEF mine, E, f
  <2> QED
    BY <2>1, <2>2, FS_Surjection
<1>4. Max(E) \in E
  <2> HIDE DEF E
  <2> QED
    BY <1>2, <1>3, LongestVote
<1> QED
  BY <1>1, <1>2, <1>4

(* What a collector comes up with: a threshold of different signers whose keys
   it holds, and an expiry that no vote of theirs it went by comes before. *)
TakenByRank(att, votes, keys, threshold, version) ==
    /\ att.version = version /\ att.threshold = threshold
    /\ att.proofs \subseteq keys
    /\ IsFiniteSet(att.proofs) /\ Cardinality(att.proofs) = threshold
    /\ att.expiry \in Nat
    /\ \A s \in att.proofs :
           votes # {} => \E v \in votes : v.signer = s /\ v.expiry >= att.expiry

DatedVotes(votes) == IsFiniteSet(votes) /\ \A v \in votes : v.expiry \in Nat

LEMMA CollectedByRank ==
    ASSUME NEW votes, DatedVotes(votes),
           NEW keys \in SUBSET Signers, NEW threshold \in Nat, NEW version,
           NEW att \in Collect(votes, keys, threshold, version, MaxUint64)
    PROVE  TakenByRank(att, votes, keys, threshold, version)
<1> DEFINE expiryOf == IF votes = {} THEN [s \in keys |-> MaxUint64] ELSE Unique(votes)
           E(chosen) == {expiryOf[s] : s \in chosen}
<1>1. threshold # 0
  BY DEF Collect
<1>2. PICK chosen \in SUBSET DOMAIN expiryOf :
           /\ Cardinality(chosen) = threshold /\ chosen \subseteq keys
           /\ att = [version |-> version, threshold |-> threshold,
                     expiry |-> Min(E(chosen)), proofs |-> chosen]
  BY DEF Collect, Ranked
<1>3. IsFiniteSet(chosen)
  BY <1>2, BridgeAssumption, FS_Subset
<1>4. chosen # {}
  BY <1>1, <1>2, FS_EmptySet
<1>5. ASSUME NEW s \in chosen
      PROVE  /\ expiryOf[s] \in Nat
             /\ votes # {} => \E v \in votes : v.signer = s /\ v.expiry = expiryOf[s]
  <2>1. CASE votes = {}
    BY <1>2, <2>1, MaxUint64Assumption
  <2>2. CASE votes # {}
    <3>1. s \in DOMAIN Unique(votes) /\ expiryOf[s] = Unique(votes)[s]
      BY <1>2, <2>2
    <3> QED
      BY <3>1, VotersKeepAVote DEF DatedVotes
  <2> QED
    BY <2>1, <2>2
<1> HIDE DEF expiryOf
<1>6. E(chosen) \in SUBSET Nat /\ E(chosen) # {}
  BY <1>4, <1>5
<1>7. Min(E(chosen)) \in E(chosen) /\ \A y \in E(chosen) : Min(E(chosen)) <= y
  <2> HIDE DEF E
  <2> QED
    BY <1>6, ShortestVote
<1>8. \A s \in chosen : Min(E(chosen)) \in Nat /\ expiryOf[s] >= Min(E(chosen))
  BY <1>5, <1>6, <1>7
<1>9. att.expiry = Min(E(chosen)) /\ att.proofs = chosen
  BY <1>2
<1> HIDE DEF E
<1>10. \A s \in chosen :
           votes # {} => \E v \in votes : v.signer = s /\ v.expiry >= Min(E(chosen))
  BY <1>5, <1>8
<1> QED
  BY <1>2, <1>3, <1>4, <1>8, <1>9, <1>10 DEF TakenByRank

(* CollectedAreAccepted for every reachable state, whatever votes lie in the
   file and whichever keys the collector holds: what Collect signs passes
   verifyDepositClaim of the keeper. *)
THEOREM CollectorsServeTheKeeper == Spec => []CollectedAreAccepted
<1>1. TypeOK => CollectedAreAccepted
  <2> SUFFICES ASSUME TypeOK, NEW c \in Collected
               PROVE  LET att == c.attestation
                      IN  /\ \A s \in att.proofs :
                                \/ c.votes = {}
                                \/ \E v \in c.votes : v.signer = s /\ v.expiry >= att.expiry
                          /\ (/\ IsActiveVersion(att.version)
                              /\ c.keys \subseteq signerSets[att.version].signers
                              /\ att.threshold >= signerSets[att.version].threshold
                              /\ height <= att.expiry)
                                 => \A claim \in Deposits :
                                        height <= claim.deadline => VerifyDepositClaim(claim, att)
    BY Zenon DEF CollectedAreAccepted
  <2> DEFINE by(entries, keys, n, v) ==
                 {[keys |-> keys, votes |-> Votes(entries, 0), attestation |-> att] :
                     att \in Collect(Votes(entries, 0), keys, n, v, MaxUint64)}
  <2>1. PICK entries \in VoteFiles, keys \in KeySets, n \in Thresholds, v \in Versions :
             c \in by(entries, keys, n, v)
    BY SMT DEF Collected
  <2> DEFINE votes == Votes(entries, 0)
  <2>2. PICK att \in Collect(votes, keys, n, v, MaxUint64) :
             c = [keys |-> keys, votes |-> votes, attestation |-> att]
    BY <2>1
  <2>3. DatedVotes(votes) /\ keys \in SUBSET Signers /\ n \in Nat
    BY CollectorAssumption, FS_Subset DEF Votes, DatedVotes
  <2> HIDE DEF votes
  <2>4. /\ att.version = v /\ att.threshold = n /\ att.proofs \subseteq keys
        /\ IsFiniteSet(att.proofs) /\ Cardinality(att.proofs) = n
        /\ att.expiry \in Nat
        /\ \A s \in att.proofs :
               votes # {} => \E w \in votes : w.signer = s /\ w.expiry >= att.expiry
    <3>1. TakenByRank(att, votes, keys, n, v)
      BY <2>2, <2>3, CollectedByRank
    <3> QED
      BY <3>1 DEF TakenByRank
  <2>5. c.keys = keys /\ c.votes = votes /\ c.attestation = att
    BY <2>2
  <2>6. ASSUME IsActiveVersion(att.version),
               keys \subseteq signerSets[att.version].signers,
               att.threshold >= signerSets[att.version].threshold,
               height <= att.expiry,
               NEW claim \in Deposits, height <= claim.deadline
        PROVE  VerifyDepositClaim(claim, att)
    <3>1. VerifiedSigners(claim, att) \cap signerSets[att.version].signers = att.proofs
      BY <2>4, <2>6 DEF VerifiedSigners
    <3>2. att.threshold <= Cardinality(att.proofs)
      BY <2>3, <2>4
    <3>3. Cardinality(VerifiedSigners(claim, att) \cap signerSets[att.version].signers)
              >= signerSets[att.version].threshold
      BY <2>3, <2>4, <2>6, <3>1
    <3> QED
      BY <2>6, <3>2, <3>3 DEF VerifyDepositClaim
  <2> QED
    BY <2>4, <2>5, <2>6
<1> QED
  BY <1>1, TypeCorrect, PTL

-----------------------------------------------------------------------------
(* The application.  Its invariant: *)

(* A snapshot that a withdrawal may be rolled back to is a ledger that the
   keeper could be in. *)
SnapshotBalanced(before) ==
    /\ \A d \in Denoms :
           before.supply[d] + Burned(before.withdrawals, d) = Minted(processedClaims, d)
    /\ \A i \in DOMAIN before.withdrawals :
           /\ Registered(before.withdrawals[i].assetID)
           /\ before.withdrawals[i].nonce = i
    /\ before.nextNonce = Len(before.withdrawals) + 1

(* While a withdrawal waits for its debit or its rollback, what it burned is
   what the snapshot has more of. *)
RollbackPart ==
    op.step \in {"debit", "restore"} =>
        /\ SnapshotBalanced(op.before)
        /\ \A d \in Denoms : op.before.supply[d] =
               supply[d] + IF d = op.denom THEN op.amount ELSE 0

Holds(queue, q) == \E i \in DOMAIN queue : queue[i] = q

(* SavedClaimsSurvive is not inductive: a crash replaces the queue in memory by
   the one on disk and a save does the reverse, so a claim that is not submitted
   must be in both; while node.json is being written, memory alone has it. *)
QueuePart ==
    /\ nodeFile = "truncated" => draining = <<>>
    /\ \A q \in acknowledged :
           \/ q \in handled
           \/ nodeFile = "unreadable"
           \/ /\ nodeFile = "whole" => Holds(saved, q)
              /\ Holds(pending, q) \/ Holds(draining, q)

KeeperPart == LedgerInv /\ NoncesInOrder /\ GenuineClaims

AppInv ==
    /\ AppTypeOK
    /\ KeeperPart
    /\ RollbackPart
    /\ WalletsMatchSupply
    /\ QueuePart

-----------------------------------------------------------------------------
(* The keeper inside the application. *)

(* An operation of the keeper. *)
LEMMA KeeperMoves ==
    ASSUME KeeperPart, [Next]_keeperVars
    PROVE  KeeperPart'
<1>1. TypeOK /\ LedgerInv /\ NoncesInOrder /\ GenuineClaims
  BY DEF KeeperPart, LedgerInv
<1>2. TypeOK'
  BY <1>1, StepTyped
<1>3. LedgerInv'
  BY <1>1, <1>2, StepKeepsLedger
<1>4. NoncesInOrder' /\ GenuineClaims'
  BY <1>1, StepKeepsNonces, StepKeepsGenuine
<1> QED
  BY <1>3, <1>4 DEF KeeperPart

(* Only the usage of the limits changes: it is recorded, or restored. *)
LEMMA UsageMoves ==
    ASSUME KeeperPart, LimitsTypeOK', UNCHANGED policyVars, UNCHANGED ledgerVars
    PROVE  KeeperPart'
<1>1. TypeOK'
  BY DEF KeeperPart, LedgerInv, TypeOK, policyVars, ledgerVars
<1>2. DenomsApart' /\ \A a \in AssetIDs : Registered(a) => Registered(a)'
  BY DEF KeeperPart, LedgerInv, DenomsApart, Registered, policyVars
<1>3. LedgerInv'
  BY <1>1, <1>2, PolicyKeepsLedger DEF KeeperPart
<1>4. NoncesInOrder' /\ GenuineClaims'
  BY DEF KeeperPart, NoncesInOrder, GenuineClaims, ledgerVars
<1> QED
  BY <1>3, <1>4 DEF KeeperPart

(* The ledger goes back to a snapshot that balances. *)
LEMMA LedgerRestored ==
    ASSUME KeeperPart, NEW before \in Snapshot, SnapshotBalanced(before),
           supply' = before.supply, withdrawals' = before.withdrawals,
           nextNonce' = before.nextNonce,
           UNCHANGED <<processedClaims, acceptedUnder, tripped>>,
           UNCHANGED limitsVars, UNCHANGED policyVars
    PROVE  KeeperPart'
<1>1. /\ before.supply \in [Denoms -> Nat] /\ before.withdrawals \in Seq(WithdrawalRecord)
      /\ before.nextNonce \in Nat \ {0}
  BY DEF Snapshot
<1>2. TypeOK'
  BY <1>1 DEF KeeperPart, LedgerInv, TypeOK, LimitsTypeOK, policyVars, limitsVars
<1>3. assets' = assets
  BY DEF policyVars
<1>4. RecordsOfRegistered'
  BY <1>3 DEF KeeperPart, LedgerInv, RecordsOfRegistered, SnapshotBalanced, Registered
<1>5. DenomsApart'
  BY <1>3 DEF KeeperPart, LedgerInv, DenomsApart, Registered
<1>6. SupplyBalanced'
  BY DEF SupplyBalanced, SnapshotBalanced
<1>7. LedgerInv'
  BY <1>2, <1>4, <1>5, <1>6 DEF KeeperPart, LedgerInv
<1>8. NoncesInOrder'
  BY DEF NoncesInOrder, SnapshotBalanced
<1>9. GenuineClaims'
  BY DEF KeeperPart, GenuineClaims
<1> QED
  BY <1>7, <1>8, <1>9 DEF KeeperPart

-----------------------------------------------------------------------------
(* The wallets. *)

Wallets == [Accounts \X Denoms -> Nat]

LEMMA WalletTotalIsNat ==
    ASSUME NEW b \in Wallets, NEW d \in Denoms
    PROVE  /\ IsFiniteSet(Accounts \X {d})
           /\ \A x \in Accounts \X {d} : b[x] \in Nat
           /\ Total(b, Accounts \X {d}) \in Nat
<1>1. IsFiniteSet(Accounts) /\ IsFiniteSet({d})
  BY AppAssumption, FS_Singleton
<1>2. IsFiniteSet(Accounts \X {d})
  BY <1>1, FS_Product
<1>3. \A x \in Accounts \X {d} : b[x] \in Nat
  BY DEF Wallets
<1> QED
  BY <1>2, <1>3, TotalIsNat

(* One wallet is given another balance. *)
LEMMA WalletChange ==
    ASSUME NEW b \in Wallets, NEW c \in Wallets, NEW who \in Accounts, NEW e \in Denoms,
           \A x \in Accounts \X Denoms : x # <<who, e>> => c[x] = b[x],
           NEW d \in Denoms
    PROVE  /\ Total(b, Accounts \X {d}) \in Nat /\ Total(c, Accounts \X {d}) \in Nat
           /\ d # e => Total(c, Accounts \X {d}) = Total(b, Accounts \X {d})
           /\ d = e => Total(c, Accounts \X {d}) + b[<<who, e>>]
                           = Total(b, Accounts \X {d}) + c[<<who, e>>]
<1> DEFINE S == Accounts \X {d}
           w == <<who, e>>
<1>1. /\ IsFiniteSet(S) /\ \A x \in S : b[x] \in Nat /\ c[x] \in Nat
      /\ Total(b, S) \in Nat /\ Total(c, S) \in Nat
  BY WalletTotalIsNat
<1>2. CASE d # e
  <2>1. \A x \in S : c[x] = b[x]
    <3> SUFFICES ASSUME NEW x \in S PROVE c[x] = b[x]
      OBVIOUS
    <3>1. x \in Accounts \X Denoms /\ x[2] = d
      OBVIOUS
    <3>2. x # w
      BY <1>2, <3>1
    <3> QED
      BY <3>1, <3>2
  <2> HIDE DEF S
  <2>2. Total(c, S) = Total(b, S)
    BY <2>1, TotalSame
  <2> QED
    BY <1>1, <1>2, <2>2 DEF S
<1>3. CASE d = e
  <2>1. w \in S /\ \A x \in S \ {w} : b[x] = c[x]
    BY <1>3
  <2> HIDE DEF S, w
  <2>2. Total(c, S) + b[w] = Total(b, S) + c[w]
    BY <1>1, <2>1, TotalReplace
  <2> QED
    BY <1>1, <1>3, <2>2 DEF S, w
<1> QED
  BY <1>2, <1>3

-----------------------------------------------------------------------------
(* The operations. *)

WalletTypes ==
    /\ balances \in Wallets
    /\ op \in Transfer \cup {Idle}
    /\ crashes \in 0 .. MaxCrashes
    /\ uncredited \in [Denoms -> Nat] /\ undebited \in [Denoms -> Nat]

QueueTypes ==
    /\ pending \in Seq(QueuedDepositClaim)
    /\ draining \in Seq(QueuedDepositClaim)
    /\ saved \in Seq(QueuedDepositClaim)
    /\ nodeFile \in {"whole", "truncated", "unreadable"}
    /\ acknowledged \subseteq QueuedDepositClaim
    /\ handled \subseteq QueuedDepositClaim

(* The two halves of the invariant: the queue, and all the rest. *)
WalletInv == WalletTypes /\ KeeperPart /\ RollbackPart /\ WalletsMatchSupply

QueueInv == QueueTypes /\ QueuePart

LEMMA Halves == AppInv <=> WalletInv /\ QueueInv
BY DEF AppInv, AppTypeOK, WalletInv, QueueInv, WalletTypes, QueueTypes, KeeperPart,
       LedgerInv, Wallets

(* A claim is accepted and waits for its credit. *)
LEMMA AcceptStep ==
    ASSUME WalletInv, op = Idle, NEW claim \in Claims, NEW att \in Attestations,
           AcceptThenCredit(claim, att), balances' = balances, UNCHANGED crashVars
    PROVE  WalletInv'
<1>1. ExecuteDepositClaim(claim, att)
  BY DEF AcceptThenCredit
<1>2. KeeperPart'
  <2>1. [Next]_keeperVars
    BY <1>1 DEF Next
  <2> QED
    BY <2>1, KeeperMoves DEF WalletInv
<1>3. tripped' = FALSE
  BY <1>2 DEF KeeperPart, LedgerInv
<1>4. PICK d \in Denoms, n \in Nat \ {0}, who \in Accounts :
          d = DenomOf[claim.assetID] /\ n = claim.amount /\ who = claim.recipient
  BY BridgeAssumption DEF DepositClaim
<1>5. op' = [step |-> "credit", account |-> who, denom |-> d, amount |-> n]
  BY <1>3, <1>4 DEF AcceptThenCredit
<1>6. op' \in Transfer /\ op'.step = "credit" /\ op'.denom = d /\ op'.amount = n
  BY <1>5 DEF Transfer
<1>7. supply \in [Denoms -> Nat] /\ supply' = [supply EXCEPT ![d] = @ + n]
  BY <1>1, <1>4 DEF ExecuteDepositClaim, AcceptDepositClaim, WalletInv, KeeperPart,
                    LedgerInv, TypeOK
<1>8. WalletTypes'
  BY <1>6 DEF WalletInv, WalletTypes, crashVars
<1>9. WalletsMatchSupply'
  <2> SUFFICES ASSUME NEW e \in Denoms
               PROVE  (WalletTotal(e) + uncredited[e] + InFlight({"credit"}, e)
                        = supply[e] + undebited[e] + InFlight({"debit", "restore"}, e))'
    BY DEF WalletsMatchSupply
  <2>1. WalletTotal(e) + uncredited[e] = supply[e] + undebited[e]
    <3>1. InFlight({"credit"}, e) = 0 /\ InFlight({"debit", "restore"}, e) = 0
      BY DEF InFlight, Idle
    <3>2. WalletTotal(e) \in Nat
      BY WalletTotalIsNat DEF WalletInv, WalletTypes, WalletTotal
    <3>3. /\ uncredited[e] \in Nat /\ undebited[e] \in Nat /\ supply[e] \in Nat
          /\ WalletTotal(e) + uncredited[e] + InFlight({"credit"}, e)
                = supply[e] + undebited[e] + InFlight({"debit", "restore"}, e)
      BY <1>7 DEF WalletInv, WalletTypes, WalletsMatchSupply
    <3> QED
      BY <3>1, <3>2, <3>3
  <2>2. WalletTotal(e)' = WalletTotal(e) /\ uncredited' = uncredited /\ undebited' = undebited
    BY DEF WalletTotal, crashVars
  <2>3. /\ InFlight({"credit"}, e)' = IF e = d THEN n ELSE 0
        /\ InFlight({"debit", "restore"}, e)' = 0
    BY <1>6 DEF InFlight
  <2>4. supply'[e] = supply[e] + IF e = d THEN n ELSE 0
    BY <1>7
  <2>5. /\ uncredited[e] \in Nat /\ undebited[e] \in Nat /\ supply[e] \in Nat
        /\ WalletTotal(e) \in Nat
    BY <1>7, WalletTotalIsNat DEF WalletInv, WalletTypes, WalletTotal
  <2> QED
    BY <2>1, <2>2, <2>3, <2>4, <2>5
<1>10. RollbackPart'
  BY <1>6 DEF RollbackPart
<1> QED
  BY <1>2, <1>8, <1>9, <1>10 DEF WalletInv

(* The wallet of an accepted claim is credited. *)
LEMMA CreditStep ==
    ASSUME WalletInv, Credit
    PROVE  WalletInv'
<1>1. /\ op.step = "credit" /\ op' = Idle /\ UNCHANGED keeperVars /\ UNCHANGED crashVars
      /\ balances' = [balances EXCEPT ![<<op.account, op.denom>>] = @ + op.amount]
  BY DEF Credit
<1>2. PICK d \in Denoms, n \in Nat \ {0}, who \in Accounts :
          d = op.denom /\ n = op.amount /\ who = op.account
  BY <1>1 DEF WalletInv, WalletTypes, Transfer, Idle
<1>3. balances \in Wallets
  BY DEF WalletInv, WalletTypes
<1>4. /\ balances' \in Wallets /\ balances'[<<who, d>>] = balances[<<who, d>>] + n
      /\ balances[<<who, d>>] \in Nat
      /\ \A x \in Accounts \X Denoms : x # <<who, d>> => balances'[x] = balances[x]
  BY <1>1, <1>2, <1>3 DEF Wallets
<1>5. KeeperPart' /\ supply' = supply
  <2>1. [Next]_keeperVars
    BY <1>1
  <2> QED
    BY <1>1, <2>1, KeeperMoves DEF WalletInv, keeperVars
<1>6. WalletTypes'
  BY <1>1, <1>4 DEF WalletInv, WalletTypes, crashVars
<1>7. WalletsMatchSupply'
  <2> SUFFICES ASSUME NEW e \in Denoms
               PROVE  (WalletTotal(e) + uncredited[e] + InFlight({"credit"}, e)
                        = supply[e] + undebited[e] + InFlight({"debit", "restore"}, e))'
    BY DEF WalletsMatchSupply
  <2>1. /\ WalletTotal(e) \in Nat /\ WalletTotal(e)' \in Nat
        /\ WalletTotal(e)' = WalletTotal(e) + IF e = d THEN n ELSE 0
    <3>1. PICK b, c : b = balances /\ c = balances'
      OBVIOUS
    <3>2. /\ Total(b, Accounts \X {e}) \in Nat /\ Total(c, Accounts \X {e}) \in Nat
          /\ e # d => Total(c, Accounts \X {e}) = Total(b, Accounts \X {e})
          /\ e = d => Total(c, Accounts \X {e}) + b[<<who, d>>]
                          = Total(b, Accounts \X {e}) + c[<<who, d>>]
      BY <1>3, <1>4, <3>1, WalletChange
    <3>3. WalletTotal(e) = Total(b, Accounts \X {e}) /\ WalletTotal(e)' = Total(c, Accounts \X {e})
      BY <3>1 DEF WalletTotal
    <3> QED
      BY <1>4, <3>1, <3>2, <3>3
  <2>2. /\ InFlight({"credit"}, e) = IF e = d THEN n ELSE 0
        /\ InFlight({"debit", "restore"}, e) = 0
    BY <1>1, <1>2 DEF InFlight
  <2>3. InFlight({"credit"}, e)' = 0 /\ InFlight({"debit", "restore"}, e)' = 0
    BY <1>1 DEF InFlight, Idle
  <2>4. /\ uncredited[e] \in Nat /\ undebited[e] \in Nat /\ supply[e] \in Nat
        /\ uncredited' = uncredited /\ undebited' = undebited
    BY <1>1 DEF WalletInv, WalletTypes, KeeperPart, LedgerInv, TypeOK, crashVars
  <2>5. WalletTotal(e) + uncredited[e] + InFlight({"credit"}, e)
          = supply[e] + undebited[e] + InFlight({"debit", "restore"}, e)
    BY DEF WalletInv, WalletsMatchSupply
  <2> QED
    BY <1>5, <2>1, <2>2, <2>3, <2>4, <2>5
<1>8. RollbackPart'
  BY <1>1 DEF RollbackPart, Idle
<1> QED
  BY <1>5, <1>6, <1>7, <1>8 DEF WalletInv

(* The owner's wallet pays for a withdrawal. *)
LEMMA DebitStep ==
    ASSUME WalletInv, Debit
    PROVE  WalletInv'
<1>1. /\ op.step = "debit" /\ op' = Idle /\ UNCHANGED keeperVars /\ UNCHANGED crashVars
      /\ balances[<<op.account, op.denom>>] >= op.amount
      /\ balances' = [balances EXCEPT ![<<op.account, op.denom>>] = @ - op.amount]
  BY DEF Debit
<1>2. PICK d \in Denoms, n \in Nat \ {0}, who \in Accounts :
          d = op.denom /\ n = op.amount /\ who = op.account
  BY <1>1 DEF WalletInv, WalletTypes, Transfer, Idle
<1>3. balances \in Wallets
  BY DEF WalletInv, WalletTypes
<1>4. /\ balances' \in Wallets /\ balances'[<<who, d>>] = balances[<<who, d>>] - n
      /\ balances[<<who, d>>] \in Nat
      /\ \A x \in Accounts \X Denoms : x # <<who, d>> => balances'[x] = balances[x]
  BY <1>1, <1>2, <1>3 DEF Wallets
<1>5. KeeperPart' /\ supply' = supply
  <2>1. [Next]_keeperVars
    BY <1>1
  <2> QED
    BY <1>1, <2>1, KeeperMoves DEF WalletInv, keeperVars
<1>6. WalletTypes'
  BY <1>1, <1>4 DEF WalletInv, WalletTypes, crashVars
<1>7. WalletsMatchSupply'
  <2> SUFFICES ASSUME NEW e \in Denoms
               PROVE  (WalletTotal(e) + uncredited[e] + InFlight({"credit"}, e)
                        = supply[e] + undebited[e] + InFlight({"debit", "restore"}, e))'
    BY DEF WalletsMatchSupply
  <2>1. /\ WalletTotal(e) \in Nat /\ WalletTotal(e)' \in Nat
        /\ WalletTotal(e)' + (IF e = d THEN n ELSE 0) = WalletTotal(e)
    <3>1. PICK b, c : b = balances /\ c = balances'
      OBVIOUS
    <3>2. /\ Total(b, Accounts \X {e}) \in Nat /\ Total(c, Accounts \X {e}) \in Nat
          /\ e # d => Total(c, Accounts \X {e}) = Total(b, Accounts \X {e})
          /\ e = d => Total(c, Accounts \X {e}) + b[<<who, d>>]
                          = Total(b, Accounts \X {e}) + c[<<who, d>>]
      BY <1>3, <1>4, <3>1, WalletChange
    <3>3. WalletTotal(e) = Total(b, Accounts \X {e}) /\ WalletTotal(e)' = Total(c, Accounts \X {e})
      BY <3>1 DEF WalletTotal
    <3> QED
      BY <1>4, <3>1, <3>2, <3>3
  <2>2. /\ InFlight({"credit"}, e) = 0
        /\ InFlight({"debit", "restore"}, e) = IF e = d THEN n ELSE 0
    BY <1>1, <1>2 DEF InFlight
  <2>3. InFlight({"credit"}, e)' = 0 /\ InFlight({"debit", "restore"}, e)' = 0
    BY <1>1 DEF InFlight, Idle
  <2>4. /\ uncredited[e] \in Nat /\ undebited[e] \in Nat /\ supply[e] \in Nat
        /\ uncredited' = uncredited /\ undebited' = undebited
    BY <1>1 DEF WalletInv, WalletTypes, KeeperPart, LedgerInv, TypeOK, crashVars
  <2>5. WalletTotal(e) + uncredited[e] + InFlight({"credit"}, e)
          = supply[e] + undebited[e] + InFlight({"debit", "restore"}, e)
    BY DEF WalletInv, WalletsMatchSupply
  <2> QED
    BY <1>5, <2>1, <2>2, <2>3, <2>4, <2>5
<1>8. RollbackPart'
  BY <1>1 DEF RollbackPart, Idle
<1> QED
  BY <1>5, <1>6, <1>7, <1>8 DEF WalletInv

(* A withdrawal is recorded and waits for its debit: the snapshot that was
   taken before it is the ledger it came from. *)
LEMMA WithdrawalStep ==
    ASSUME WalletInv, NEW owner \in Accounts, NEW a \in AssetIDs,
           NEW amount \in WithdrawalAmounts, NEW recipient \in EthAccounts,
           NEW deadline \in Deadlines,
           SubmitWithdrawal(owner, a, amount, recipient, deadline)
    PROVE  WalletInv'
<1>1. /\ op = Idle /\ ExecuteWithdrawal(a, amount, recipient, deadline)
      /\ balances' = balances /\ UNCHANGED crashVars
  BY DEF SubmitWithdrawal, Unlocked
<1>2. KeeperPart'
  <2>1. [Next]_keeperVars
    BY <1>1 DEF Next
  <2> QED
    BY <2>1, KeeperMoves DEF WalletInv
<1>3. tripped' = FALSE
  BY <1>2 DEF KeeperPart, LedgerInv
<1>4. PICK d \in Denoms, n \in Nat \ {0} : d = DenomOf[a] /\ n = amount
  BY BridgeAssumption
<1>5. PICK before : before = [usage |-> usage, supply |-> supply,
                              withdrawals |-> withdrawals, nextNonce |-> nextNonce]
  OBVIOUS
<1>6. LedgerInv /\ NoncesInOrder /\ TypeOK
  BY DEF WalletInv, KeeperPart, LedgerInv
<1>7. /\ before \in Snapshot /\ before.supply = supply /\ before.withdrawals = withdrawals
      /\ before.nextNonce = nextNonce
  BY <1>5, <1>6 DEF Snapshot, TypeOK, LimitsTypeOK
<1>8. op' = [step |-> "debit", account |-> owner, denom |-> d, amount |-> n,
             before |-> before]
  BY <1>3, <1>4, <1>5 DEF SubmitWithdrawal
<1>9. /\ op' \in Transfer /\ op'.step = "debit" /\ op'.denom = d /\ op'.amount = n
      /\ op'.before = before
  BY <1>7, <1>8 DEF Transfer
<1>10. /\ supply \in [Denoms -> Nat] /\ supply' = [supply EXCEPT ![d] = @ - n]
       /\ supply[d] >= n /\ processedClaims' = processedClaims /\ assets' = assets
  BY <1>1, <1>4, <1>6 DEF ExecuteWithdrawal, RecordWithdrawal, TypeOK, policyVars
<1>11. WalletTypes'
  BY <1>1, <1>9 DEF WalletInv, WalletTypes, crashVars
<1>12. \A e \in Denoms : /\ supply[e] \in Nat /\ supply'[e] \in Nat
                          /\ supply[e] = supply'[e] + IF e = d THEN n ELSE 0
  BY <1>10
<1>13. WalletsMatchSupply'
  <2> SUFFICES ASSUME NEW e \in Denoms
               PROVE  (WalletTotal(e) + uncredited[e] + InFlight({"credit"}, e)
                        = supply[e] + undebited[e] + InFlight({"debit", "restore"}, e))'
    BY DEF WalletsMatchSupply
  <2>1. InFlight({"credit"}, e) = 0 /\ InFlight({"debit", "restore"}, e) = 0
    BY <1>1 DEF InFlight, Idle
  <2>2. /\ InFlight({"credit"}, e)' = 0
        /\ InFlight({"debit", "restore"}, e)' = IF e = d THEN n ELSE 0
    BY <1>9 DEF InFlight
  <2>3. /\ uncredited[e] \in Nat /\ undebited[e] \in Nat /\ WalletTotal(e) \in Nat
        /\ uncredited' = uncredited /\ undebited' = undebited
        /\ WalletTotal(e)' = WalletTotal(e)
    BY <1>1, WalletTotalIsNat DEF WalletInv, WalletTypes, WalletTotal, crashVars
  <2>4. WalletTotal(e) + uncredited[e] + InFlight({"credit"}, e)
          = supply[e] + undebited[e] + InFlight({"debit", "restore"}, e)
    BY DEF WalletInv, WalletsMatchSupply
  <2> QED
    BY <1>12, <2>1, <2>2, <2>3, <2>4
<1>14. RollbackPart'
  <2>1. SnapshotBalanced(before)'
    BY <1>6, <1>7, <1>10
    DEF SnapshotBalanced, LedgerInv, SupplyBalanced, RecordsOfRegistered, Registered,
        NoncesInOrder
  <2>2. \A e \in Denoms : before.supply[e] = supply'[e] + IF e = d THEN n ELSE 0
    BY <1>7, <1>12
  <2> QED
    BY <1>9, <2>1, <2>2 DEF RollbackPart
<1> QED
  BY <1>2, <1>11, <1>13, <1>14 DEF WalletInv

(* The first commit of a rollback. *)
LEMMA RestoreLimitsStep ==
    ASSUME WalletInv, RestoreLimits
    PROVE  WalletInv'
<1>1. /\ op.step = "debit" /\ op' = [op EXCEPT !.step = "restore"]
      /\ usage' = op.before.usage /\ limits' = limits /\ balances' = balances
      /\ UNCHANGED policyVars /\ UNCHANGED ledgerVars /\ UNCHANGED crashVars
  BY DEF RestoreLimits
<1>2. op \in [step : {"debit", "restore"}, account : Accounts, denom : Denoms,
              amount : Nat \ {0}, before : Snapshot]
  BY <1>1 DEF WalletInv, WalletTypes, Transfer, Idle
<1>3. /\ op' \in Transfer /\ op'.step = "restore" /\ op'.denom = op.denom
      /\ op'.amount = op.amount /\ op'.before = op.before
  BY <1>1, <1>2 DEF Transfer
<1>4. LimitsTypeOK'
  BY <1>1, <1>2 DEF LimitsTypeOK, Snapshot, WalletInv, KeeperPart, LedgerInv, TypeOK
<1>5. KeeperPart'
  BY <1>1, <1>4, UsageMoves DEF WalletInv
<1>6. supply' = supply /\ processedClaims' = processedClaims /\ assets' = assets
  BY <1>1 DEF ledgerVars, policyVars
<1>7. WalletTypes'
  BY <1>1, <1>3 DEF WalletInv, WalletTypes, crashVars
<1>8. \A e \in Denoms :
          /\ InFlight({"credit"}, e)' = InFlight({"credit"}, e)
          /\ InFlight({"debit", "restore"}, e)' = InFlight({"debit", "restore"}, e)
  BY <1>1, <1>3 DEF InFlight
<1>9. WalletsMatchSupply'
  BY <1>1, <1>6, <1>8 DEF WalletInv, WalletsMatchSupply, WalletTotal, crashVars
<1>10. RollbackPart'
  <2>1. PICK before : before = op.before
    OBVIOUS
  <2>2. SnapshotBalanced(before) /\ op'.before = before
    BY <1>1, <1>3, <2>1 DEF WalletInv, RollbackPart
  <2>3. SnapshotBalanced(before)'
    BY <1>6, <2>2 DEF SnapshotBalanced, Registered
  <2> QED
    BY <1>1, <1>3, <1>6, <2>2, <2>3 DEF WalletInv, RollbackPart
<1> QED
  BY <1>5, <1>7, <1>9, <1>10 DEF WalletInv

(* The second commit of a rollback. *)
LEMMA RestoreBridgeStep ==
    ASSUME WalletInv, RestoreBridge
    PROVE  WalletInv'
<1>1. /\ op.step = "restore" /\ op' = Idle /\ balances' = balances
      /\ supply' = op.before.supply /\ withdrawals' = op.before.withdrawals
      /\ nextNonce' = op.before.nextNonce
      /\ UNCHANGED <<processedClaims, acceptedUnder, tripped>>
      /\ UNCHANGED limitsVars /\ UNCHANGED policyVars /\ UNCHANGED crashVars
  BY DEF RestoreBridge
<1>2. PICK before \in Snapshot, d \in Denoms, n \in Nat \ {0} :
          before = op.before /\ d = op.denom /\ n = op.amount
  BY <1>1 DEF WalletInv, WalletTypes, Transfer, Idle
<1>3. /\ SnapshotBalanced(before)
      /\ \A e \in Denoms : before.supply[e] = supply[e] + IF e = d THEN n ELSE 0
  BY <1>1, <1>2 DEF WalletInv, RollbackPart
<1>4. KeeperPart'
  BY <1>1, <1>2, <1>3, LedgerRestored DEF WalletInv
<1>5. WalletTypes'
  BY <1>1 DEF WalletInv, WalletTypes, crashVars
<1>6. WalletsMatchSupply'
  <2> SUFFICES ASSUME NEW e \in Denoms
               PROVE  (WalletTotal(e) + uncredited[e] + InFlight({"credit"}, e)
                        = supply[e] + undebited[e] + InFlight({"debit", "restore"}, e))'
    BY DEF WalletsMatchSupply
  <2>1. InFlight({"credit"}, e)' = 0 /\ InFlight({"debit", "restore"}, e)' = 0
    BY <1>1 DEF InFlight, Idle
  <2>2. /\ InFlight({"credit"}, e) = 0
        /\ InFlight({"debit", "restore"}, e) = IF e = d THEN n ELSE 0
    BY <1>1, <1>2 DEF InFlight
  <2>3. /\ uncredited[e] \in Nat /\ undebited[e] \in Nat /\ WalletTotal(e) \in Nat
        /\ supply[e] \in Nat
        /\ uncredited' = uncredited /\ undebited' = undebited
        /\ WalletTotal(e)' = WalletTotal(e)
    BY <1>1, WalletTotalIsNat
    DEF WalletInv, WalletTypes, KeeperPart, LedgerInv, TypeOK, WalletTotal, crashVars
  <2>4. WalletTotal(e) + uncredited[e] + InFlight({"credit"}, e)
          = supply[e] + undebited[e] + InFlight({"debit", "restore"}, e)
    BY DEF WalletInv, WalletsMatchSupply
  <2>5. supply'[e] = supply[e] + IF e = d THEN n ELSE 0
    BY <1>1, <1>2, <1>3
  <2> QED
    BY <2>1, <2>2, <2>3, <2>4, <2>5
<1>7. RollbackPart'
  BY <1>1 DEF RollbackPart, Idle
<1> QED
  BY <1>4, <1>5, <1>6, <1>7 DEF WalletInv

(* A crash turns what was in flight into what was cut short. *)
LEMMA CrashStep ==
    ASSUME WalletInv, Crash
    PROVE  WalletInv'
<1>1. /\ op' = Idle /\ balances' = balances /\ UNCHANGED keeperVars
      /\ crashes < MaxCrashes /\ crashes' = crashes + 1
      /\ uncredited' = [d \in Denoms |-> uncredited[d] + InFlight({"credit"}, d)]
      /\ undebited' = [d \in Denoms |-> undebited[d] + InFlight({"debit", "restore"}, d)]
  BY DEF Crash, Restart
<1>2. KeeperPart' /\ supply' = supply
  <2>1. [Next]_keeperVars
    BY <1>1
  <2> QED
    BY <1>1, <2>1, KeeperMoves DEF WalletInv, keeperVars
<1>3. \A e \in Denoms :
          InFlight({"credit"}, e) \in Nat /\ InFlight({"debit", "restore"}, e) \in Nat
  <2>1. op \in Transfer => op.amount \in Nat
    BY DEF Transfer
  <2>2. op \notin Transfer => op.step = "idle"
    BY DEF WalletInv, WalletTypes, Idle
  <2> QED
    BY <2>1, <2>2 DEF InFlight
<1>4. \A e \in Denoms : uncredited[e] \in Nat /\ undebited[e] \in Nat
  BY DEF WalletInv, WalletTypes
<1>5. WalletTypes'
  <2>1. uncredited' \in [Denoms -> Nat] /\ undebited' \in [Denoms -> Nat]
    BY <1>1, <1>3, <1>4
  <2>2. crashes' \in 0 .. MaxCrashes
    BY <1>1, AppAssumption DEF WalletInv, WalletTypes
  <2> QED
    BY <1>1, <2>1, <2>2 DEF WalletInv, WalletTypes
<1>6. WalletsMatchSupply'
  <2> SUFFICES ASSUME NEW e \in Denoms
               PROVE  (WalletTotal(e) + uncredited[e] + InFlight({"credit"}, e)
                        = supply[e] + undebited[e] + InFlight({"debit", "restore"}, e))'
    BY DEF WalletsMatchSupply
  <2>1. InFlight({"credit"}, e)' = 0 /\ InFlight({"debit", "restore"}, e)' = 0
    BY <1>1 DEF InFlight, Idle
  <2>2. /\ uncredited'[e] = uncredited[e] + InFlight({"credit"}, e)
        /\ undebited'[e] = undebited[e] + InFlight({"debit", "restore"}, e)
    BY <1>1
  <2>3. WalletTotal(e) \in Nat /\ WalletTotal(e)' = WalletTotal(e) /\ supply[e] \in Nat
    BY <1>1, WalletTotalIsNat
    DEF WalletInv, WalletTypes, KeeperPart, LedgerInv, TypeOK, WalletTotal
  <2>4. WalletTotal(e) + uncredited[e] + InFlight({"credit"}, e)
          = supply[e] + undebited[e] + InFlight({"debit", "restore"}, e)
    BY DEF WalletInv, WalletsMatchSupply
  <2> QED
    BY <1>2, <1>3, <1>4, <2>1, <2>2, <2>3, <2>4
<1>7. RollbackPart'
  BY <1>1 DEF RollbackPart, Idle
<1> QED
  BY <1>2, <1>5, <1>6, <1>7 DEF WalletInv

(* The keeper moves and leaves its ledger alone, with no operation in flight. *)
LEMMA QuietStep ==
    ASSUME WalletInv, KeeperPart', op = Idle, op' = Idle, supply' = supply,
           balances' = balances, crashes' \in 0 .. MaxCrashes,
           UNCHANGED <<uncredited, undebited>>
    PROVE  WalletInv'
<1>1. WalletTypes'
  BY DEF WalletInv, WalletTypes
<1>2. WalletsMatchSupply'
  BY DEF WalletInv, WalletsMatchSupply, WalletTotal, InFlight
<1>3. RollbackPart'
  BY DEF RollbackPart, Idle
<1> QED
  BY <1>1, <1>2, <1>3 DEF WalletInv

(* Every step of the application keeps the half about the wallets. *)
LEMMA WalletStep ==
    ASSUME WalletInv, QueueTypes, [AppNext]_appVars
    PROVE  WalletInv'
<1> USE DEF WalletInv
<1>1. ASSUME NEW claim \in Claims, NEW att \in Attestations,
             SubmitDepositClaim(claim, att)
      PROVE  WalletInv'
  BY <1>1, AcceptStep DEF SubmitDepositClaim, Unlocked
<1>2. ASSUME UNCHANGED keeperVars, op = Idle, UNCHANGED walletVars, UNCHANGED crashVars
      PROVE  WalletInv'
  <2>1. KeeperPart' /\ supply' = supply
    BY <1>2, KeeperMoves DEF keeperVars
  <2> QED
    BY <1>2, <2>1, QuietStep DEF walletVars, crashVars, WalletTypes
<1>3. ASSUME NEW claim \in Claims, NEW att \in Attestations,
             QueueDepositClaim(claim, att)
      PROVE  WalletInv'
  BY <1>2, <1>3 DEF QueueDepositClaim, Unlocked
<1>4. ASSUME NEW owner \in Accounts, NEW a \in AssetIDs, NEW amount \in WithdrawalAmounts,
             NEW recipient \in EthAccounts, NEW deadline \in Deadlines,
             SubmitWithdrawal(owner, a, amount, recipient, deadline)
      PROVE  WalletInv'
  BY <1>4, WithdrawalStep
<1>5. ASSUME NEW a \in AssetIDs, NEW amount \in WithdrawalAmounts,
             RefuseWithdrawal(a, amount)
      PROVE  WalletInv'
  <2>1. /\ op = Idle /\ UNCHANGED walletVars /\ UNCHANGED crashVars
        /\ RejectWithdrawalForSupply(a, amount)
    BY <1>5 DEF RefuseWithdrawal, Unlocked
  <2>2. KeeperPart'
    BY <2>1, KeeperMoves DEF Next
  <2>3. supply' = supply
    BY <2>1 DEF RejectWithdrawalForSupply, ledgerVars
  <2> QED
    BY <2>1, <2>2, <2>3, QuietStep DEF walletVars, crashVars, WalletTypes
<1>6. ASSUME NEW a \in AssetIDs, NEW amount \in WithdrawalAmounts,
             CrashAfterUsage(a, amount)
      PROVE  WalletInv'
  <2>1. /\ op = Idle /\ op' = Idle /\ balances' = balances
        /\ RecordTransferAtHeight(a, amount, height)
        /\ crashes < MaxCrashes /\ crashes' = crashes + 1
        /\ UNCHANGED <<uncredited, undebited>>
        /\ UNCHANGED policyVars /\ UNCHANGED ledgerVars
    BY <1>6 DEF CrashAfterUsage, Restart
  <2>2. LimitsTypeOK /\ height \in Uint64 /\ amount \in Nat
    BY BridgeAssumption DEF KeeperPart, LedgerInv, TypeOK
  <2>3. LimitsTypeOK'
    BY <2>1, <2>2, RecordTyped
  <2>4. KeeperPart'
    BY <2>1, <2>3, UsageMoves
  <2>5. supply' = supply
    BY <2>1 DEF ledgerVars
  <2>6. crashes' \in 0 .. MaxCrashes
    BY <2>1, AppAssumption DEF WalletTypes
  <2> QED
    BY <2>1, <2>4, <2>5, <2>6, QuietStep
<1>7. CASE Credit
  BY <1>7, CreditStep
<1>8. CASE Debit
  BY <1>8, DebitStep
<1>9. CASE RestoreLimits
  BY <1>9, RestoreLimitsStep
<1>10. CASE RestoreBridge
  BY <1>10, RestoreBridgeStep
<1>11. CASE AdvanceBlock
  <2>1. /\ op = Idle /\ UNCHANGED walletVars /\ UNCHANGED crashVars
        /\ height < MaxHeight /\ SetCurrentHeight(height + 1)
    BY <1>11 DEF AdvanceBlock, Unlocked
  <2>2. height + 1 \in 0 .. MaxHeight
    BY <2>1, BridgeAssumption, MaxUint64Assumption DEF KeeperPart, LedgerInv, TypeOK, Uint64
  <2>3. [Next]_keeperVars
    BY <2>1, <2>2 DEF Next, Policy
  <2>4. KeeperPart' /\ supply' = supply
    BY <2>1, <2>3, KeeperMoves DEF SetCurrentHeight, ledgerVars
  <2> QED
    BY <2>1, <2>4, QuietStep DEF walletVars, crashVars, WalletTypes
<1>12. CASE TruncateNodeFile
  BY <1>2, <1>12 DEF TruncateNodeFile, Unlocked
<1>13. CASE Crash
  BY <1>13, CrashStep
<1>14. ASSUME NEW accepted \in BOOLEAN, DrainHead(accepted)
       PROVE  WalletInv'
  <2>1. op = Idle /\ balances' = balances /\ UNCHANGED crashVars /\ draining # <<>>
    BY <1>14 DEF DrainHead
  <2>2. CASE ~accepted
    <3>1. UNCHANGED keeperVars /\ op' = op
      BY <1>14, <2>2 DEF DrainHead
    <3> QED
      BY <1>2, <2>1, <3>1 DEF walletVars
  <2>3. CASE accepted
    <3>1. Head(draining) \in QueuedDepositClaim
      BY <2>1 DEF QueueTypes
    <3>2. PICK claim \in Claims, att \in Attestations :
              claim = Head(draining).claim /\ att = Head(draining).attestation
      BY <3>1 DEF QueuedDepositClaim
    <3>3. AcceptThenCredit(claim, att)
      BY <1>14, <2>3, <3>2 DEF DrainHead
    <3> QED
      BY <2>1, <3>3, AcceptStep
  <2> QED
    BY <2>2, <2>3
<1>15. CASE AppPolicy
  <2>1. op = Idle /\ Policy /\ UNCHANGED walletVars /\ UNCHANGED crashVars
    BY <1>15 DEF AppPolicy, Unlocked
  <2>2. KeeperPart'
    BY <2>1, KeeperMoves DEF Next
  <2>3. supply' = supply
    BY <2>1 DEF Policy, SetCurrentHeight, UpsertSignerSet, RegisterAsset, SetAssetEnabled,
                Pause, Unpause, UpdateLimit, ledgerVars
  <2> QED
    BY <2>1, <2>2, <2>3, QuietStep DEF walletVars, crashVars, WalletTypes
<1>16. CASE WriteNodeFile \/ FailToLoad \/ UNCHANGED appVars
  <2>1. UNCHANGED keeperVars /\ UNCHANGED walletVars /\ UNCHANGED crashVars
    BY <1>16 DEF WriteNodeFile, FailToLoad, appVars
  <2>2. KeeperPart'
    BY <2>1, KeeperMoves
  <2>3. /\ balances' = balances /\ op' = op /\ supply' = supply
        /\ processedClaims' = processedClaims /\ assets' = assets
    BY <2>1 DEF keeperVars, walletVars
  <2>4. WalletTypes'
    BY <2>1 DEF WalletTypes, walletVars, crashVars
  <2>5. WalletsMatchSupply'
    BY <2>1, <2>3 DEF WalletsMatchSupply, WalletTotal, InFlight, crashVars
  <2>6. RollbackPart'
    BY <2>3 DEF RollbackPart, SnapshotBalanced, Registered
  <2> QED
    BY <2>2, <2>4, <2>5, <2>6
<1> HIDE DEF WalletInv
<1> QED
  BY <1>1, <1>3, <1>4, <1>5, <1>6, <1>7, <1>8, <1>9, <1>10, <1>11, <1>12, <1>13,
     <1>14, <1>15, <1>16
  DEF AppNext

-----------------------------------------------------------------------------
(* The queue. *)

(* A claim at the end of a queue, and the queue without its head. *)
LEMMA QueueOperations ==
    ASSUME NEW S, NEW queue \in Seq(S)
    PROVE  /\ \A x \in S : /\ Append(queue, x) \in Seq(S)
                           /\ \A q : Holds(queue, q) => Holds(Append(queue, x), q)
           /\ queue # <<>> =>
                  /\ Head(queue) \in S /\ Tail(queue) \in Seq(S)
                  /\ \A q : Holds(queue, q) => q = Head(queue) \/ Holds(Tail(queue), q)
<1>1. ASSUME NEW x \in S
      PROVE  /\ Append(queue, x) \in Seq(S)
             /\ \A q : Holds(queue, q) => Holds(Append(queue, x), q)
  <2>1. /\ Append(queue, x) \in Seq(S)
        /\ \A i \in DOMAIN queue :
               i \in DOMAIN Append(queue, x) /\ Append(queue, x)[i] = queue[i]
    OBVIOUS
  <2> QED
    BY <2>1 DEF Holds
<1>2. ASSUME queue # <<>>
      PROVE  /\ Head(queue) \in S /\ Tail(queue) \in Seq(S)
             /\ \A q : Holds(queue, q) => q = Head(queue) \/ Holds(Tail(queue), q)
  <2>1. Head(queue) \in S /\ Tail(queue) \in Seq(S) /\ Head(queue) = queue[1]
    BY <1>2
  <2>2. \A i \in DOMAIN queue : i # 1 =>
            i - 1 \in DOMAIN Tail(queue) /\ Tail(queue)[i - 1] = queue[i]
    BY <1>2
  <2>3. ASSUME NEW q, Holds(queue, q), q # Head(queue)
        PROVE  Holds(Tail(queue), q)
    <3>1. PICK i \in DOMAIN queue : queue[i] = q
      BY <2>3 DEF Holds
    <3>2. i # 1
      BY <2>1, <2>3, <3>1
    <3> QED
      BY <2>2, <3>1, <3>2 DEF Holds
  <2> QED
    BY <2>1, <2>3
<1> QED
  BY <1>1, <1>2

(* Every step of the application keeps the half about the queue. *)
LEMMA QueueStep ==
    ASSUME QueueInv, [AppNext]_appVars
    PROVE  QueueInv'
<1> USE DEF QueueInv
<1>1. CASE UNCHANGED queueVars
  BY <1>1 DEF QueueTypes, QueuePart, Holds, queueVars
<1>2. ASSUME NEW claim \in Claims, NEW att \in Attestations,
             QueueDepositClaim(claim, att)
      PROVE  QueueInv'
  <2>1. PICK x \in QueuedDepositClaim : pending' = Append(pending, x)
    BY <1>2 DEF QueueDepositClaim, QueuedDepositClaim
  <2>2. UNCHANGED <<draining, saved, nodeFile, acknowledged, handled>>
    BY <1>2 DEF QueueDepositClaim
  <2>3. pending \in Seq(QueuedDepositClaim)
    BY DEF QueueTypes
  <2>4. /\ pending' \in Seq(QueuedDepositClaim)
        /\ \A q : Holds(pending, q) => Holds(pending, q)'
    BY <2>1, <2>3, QueueOperations DEF Holds
  <2>5. \A q : /\ Holds(saved, q)' <=> Holds(saved, q)
               /\ Holds(draining, q)' <=> Holds(draining, q)
    BY <2>2 DEF Holds
  <2> QED
    BY <2>2, <2>4, <2>5 DEF QueueTypes, QueuePart
<1>3. CASE AdvanceBlock
  <2>1. /\ draining = <<>> /\ draining' = pending /\ pending' = <<>>
        /\ nodeFile = "whole"
        /\ UNCHANGED <<saved, nodeFile, acknowledged, handled>>
    BY <1>3 DEF AdvanceBlock, Unlocked
  <2>2. \A q : /\ Holds(saved, q)' <=> Holds(saved, q)
               /\ Holds(draining, q)' <=> Holds(pending, q)
               /\ ~Holds(draining, q)
    BY <2>1 DEF Holds
  <2>3. QueueTypes'
    BY <2>1 DEF QueueTypes
  <2> QED
    BY <2>1, <2>2, <2>3 DEF QueuePart
<1>4. ASSUME NEW accepted \in BOOLEAN, DrainHead(accepted)
      PROVE  QueueInv'
  <2>1. /\ draining # <<>> /\ draining' = Tail(draining)
        /\ handled' = handled \cup {Head(draining)}
        /\ UNCHANGED <<pending, saved, nodeFile, acknowledged>>
    BY <1>4 DEF DrainHead
  <2>2. draining \in Seq(QueuedDepositClaim)
    BY DEF QueueTypes
  <2>3. /\ Head(draining) \in QueuedDepositClaim
        /\ Tail(draining) \in Seq(QueuedDepositClaim)
        /\ \A q : Holds(draining, q) => q = Head(draining) \/ Holds(Tail(draining), q)
    BY <2>1, <2>2, QueueOperations
  <2>4. \A q : /\ Holds(saved, q)' <=> Holds(saved, q)
               /\ Holds(pending, q)' <=> Holds(pending, q)
               /\ Holds(draining, q)' <=> Holds(Tail(draining), q)
    BY <2>1 DEF Holds
  <2>5. QueueTypes'
    BY <2>1, <2>3 DEF QueueTypes
  <2> QED
    BY <2>1, <2>3, <2>4, <2>5 DEF QueuePart
<1>5. CASE TruncateNodeFile
  <2>1. /\ draining = <<>> /\ nodeFile = "whole" /\ nodeFile' = "truncated"
        /\ saved' = <<>>
        /\ UNCHANGED <<pending, draining, acknowledged, handled>>
    BY <1>5 DEF TruncateNodeFile, Unlocked
  <2>2. \A q : /\ Holds(pending, q)' <=> Holds(pending, q)
               /\ Holds(draining, q)' <=> Holds(draining, q)
    BY <2>1 DEF Holds
  <2>3. QueueTypes'
    BY <2>1 DEF QueueTypes
  <2> QED
    BY <2>1, <2>2, <2>3 DEF QueuePart
<1>6. CASE WriteNodeFile
  <2>1. /\ nodeFile = "truncated" /\ nodeFile' = "whole" /\ saved' = pending
        /\ acknowledged' = acknowledged \cup {pending[i] : i \in DOMAIN pending}
        /\ UNCHANGED <<pending, draining, handled>>
    BY <1>6 DEF WriteNodeFile
  <2>2. draining = <<>>
    BY <2>1 DEF QueuePart
  <2>3. \A q : /\ Holds(saved, q)' <=> Holds(pending, q)
               /\ Holds(pending, q)' <=> Holds(pending, q)
               /\ ~Holds(draining, q)
    BY <2>1, <2>2 DEF Holds
  <2>4. \A q \in acknowledged' : q \in acknowledged \/ Holds(pending, q)
    BY <2>1 DEF Holds
  <2>5. QueueTypes'
    <3>1. \A i \in DOMAIN pending : pending[i] \in QueuedDepositClaim
      BY DEF QueueTypes
    <3> QED
      BY <2>1, <3>1 DEF QueueTypes
  <2> QED
    BY <2>1, <2>3, <2>4, <2>5 DEF QueuePart
<1>7. CASE Restart
  <2>1. /\ pending' = saved /\ draining' = <<>>
        /\ nodeFile' = IF nodeFile = "truncated" THEN "unreadable" ELSE nodeFile
        /\ UNCHANGED <<saved, acknowledged, handled>>
    BY <1>7 DEF Restart
  <2>2. \A q : /\ Holds(saved, q)' <=> Holds(saved, q)
               /\ Holds(pending, q)' <=> Holds(saved, q)
    BY <2>1 DEF Holds
  <2>3. QueueTypes'
    BY <2>1 DEF QueueTypes
  <2> QED
    BY <2>1, <2>2, <2>3 DEF QueuePart, QueueTypes
<1> HIDE DEF QueueInv
<1> QED
  BY <1>1, <1>2, <1>3, <1>4, <1>5, <1>6, <1>7
  DEF AppNext, SubmitDepositClaim, SubmitWithdrawal, RefuseWithdrawal, CrashAfterUsage,
      Credit, Debit, RestoreLimits, RestoreBridge, Crash, FailToLoad, AppPolicy, appVars

-----------------------------------------------------------------------------
(* The theorems. *)

LEMMA AppInitially ==
    ASSUME AppInit
    PROVE  WalletInv /\ QueueInv
<1>1. /\ Init /\ balances = [w \in Accounts \X Denoms |-> 0] /\ op = Idle
      /\ pending = <<>> /\ draining = <<>> /\ saved = <<>> /\ crashes = 0
      /\ nodeFile = "whole"
      /\ uncredited = [d \in Denoms |-> 0] /\ undebited = [d \in Denoms |-> 0]
      /\ acknowledged = {} /\ handled = {}
  BY DEF AppInit
<1>2. KeeperPart
  <2>1. TypeOK
    BY <1>1, InitTyped
  <2>2. LedgerInv
    BY <1>1, <2>1, EmptyLedger
  <2> QED
    BY <1>1, <2>2 DEF KeeperPart, Init, NoncesInOrder, GenuineClaims
<1>3. WalletTypes
  BY <1>1, AppAssumption DEF WalletTypes, Wallets
<1>4. RollbackPart
  BY <1>1 DEF RollbackPart, Idle
<1>5. WalletsMatchSupply
  <2> SUFFICES ASSUME NEW d \in Denoms
               PROVE  WalletTotal(d) + uncredited[d] + InFlight({"credit"}, d)
                        = supply[d] + undebited[d] + InFlight({"debit", "restore"}, d)
    BY DEF WalletsMatchSupply
  <2>1. WalletTotal(d) = 0
    <3>1. Units(balances, Accounts \X {d}) = {}
      <4>1. \A x \in Accounts \X {d} : balances[x] = 0
        BY <1>1
      <4>2. \A x \in Accounts \X {d} : {x} \X (1 .. balances[x]) = {}
        BY <4>1
      <4> QED
        BY <4>2 DEF Units
    <3> QED
      BY <3>1, FS_EmptySet DEF WalletTotal, Total
  <2>2. InFlight({"credit"}, d) = 0 /\ InFlight({"debit", "restore"}, d) = 0
    BY <1>1 DEF InFlight, Idle
  <2>3. supply[d] = 0 /\ uncredited[d] = 0 /\ undebited[d] = 0
    BY <1>1 DEF Init
  <2> QED
    BY <2>1, <2>2, <2>3
<1>6. QueueInv
  BY <1>1 DEF QueueInv, QueueTypes, QueuePart
<1> QED
  BY <1>2, <1>3, <1>4, <1>5, <1>6 DEF WalletInv

(* The inductive invariant holds in every state of the application. *)
THEOREM AppInvariant == AppSpec => []AppInv
<1>1. AppInit => AppInv
  BY AppInitially, Halves
<1>2. AppInv /\ [AppNext]_appVars => AppInv'
  <2> SUFFICES ASSUME AppInv, [AppNext]_appVars PROVE AppInv'
    OBVIOUS
  <2>1. WalletInv /\ QueueInv /\ QueueTypes
    BY Halves DEF QueueInv
  <2>2. WalletInv' /\ QueueInv'
    BY <2>1, WalletStep, QueueStep
  <2> QED
    BY <2>2 DEF AppInv, AppTypeOK, WalletInv, QueueInv, WalletTypes, QueueTypes,
                KeeperPart, LedgerInv, Wallets
<1> QED
  BY <1>1, <1>2, PTL DEF AppSpec

(* The wallets and the supply differ by the movements in flight and by those
   that a crash cut short, at every point of every operation. *)
THEOREM WalletsFollowSupply == AppSpec => []WalletsMatchSupply
<1>1. AppInv => WalletsMatchSupply
  BY DEF AppInv
<1> QED
  BY <1>1, AppInvariant, PTL

(* An application that runs has lost no saved claim before it was submitted: the
   crash inside the write of node.json that does lose them leaves a home that
   LoadWithConfig refuses. *)
THEOREM SavedClaimsAreKept == AppSpec => []SavedClaimsSurvive
<1>1. AppInv => SavedClaimsSurvive
  BY DEF AppInv, QueuePart, SavedClaimsSurvive, Holds
<1> QED
  BY <1>1, AppInvariant, PTL

(* The rollbacks and the crashes of the application leave the ledger as the
   keeper promises it: the breaker stays closed, every denomination is backed
   by its own asset, every claim is genuine and the nonces are in order,
   although a rollback takes withdrawals and nonces back. *)
THEOREM AppKeepsLedger ==
    AppSpec => [](CircuitStaysClosed /\ AssetBacking /\ GenuineClaims /\ NoncesInOrder)
<1>1. AppInv => CircuitStaysClosed /\ AssetBacking /\ GenuineClaims /\ NoncesInOrder
  BY LedgerIsAccounted, LedgerBacksAssets DEF AppInv, KeeperPart
<1> QED
  BY <1>1, AppInvariant, PTL
=============================================================================
