---------------------------- MODULE BridgeDrift ----------------------------
(***************************************************************************)
(* The bridge keeper after its state was loaded with a supply that its     *)
(* records do not explain: a damaged store or an edited state file.  The   *)
(* circuit breaker is there for this case.                                 *)
(***************************************************************************)
EXTENDS BridgeKeeper

CONSTANT MaxDrift      \* bound: supply that no record explains

ASSUME DriftAssumption == MaxDrift \in Nat

(* ImportState and loadFromPrefixStore take the supply as they find it. *)
DriftInit ==
    /\ LimitsInit
    /\ assets = [a \in AssetIDs |-> "unregistered"]
    /\ paused = {}
    /\ height = 0
    /\ signerSets = [v \in {1} |-> InitialSignerSet]
    /\ processedClaims = [k \in {} |-> 0]
    /\ supply \in [Denoms -> 0 .. MaxDrift] \ {[d \in Denoms |-> 0]}
    /\ withdrawals = <<>>
    /\ nextNonce = 1
    /\ tripped = FALSE
    /\ acceptedUnder = [k \in {} |-> 0]

DriftSpec == DriftInit /\ [][Next]_keeperVars

(* The first operation that goes through on a drifted ledger, of any asset,
   opens the breaker, and nothing goes through after it: at most one claim or
   withdrawal is ever recorded, with the mutation it made left in place
   (CheckAccountingInvariant, tripCircuit, ensureCircuitHealthy). *)
DriftIsContained ==
    /\ Cardinality(DOMAIN processedClaims) + Len(withdrawals) <= 1
    /\ processedClaims # [k \in {} |-> 0] \/ withdrawals # <<>> => tripped
=============================================================================
