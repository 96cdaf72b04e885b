------------------------------- MODULE Totals -------------------------------
(***************************************************************************)
(* Sums of amounts.  The keepers add up the amounts of stored records with *)
(* math/big; a total of natural numbers is counted here unit by unit, which*)
(* makes it a cardinality, and cardinalities have a theory the proofs can  *)
(* use.                                                                    *)
(***************************************************************************)
EXTENDS Integers, FiniteSets

(* One element for each unit of amount[x], for each x in S. *)
Units(amount, S) == UNION { {x} \X (1 .. amount[x]) : x \in S }

(* The sum of amount[x] over the finite set S. *)
Total(amount, S) == Cardinality(Units(amount, S))

(* The amounts of a map or a sequence of records. *)
Amounts(records) == [x \in DOMAIN records |-> records[x].amount]
=============================================================================
