---------------------------- MODULE TotalsProofs ----------------------------
(***************************************************************************)
(* How a total changes when a record is added or an amount is replaced, and *)
(* induction for the loops of the model.  The induction theorems of the     *)
(* library quantify over operators; these quantify over sets, so that a     *)
(* proof can use them.                                                      *)
(***************************************************************************)
EXTENDS Totals, FiniteSetTheorems, WellFoundedInduction, TLAPS

(* The units of one amount are as many as the amount. *)
LEMMA UnitsOfOne ==
    ASSUME NEW x, NEW n \in Nat
    PROVE  /\ IsFiniteSet({x} \X (1 .. n))
           /\ Cardinality({x} \X (1 .. n)) = n
<1>1. IsFiniteSet(1 .. n) /\ Cardinality(1 .. n) = n
  BY FS_Interval
<1>2. IsFiniteSet({x}) /\ Cardinality({x}) = 1
  BY FS_Singleton
<1>3. /\ IsFiniteSet({x} \X (1 .. n))
      /\ Cardinality({x} \X (1 .. n)) = Cardinality({x}) * Cardinality(1 .. n)
  BY <1>1, <1>2, FS_Product
<1> QED
  BY <1>1, <1>2, <1>3

(* A finite set of records has finitely many units, so its total is a
   natural number. *)
LEMMA TotalIsNat ==
    ASSUME NEW amount, NEW S, IsFiniteSet(S), \A x \in S : amount[x] \in Nat
    PROVE  IsFiniteSet(Units(amount, S)) /\ Total(amount, S) \in Nat
<1> DEFINE unitsOf(x) == {x} \X (1 .. amount[x])
           Image == {unitsOf(x) : x \in S}
           f == [x \in S |-> unitsOf(x)]
<1>1. f \in Surjection(S, Image)
  BY DEF Surjection
<1>2. IsFiniteSet(Image)
  <2> HIDE DEF f, Image
  <2> QED BY <1>1, FS_Surjection
<1>3. \A T \in Image : IsFiniteSet(T)
  <2>1. \A x \in S : IsFiniteSet(unitsOf(x))
    BY UnitsOfOne
  <2> HIDE DEF unitsOf
  <2> QED BY <2>1
<1>4. IsFiniteSet(UNION Image)
  <2> HIDE DEF Image
  <2> QED BY <1>2, <1>3, FS_UNION
<1>5. IsFiniteSet(Units(amount, S))
  BY <1>4 DEF Units
<1> QED
  BY <1>5, FS_CardinalityType DEF Total

(* Nothing adds up to nothing. *)
LEMMA TotalOfNone ==
    ASSUME NEW amount
    PROVE  Total(amount, {}) = 0
<1>1. Units(amount, {}) = {}
  BY DEF Units
<1> QED
  BY <1>1, FS_EmptySet DEF Total

(* A total depends only on the amounts of the records it covers. *)
LEMMA TotalSame ==
    ASSUME NEW f, NEW g, NEW S, \A x \in S : f[x] = g[x]
    PROVE  Total(f, S) = Total(g, S)
<1>1. Units(f, S) = Units(g, S)
  BY DEF Units
<1> QED
  BY <1>1 DEF Total

(* A record that joins the set adds its amount. *)
LEMMA TotalAdd ==
    ASSUME NEW amount, NEW S, IsFiniteSet(S), NEW e, e \notin S,
           \A x \in S \cup {e} : amount[x] \in Nat
    PROVE  Total(amount, S \cup {e}) = Total(amount, S) + amount[e]
<1> DEFINE A == Units(amount, S)
           B == {e} \X (1 .. amount[e])
<1>1. Units(amount, S \cup {e}) = A \cup B
  BY DEF Units
<1>2. A \cap B = {}
  BY DEF Units
<1>3. IsFiniteSet(A) /\ Cardinality(A) \in Nat
  BY TotalIsNat DEF Total
<1>4. IsFiniteSet(B) /\ Cardinality(B) = amount[e]
  BY UnitsOfOne
<1>5. Cardinality(A \cup B) = Cardinality(A) + Cardinality(B) - Cardinality(A \cap B)
  <2> HIDE DEF A, B
  <2> QED BY <1>3, <1>4, FS_Union
<1>6. Cardinality(A \cap B) = 0
  <2> HIDE DEF A, B
  <2> QED BY <1>2, FS_EmptySet
<1>7. /\ Total(amount, S \cup {e}) = Cardinality(A \cup B)
      /\ Total(amount, S) = Cardinality(A)
  BY <1>1 DEF Total
<1> HIDE DEF A, B
<1> QED
  BY <1>3, <1>4, <1>5, <1>6, <1>7

(* A smaller set of records has no larger total. *)
LEMMA TotalOfSubset ==
    ASSUME NEW amount, NEW S, IsFiniteSet(S), NEW R \in SUBSET S,
           \A x \in S : amount[x] \in Nat
    PROVE  Total(amount, R) <= Total(amount, S)
<1>1. IsFiniteSet(Units(amount, S))
  BY TotalIsNat
<1>2. Units(amount, R) \in SUBSET Units(amount, S)
  BY DEF Units
<1> QED
  BY <1>1, <1>2, FS_Subset DEF Total

(* Two sets of records together have at most the sum of their totals, and just
   that if they share none. *)
LEMMA TotalOfUnion ==
    ASSUME NEW amount, NEW R, IsFiniteSet(R), NEW S, IsFiniteSet(S),
           \A x \in R \cup S : amount[x] \in Nat
    PROVE  /\ Total(amount, R \cup S) <= Total(amount, R) + Total(amount, S)
           /\ R \cap S = {} =>
                 Total(amount, R \cup S) = Total(amount, R) + Total(amount, S)
<1> DEFINE A == Units(amount, R)
           B == Units(amount, S)
<1>1. Units(amount, R \cup S) = A \cup B
  BY DEF Units
<1>2. /\ IsFiniteSet(A) /\ Cardinality(A) \in Nat
      /\ IsFiniteSet(B) /\ Cardinality(B) \in Nat
  BY TotalIsNat DEF Total
<1>3. /\ Total(amount, R \cup S) = Cardinality(A \cup B)
      /\ Total(amount, R) = Cardinality(A)
      /\ Total(amount, S) = Cardinality(B)
  BY <1>1 DEF Total
<1>4. R \cap S = {} => A \cap B = {}
  BY DEF Units
<1> HIDE DEF A, B
<1>5. Cardinality(A \cup B) = Cardinality(A) + Cardinality(B) - Cardinality(A \cap B)
  BY <1>2, FS_Union
<1>6. Cardinality(A \cap B) \in Nat
  BY <1>2, FS_Intersection, FS_CardinalityType
<1>7. R \cap S = {} => Cardinality(A \cap B) = 0
  BY <1>4, FS_EmptySet
<1> QED
  BY <1>2, <1>3, <1>5, <1>6, <1>7

(* Replacing the amount of one record moves the total by the difference. *)
LEMMA TotalReplace ==
    ASSUME NEW f, NEW g, NEW S, IsFiniteSet(S), NEW e \in S,
           \A x \in S : f[x] \in Nat /\ g[x] \in Nat,
           \A x \in S \ {e} : f[x] = g[x]
    PROVE  Total(g, S) + f[e] = Total(f, S) + g[e]
<1> DEFINE R == S \ {e}
<1>1. IsFiniteSet(R) /\ S = R \cup {e} /\ e \notin R
  BY FS_RemoveElement
<1>2. Total(f, R) = Total(g, R)
  BY TotalSame
<1>3. Total(f, R \cup {e}) = Total(f, R) + f[e]
  BY <1>1, TotalAdd
<1>4. Total(g, R \cup {e}) = Total(g, R) + g[e]
  BY <1>1, TotalAdd
<1>5. Total(f, R) \in Nat /\ Total(g, R) \in Nat /\ f[e] \in Nat /\ g[e] \in Nat
  BY <1>1, TotalIsNat
<1>6. Total(f, S) = Total(f, R \cup {e}) /\ Total(g, S) = Total(g, R \cup {e})
  BY <1>1
<1> HIDE DEF R
<1> QED
  BY <1>2, <1>3, <1>4, <1>5, <1>6
(* A record that is added to a map or a sequence of records adds its amount
   to the sets it belongs to and leaves the totals of the others alone. *)
LEMMA TotalWithRecord ==
    ASSUME NEW old, NEW new, NEW e, e \notin DOMAIN old,
           IsFiniteSet(DOMAIN old),
           \A x \in DOMAIN old : old[x].amount \in Nat,
           DOMAIN new = DOMAIN old \cup {e},
           \A x \in DOMAIN old : new[x] = old[x],
           new[e].amount \in Nat,
           NEW S \in SUBSET DOMAIN old
    PROVE  /\ Total(Amounts(new), S) = Total(Amounts(old), S)
           /\ Total(Amounts(new), S \cup {e})
                 = Total(Amounts(old), S) + new[e].amount
           /\ Total(Amounts(old), S) \in Nat
<1>1. IsFiniteSet(S)
  BY FS_Subset
<1>2. /\ \A x \in S : Amounts(old)[x] = old[x].amount
      /\ \A x \in S \cup {e} : Amounts(new)[x] = new[x].amount
  BY DEF Amounts
<1>3. /\ \A x \in S : Amounts(new)[x] = Amounts(old)[x] /\ Amounts(old)[x] \in Nat
      /\ \A x \in S \cup {e} : Amounts(new)[x] \in Nat
      /\ Amounts(new)[e] = new[e].amount
  BY <1>2
<1>4. Total(Amounts(new), S) = Total(Amounts(old), S)
  BY <1>3, TotalSame
<1>5. Total(Amounts(new), S \cup {e}) = Total(Amounts(new), S) + Amounts(new)[e]
  BY <1>1, <1>3, TotalAdd
<1>6. Total(Amounts(old), S) \in Nat
  BY <1>1, <1>3, TotalIsNat
<1> QED
  BY <1>3, <1>4, <1>5, <1>6

-----------------------------------------------------------------------------
(* Induction. *)

(* A set of natural numbers that is not empty has a least element. *)
LEMMA LeastNatural ==
    ASSUME NEW T \in SUBSET Nat, T # {}
    PROVE  \E x \in T : \A y \in T : x <= y
<1> DEFINE R == OpToRel(<, Nat)
<1>1. IsWellFoundedOn(R, Nat)
  BY NatLessThanWellFounded, Zenon
<1>2. \A x, y \in Nat : <<y, x>> \in R <=> y < x
  BY DEF OpToRel
<1> HIDE DEF R
<1>3. PICK x \in T : \A y \in T : ~ (<<y, x>> \in R)
  BY <1>1, WFMin
<1>4. ASSUME NEW y \in T PROVE x <= y
  <2>1. x \in Nat /\ y \in Nat
    OBVIOUS
  <2>2. ~ (y < x)
    BY <1>2, <1>3, <2>1
  <2> QED
    BY <2>1, <2>2
<1> QED
  BY <1>4

(* What holds of 0 and passes from n to n + 1 holds of every natural number. *)
LEMMA Induction ==
    ASSUME NEW T, 0 \in T, \A n \in Nat : n \in T => n + 1 \in T
    PROVE  \A n \in Nat : n \in T
<1> DEFINE Bad == Nat \ T
<1> SUFFICES ASSUME Bad # {} PROVE FALSE
  OBVIOUS
<1>1. PICK x \in Bad : \A y \in Bad : x <= y
  <2> HIDE DEF Bad
  <2>1. Bad \in SUBSET Nat
    BY DEF Bad
  <2> QED BY <2>1, LeastNatural
<1>2. x # 0 /\ x - 1 \in Nat
  OBVIOUS
<1>3. x - 1 \in T
  BY <1>1, <1>2
<1>4. (x - 1) + 1 \in T
  BY <1>2, <1>3
<1> QED
  BY <1>4

(* The same up to a bound. *)
LEMMA InductionUpTo ==
    ASSUME NEW N \in Nat, NEW T, 0 \in T, \A n \in 1 .. N : n - 1 \in T => n \in T
    PROVE  \A n \in 0 .. N : n \in T
<1> DEFINE U == {n \in Nat : n <= N => n \in T}
<1>1. 0 \in U
  OBVIOUS
<1>2. ASSUME NEW n \in Nat, n \in U PROVE n + 1 \in U
  <2>1. CASE n + 1 <= N
    <3>1. n \in T /\ n + 1 \in 1 .. N /\ (n + 1) - 1 = n
      BY <1>2, <2>1
    <3> QED
      BY <3>1
  <2>2. CASE ~ (n + 1 <= N)
    BY <2>2
  <2> QED
    BY <2>1, <2>2
<1> HIDE DEF U
<1>3. \A n \in Nat : n \in U
  BY <1>1, <1>2, Induction
<1> QED
  BY <1>3 DEF U

(* A finite set of natural numbers that is not empty has a greatest element. *)
LEMMA GreatestNatural ==
    ASSUME NEW S \in SUBSET Nat, S # {}, IsFiniteSet(S)
    PROVE  \E x \in S : \A y \in S : x >= y
<1> DEFINE Good(A) == A # {} => \E x \in A : \A y \in A : x >= y
           T == {n \in Nat : \A A \in SUBSET Nat :
                    IsFiniteSet(A) /\ Cardinality(A) = n => Good(A)}
<1>1. 0 \in T
  <2> SUFFICES ASSUME NEW A \in SUBSET Nat, IsFiniteSet(A), Cardinality(A) = 0
               PROVE  Good(A)
    OBVIOUS
  <2> QED
    BY FS_EmptySet
<1>2. ASSUME NEW n \in Nat, n \in T PROVE n + 1 \in T
  <2> SUFFICES ASSUME NEW A \in SUBSET Nat, IsFiniteSet(A), Cardinality(A) = n + 1
               PROVE  Good(A)
    OBVIOUS
  <2> SUFFICES ASSUME A # {} PROVE \E x \in A : \A y \in A : x >= y
    OBVIOUS
  <2>1. PICK a \in A : TRUE
    OBVIOUS
  <2> DEFINE B == A \ {a}
  <2>2. IsFiniteSet(B) /\ Cardinality(B) = n
    <3>1. IsFiniteSet(B) /\ Cardinality(B) = Cardinality(A) - 1
      BY FS_RemoveElement
    <3> QED
      BY <3>1
  <2>3. Good(B)
    BY <1>2, <2>2
  <2>4. CASE B = {}
    BY <2>4
  <2>5. CASE B # {}
    <3>1. PICK b \in B : \A y \in B : b >= y
      BY <2>3, <2>5
    <3>2. CASE a >= b
      BY <3>1, <3>2
    <3>3. CASE ~ (a >= b)
      BY <3>1, <3>3
    <3> QED
      BY <3>2, <3>3
  <2> QED
    BY <2>4, <2>5
<1> HIDE DEF T
<1>3. \A n \in Nat : n \in T
  BY <1>1, <1>2, Induction
<1>4. Cardinality(S) \in T
  BY <1>3, FS_CardinalityType
<1>5. Good(S)
  BY <1>4 DEF T
<1> QED
  BY <1>5

StaysIn(S, step, N) == \A n \in 1 .. N : \A s \in S : step[n][s] \in S

IsRun(h, S, step, N, base) ==
    /\ h \in [0 .. N -> S]
    /\ h[0] = base
    /\ \A n \in 1 .. N : h[n] = step[n][h[n - 1]]

(* A loop that stays in S has a run: the states it passes through. *)
LEMMA LoopHasRun ==
    ASSUME NEW S, NEW N \in Nat, NEW base \in S, NEW step, StaysIn(S, step, N)
    PROVE  \E h : IsRun(h, S, step, N, base)
<1> DEFINE Runs(m) == {h \in [0 .. m -> S] :
                          h[0] = base /\ \A n \in 1 .. m : h[n] = step[n][h[n - 1]]}
           T == {m \in Nat : Runs(m) # {}}
<1>1. 0 \in T
  <2> DEFINE h == [n \in 0 .. 0 |-> base]
  <2>1. h \in [0 .. 0 -> S] /\ h[0] = base
    OBVIOUS
  <2>2. \A n \in 1 .. 0 : h[n] = step[n][h[n - 1]]
    OBVIOUS
  <2>3. h \in Runs(0)
    BY <2>1, <2>2
  <2> QED
    BY <2>3
<1>2. ASSUME NEW m \in 1 .. N, m - 1 \in T PROVE m \in T
  <2>1. PICK g \in [0 .. m - 1 -> S] :
            g[0] = base /\ \A n \in 1 .. m - 1 : g[n] = step[n][g[n - 1]]
    BY <1>2
  <2> DEFINE h == [n \in 0 .. m |-> IF n = m THEN step[m][g[m - 1]] ELSE g[n]]
  <2>2. g[m - 1] \in S
    OBVIOUS
  <2>3. h \in [0 .. m -> S]
    <3>1. step[m][g[m - 1]] \in S
      BY <2>2 DEF StaysIn
    <3>2. \A n \in 0 .. m : n # m => n \in 0 .. m - 1
      OBVIOUS
    <3> QED
      BY <3>1, <3>2
  <2>4. h[0] = base
    BY <2>1
  <2>5. ASSUME NEW n \in 1 .. m PROVE h[n] = step[n][h[n - 1]]
    <3>1. n - 1 \in 0 .. m - 1 /\ n - 1 # m /\ n - 1 \in 0 .. m /\ n \in 0 .. m
      OBVIOUS
    <3>2. h[n - 1] = g[n - 1]
      BY <3>1
    <3>3. CASE n = m
      BY <3>1, <3>2, <3>3
    <3>4. CASE n # m
      <4>1. n \in 1 .. m - 1
        BY <3>4
      <4>2. h[n] = g[n]
        BY <3>1, <3>4
      <4> QED
        BY <2>1, <3>2, <4>1, <4>2
    <3> QED
      BY <3>3, <3>4
  <2> HIDE DEF h
  <2>6. h \in Runs(m)
    BY <2>3, <2>4, <2>5
  <2> QED
    BY <2>6
<1> HIDE DEF T
<1>3. N \in T
  BY <1>1, <1>2, InductionUpTo
<1> QED
  BY <1>3 DEF T, IsRun
=============================================================================
