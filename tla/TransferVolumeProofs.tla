------------------------ MODULE TransferVolumeProofs ------------------------
(* The window budget of the limits keeper, for every choice of assets,       *)
(* limits, amounts and heights, as long as no window end wraps around.       *)
EXTENDS TransferVolume, TotalsProofs, SequenceTheorems

(* The transfers of an asset since its limit was set. *)
Since(a) == {i \in DOMAIN admitted : i > epoch[a] /\ admitted[i].asset = a}

(* None of them is beyond the end of the open window.  A window start of zero
   means that there were none, or all at height zero. *)
WithinWindow(a) ==
    \A i \in Since(a) :
        admitted[i].height <
            (IF usage[a].windowStart = 0 THEN 1
             ELSE usage[a].windowStart + limits[a].windowBlocks)

(* The usage record counts at least what was admitted in the window. *)
Counted(a) == Volume(a, usage[a].windowStart, MaxHeight) <= usage[a].usedAmount

(* FixedWindowBudget is not inductive by itself: that a new window starts
   empty rests on WithinWindow, and that a record which is kept is complete
   rests on Counted. *)
BudgetInv ==
    /\ TypeOK
    /\ \A a \in AssetIDs : usage[a].windowStart <= MaxHeight
    /\ \A a \in AssetIDs : limits[a] # NoLimit =>
           /\ limits[a] \in LimitChoices
           /\ WithinWindow(a)
    /\ \A a \in AssetIDs : Counted(a)
    /\ FixedWindowBudget

(* A history of transfers is finite and carries natural amounts. *)
LEMMA HistoryFinite ==
    ASSUME NEW hist \in Seq(Transfer)
    PROVE  /\ Len(hist) \in Nat
           /\ DOMAIN hist = 1 .. Len(hist)
           /\ IsFiniteSet(DOMAIN hist)
           /\ \A i \in DOMAIN hist : hist[i].amount \in Nat
           /\ \A i \in DOMAIN hist : hist[i].height \in Nat
<1>1. /\ Len(hist) \in Nat
      /\ DOMAIN hist = 1 .. Len(hist)
      /\ hist \in [1 .. Len(hist) -> Transfer]
  BY LenProperties
<1>2. IsFiniteSet(DOMAIN hist)
  BY <1>1, FS_Interval
<1>3. \A i \in DOMAIN hist : hist[i] \in Transfer
  BY <1>1
<1>4. \A i \in DOMAIN hist : hist[i].amount \in Nat
  BY <1>3, VolumeAssumption DEF Transfer
<1>5. \A i \in DOMAIN hist : hist[i].height \in Nat
  BY <1>3, MaxUint64Assumption DEF Transfer, Uint64
<1> QED
  BY <1>1, <1>2, <1>4, <1>5

(* That is so of the transfers that were let through. *)
LEMMA AdmittedFinite ==
    ASSUME TypeOK
    PROVE  /\ Len(admitted) \in Nat
           /\ DOMAIN admitted = 1 .. Len(admitted)
           /\ IsFiniteSet(DOMAIN admitted)
           /\ \A i \in DOMAIN admitted : admitted[i].amount \in Nat
           /\ \A i \in DOMAIN admitted : admitted[i].height \in Nat
<1>1. admitted \in Seq(Transfer)
  BY DEF TypeOK
<1> QED
  BY <1>1, HistoryFinite

(* A transfer that is let through is one more entry of the history. *)
LEMMA AdmitAppends ==
    ASSUME TypeOK, NEW a \in AssetIDs, NEW amount \in TransferAmounts,
           Admit(a, amount)
    PROVE  /\ Len(admitted) + 1 \notin DOMAIN admitted
           /\ DOMAIN admitted' = DOMAIN admitted \cup {Len(admitted) + 1}
           /\ \A i \in DOMAIN admitted : admitted'[i] = admitted[i]
           /\ admitted'[Len(admitted) + 1].asset = a
           /\ admitted'[Len(admitted) + 1].height = height
           /\ admitted'[Len(admitted) + 1].amount = amount
           /\ admitted' \in Seq(Transfer)
           /\ amount \in Nat
<1> DEFINE entry == [asset |-> a, height |-> height, amount |-> amount]
<1>1. amount \in Nat /\ height \in Uint64
  BY VolumeAssumption, MaxUint64Assumption DEF TypeOK, Uint64
<1>2. entry \in Transfer
  BY <1>1 DEF Transfer
<1>3. admitted' = Append(admitted, entry)
  BY DEF Admit
<1>4. entry.asset = a /\ entry.height = height /\ entry.amount = amount
  OBVIOUS
<1>5. Len(admitted) \in Nat /\ DOMAIN admitted = 1 .. Len(admitted)
  BY AdmittedFinite
<1> HIDE DEF entry
<1>6. /\ admitted' \in Seq(Transfer)
      /\ Len(admitted') = Len(admitted) + 1
      /\ \A i \in 1 .. Len(admitted) : admitted'[i] = admitted[i]
      /\ admitted'[Len(admitted) + 1] = entry
  BY <1>2, <1>3, AppendProperties DEF TypeOK
<1>7. DOMAIN admitted' = 1 .. (Len(admitted) + 1)
  BY <1>6, LenProperties
<1>8. DOMAIN admitted' = DOMAIN admitted \cup {Len(admitted) + 1}
  BY <1>5, <1>7
<1>9. Len(admitted) + 1 \notin DOMAIN admitted
  BY <1>5
<1> QED
  BY <1>1, <1>4, <1>5, <1>6, <1>8, <1>9

(* Every reachable state of the limits keeper is well typed. *)
THEOREM VolumeTypeCorrect == Spec => []TypeOK
<1>1. Init => TypeOK
  <2> SUFFICES ASSUME Init PROVE TypeOK
    OBVIOUS
  <2>1. LimitsTypeOK
    BY MaxUint64Assumption DEF Init, LimitsInit, LimitsTypeOK, WindowUsage, NoUsage, Uint64
  <2>2. admitted \in Seq(Transfer)
    BY EmptySeq DEF Init
  <2>3. height \in 0 .. MaxHeight /\ epoch \in [AssetIDs -> Nat]
    BY VolumeAssumption DEF Init, Uint64
  <2> QED
    BY <2>1, <2>2, <2>3 DEF TypeOK
<1>2. TypeOK /\ [Next]_vars => TypeOK'
  <2> SUFFICES ASSUME TypeOK, [Next]_vars PROVE TypeOK'
    OBVIOUS
  <2>1. ASSUME NEW a \in AssetIDs, NEW amount \in TransferAmounts, Admit(a, amount)
        PROVE  TypeOK'
    <3>1. amount \in Nat /\ height \in Uint64
      BY VolumeAssumption, MaxUint64Assumption DEF TypeOK, Uint64
    <3>2. usage[a] \in WindowUsage
      BY DEF TypeOK, LimitsTypeOK
    <3>3. ActiveUsage(limits[a], usage[a], height) \in WindowUsage
      BY <3>1, <3>2 DEF ActiveUsage, WindowUsage
    <3>4. RecordedUsage(a, amount, height) \in WindowUsage
      BY <3>1, <3>3 DEF RecordedUsage, WindowUsage
    <3>5. LimitsTypeOK'
      BY <2>1, <3>4 DEF Admit, RecordTransferAtHeight, TypeOK, LimitsTypeOK
    <3> QED
      BY <2>1, <3>5, AdmitAppends DEF Admit, TypeOK
  <2>2. ASSUME NEW a \in AssetIDs, NEW limit \in LimitChoices, ReplaceLimit(a, limit)
        PROVE  TypeOK'
    <3>1. Len(admitted) \in Nat
      BY AdmittedFinite
    <3> QED
      BY <2>2, <3>1 DEF ReplaceLimit, SetLimit, TypeOK, LimitsTypeOK
  <2>3. ASSUME NEW h \in 0 .. MaxHeight, SetCurrentHeight(h)
        PROVE  TypeOK'
    BY <2>3 DEF SetCurrentHeight, TypeOK, LimitsTypeOK
  <2>4. CASE UNCHANGED vars
    BY <2>4 DEF vars, TypeOK, LimitsTypeOK
  <2> QED
    BY <2>1, <2>2, <2>3, <2>4 DEF Next
<1> QED
  BY <1>1, <1>2, PTL DEF Spec

-----------------------------------------------------------------------------
(* The budget. *)

(* A total over transfers is a natural number. *)
LEMMA VolumeIsNat ==
    ASSUME NEW hist \in Seq(Transfer), NEW S \in SUBSET DOMAIN hist
    PROVE  /\ IsFiniteSet(S)
           /\ \A i \in S : Amounts(hist)[i] \in Nat
           /\ Total(Amounts(hist), S) \in Nat
<1>1. IsFiniteSet(S)
  BY HistoryFinite, FS_Subset
<1>2. \A i \in S : Amounts(hist)[i] \in Nat
  BY HistoryFinite DEF Amounts
<1> QED
  BY <1>1, <1>2, TotalIsNat

(* What an admitted transfer adds to the totals. *)
LEMMA AdmitTotals ==
    ASSUME TypeOK, NEW a \in AssetIDs, NEW amount \in TransferAmounts,
           Admit(a, amount), NEW S \in SUBSET DOMAIN admitted
    PROVE  /\ Total(Amounts(admitted'), S) = Total(Amounts(admitted), S)
           /\ Total(Amounts(admitted'), S \cup {Len(admitted) + 1})
                 = Total(Amounts(admitted), S) + amount
           /\ Total(Amounts(admitted), S) \in Nat
<1> DEFINE old == admitted
           new == admitted'
           k == Len(admitted) + 1
<1>1. DOMAIN new = DOMAIN old \cup {k} /\ k \notin DOMAIN old
  BY AdmitAppends
<1>2. \A i \in DOMAIN old : new[i] = old[i]
  BY AdmitAppends
<1>3. new[k].amount = amount /\ amount \in Nat
  BY AdmitAppends
<1>4. IsFiniteSet(DOMAIN old)
  BY AdmittedFinite
<1>5. \A i \in DOMAIN old : old[i].amount \in Nat
  BY AdmittedFinite
<1> HIDE DEF old, new, k
<1>6. ASSUME NEW R \in SUBSET DOMAIN old
      PROVE  /\ Total(Amounts(new), R) = Total(Amounts(old), R)
             /\ Total(Amounts(new), R \cup {k}) = Total(Amounts(old), R) + new[k].amount
             /\ Total(Amounts(old), R) \in Nat
  <2>1. DOMAIN new = DOMAIN old \cup {k}
    BY <1>1
  <2>2. k \notin DOMAIN old
    BY <1>1
  <2>3. new[k].amount \in Nat
    BY <1>3
  <2> QED
    BY <1>2, <1>4, <1>5, <2>1, <2>2, <2>3, TotalWithRecord
<1>7. S \in SUBSET DOMAIN old
  BY DEF old
<1> QED
  BY <1>3, <1>6, <1>7 DEF old, new, k

(* How the usage record moves: the window is kept, and the transfer is inside
   it, or it is over, and a new one starts with this transfer. *)
LEMMA RecordedCases ==
    ASSUME NoWrap, BudgetInv, NEW a \in AssetIDs, NEW amount \in TransferAmounts,
           Admit(a, amount)
    PROVE  /\ limits[a] # NoLimit
           /\ limits[a].maxAmount \in Nat /\ limits[a].windowBlocks \in Nat \ {0}
           /\ usage[a].windowStart \in Nat /\ usage[a].usedAmount \in Nat
           /\ usage' = [usage EXCEPT ![a] = usage'[a]]
           /\ usage'[a].usedAmount <= limits[a].maxAmount
           /\ \/ /\ usage[a].windowStart # 0 =>
                        height < usage[a].windowStart + limits[a].windowBlocks
                 /\ usage'[a].windowStart
                       = (IF usage[a].windowStart = 0 THEN height
                          ELSE usage[a].windowStart)
                 /\ usage'[a].usedAmount = usage[a].usedAmount + amount
              \/ /\ usage[a].windowStart # 0
                 /\ height >= usage[a].windowStart + limits[a].windowBlocks
                 /\ usage'[a].windowStart = height
                 /\ usage'[a].usedAmount = amount
<1> DEFINE u == usage[a]
           L == limits[a]
<1>1. /\ RecordTransferAtHeight(a, amount, height)
      /\ CheckTransferAtHeight(a, amount, height)
      /\ L # NoLimit
  BY DEF Admit, RecordTransferAtHeight, CheckTransferAtHeight
<1>2. L \in LimitChoices /\ L \in RateLimit
  BY <1>1, VolumeAssumption DEF BudgetInv
<1>3. L.maxAmount \in Nat /\ L.windowBlocks \in Nat \ {0}
  BY <1>2, MaxUint64Assumption DEF RateLimit, Uint64
<1>4. u \in WindowUsage /\ usage \in [AssetIDs -> WindowUsage]
  BY DEF BudgetInv, TypeOK, LimitsTypeOK
<1>5. u.windowStart \in Nat /\ u.usedAmount \in Nat /\ u.windowStart <= MaxHeight
  BY <1>4, MaxUint64Assumption DEF WindowUsage, Uint64, BudgetInv
<1>6. AddUint64(u.windowStart, L.windowBlocks) = u.windowStart + L.windowBlocks
  <2>1. MaxHeight \in Nat /\ MaxUint64 \in Nat
    BY VolumeAssumption, MaxUint64Assumption DEF Uint64
  <2>2. MaxHeight + L.windowBlocks <= MaxUint64
    BY <1>2 DEF NoWrap
  <2> HIDE DEF u, L
  <2> QED
    BY <1>3, <1>5, <2>1, <2>2 DEF AddUint64
<1>7. amount \in Nat /\ height \in Nat
  BY VolumeAssumption, AdmitAppends DEF BudgetInv, TypeOK
<1>8. usage' = [usage EXCEPT ![a] = RecordedUsage(a, amount, height)]
  BY <1>1 DEF RecordTransferAtHeight
<1>9. usage'[a] = RecordedUsage(a, amount, height)
  BY <1>4, <1>8
<1>10. CASE u.windowStart # 0 /\ height >= u.windowStart + L.windowBlocks
  <2>1. ActiveUsage(L, u, height) = [windowStart |-> height, usedAmount |-> 0]
    BY <1>6, <1>10 DEF ActiveUsage
  <2>2. /\ usage'[a].windowStart = height
        /\ usage'[a].usedAmount = amount
    BY <1>7, <1>9, <2>1 DEF RecordedUsage
  <2>3. amount <= L.maxAmount
    BY <1>1, <1>7, <2>1 DEF CheckTransferAtHeight
  <2> QED
    BY <1>1, <1>3, <1>5, <1>8, <1>9, <1>10, <2>2, <2>3
<1>11. CASE ~(u.windowStart # 0 /\ height >= u.windowStart + L.windowBlocks)
  <2>1. ActiveUsage(L, u, height) = u
    BY <1>6, <1>11 DEF ActiveUsage
  <2>2. /\ usage'[a].windowStart = (IF u.windowStart = 0 THEN height ELSE u.windowStart)
        /\ usage'[a].usedAmount = u.usedAmount + amount
    BY <1>9, <2>1 DEF RecordedUsage
  <2>3. u.usedAmount + amount <= L.maxAmount
    BY <1>1, <2>1 DEF CheckTransferAtHeight
  <2>4. u.windowStart # 0 => height < u.windowStart + L.windowBlocks
    BY <1>3, <1>5, <1>7, <1>11
  <2> QED
    BY <1>1, <1>3, <1>5, <1>8, <1>9, <2>2, <2>3, <2>4
<1> QED
  BY <1>10, <1>11

(* A transfer that is let through keeps the budget of its asset and does not
   touch that of the others. *)
LEMMA AdmitKeepsBudget ==
    ASSUME NoWrap, BudgetInv, TypeOK', NEW a \in AssetIDs,
           NEW amount \in TransferAmounts, Admit(a, amount)
    PROVE  BudgetInv'
<1> DEFINE k == Len(admitted) + 1
           Start(b) == usage[b].windowStart
           Old(b) == {i \in DOMAIN admitted : /\ i > epoch[b]
                                              /\ admitted[i].asset = b
                                              /\ admitted[i].height \in Start(b) .. MaxHeight}
           New(b) == {i \in DOMAIN admitted' : /\ i > epoch[b]
                                               /\ admitted'[i].asset = b
                                               /\ admitted'[i].height
                                                     \in usage'[b].windowStart .. MaxHeight}
<1>1. TypeOK /\ limits' = limits /\ epoch' = epoch /\ height' = height
  BY DEF BudgetInv, Admit, RecordTransferAtHeight
<1>2. admitted \in Seq(Transfer) /\ admitted' \in Seq(Transfer)
  BY <1>1 DEF TypeOK
<1>3. /\ DOMAIN admitted' = DOMAIN admitted \cup {k} /\ k \notin DOMAIN admitted
      /\ \A i \in DOMAIN admitted : admitted'[i] = admitted[i]
      /\ admitted'[k].asset = a /\ admitted'[k].height = height
      /\ amount \in Nat
  BY <1>1, AdmitAppends
<1>4. /\ height \in Nat /\ height <= MaxHeight /\ MaxHeight \in Nat
      /\ \A i \in DOMAIN admitted : admitted[i].height \in Nat
  BY <1>1, AdmittedFinite, VolumeAssumption DEF TypeOK, Uint64
<1>5. /\ \A b \in AssetIDs : b # a => usage'[b] = usage[b]
      /\ usage'[a].windowStart \in Nat /\ usage'[a].windowStart <= MaxHeight
  <2>1. usage' = [usage EXCEPT ![a] = usage'[a]] /\ usage \in [AssetIDs -> WindowUsage]
    BY <1>1, RecordedCases DEF TypeOK, LimitsTypeOK
  <2>2. usage[a].windowStart <= MaxHeight
    BY DEF BudgetInv
  <2> QED
    BY <1>4, <2>1, <2>2, RecordedCases
<1>6. /\ \A b \in AssetIDs : Volume(b, usage[b].windowStart, MaxHeight)
                                = Total(Amounts(admitted), Old(b))
      /\ \A b \in AssetIDs : Volume(b, usage[b].windowStart, MaxHeight)'
                                = Total(Amounts(admitted'), New(b))
  BY <1>1 DEF Volume, TransfersIn
<1>7. \A b \in AssetIDs : Old(b) \in SUBSET DOMAIN admitted
  OBVIOUS
<1>8. ASSUME NEW b \in AssetIDs, b # a
      PROVE  /\ Volume(b, usage[b].windowStart, MaxHeight)'
                   = Volume(b, usage[b].windowStart, MaxHeight)
             /\ (limits[b] # NoLimit => WithinWindow(b)')
  <2>1. New(b) = Old(b)
    BY <1>3, <1>5, <1>8
  <2>2. Total(Amounts(admitted'), Old(b)) = Total(Amounts(admitted), Old(b))
    BY <1>1, <1>7, AdmitTotals
  <2>3. Volume(b, usage[b].windowStart, MaxHeight)'
            = Volume(b, usage[b].windowStart, MaxHeight)
    BY <1>6, <2>1, <2>2
  <2>4. \A i \in Since(b)' : i \in Since(b) /\ admitted'[i] = admitted[i]
    BY <1>1, <1>3, <1>8 DEF Since
  <2>5. limits[b] # NoLimit => WithinWindow(b)'
    <3>1. limits[b] # NoLimit => WithinWindow(b)
      BY DEF BudgetInv
    <3> QED
      BY <1>1, <1>5, <1>8, <2>4, <3>1 DEF WithinWindow
  <2> QED
    BY <2>3, <2>5
<1>9. WithinWindow(a)
  BY RecordedCases DEF BudgetInv
<1>10. WithinWindow(a)'
  <2> SUFFICES ASSUME NEW i \in Since(a)'
               PROVE  admitted'[i].height <
                         (IF usage'[a].windowStart = 0 THEN 1
                          ELSE usage'[a].windowStart + limits[a].windowBlocks)
    BY <1>1 DEF WithinWindow
  <2>1. CASE i = k
    BY <1>3, <1>4, <1>5, <2>1, RecordedCases
  <2>2. CASE i \in DOMAIN admitted
    <3>1. i \in Since(a) /\ admitted'[i].height = admitted[i].height
      BY <1>1, <1>3, <2>2 DEF Since
    <3>2. admitted[i].height < (IF usage[a].windowStart = 0 THEN 1
                                ELSE usage[a].windowStart + limits[a].windowBlocks)
      BY <1>9, <3>1 DEF WithinWindow
    <3>3. admitted[i].height \in Nat
      BY <1>4, <2>2
    <3> QED
      BY <1>4, <3>1, <3>2, <3>3, RecordedCases
  <2> QED
    BY <1>3, <2>1, <2>2 DEF Since
<1>11. Volume(a, usage[a].windowStart, MaxHeight)' <= usage'[a].usedAmount
  <2> DEFINE Kept == {i \in Old(a) : admitted[i].height >= usage'[a].windowStart}
  <2>1. Kept \in SUBSET Old(a)
    OBVIOUS
  <2>2. New(a) \in SUBSET (Kept \cup {k})
    <3> SUFFICES ASSUME NEW i \in New(a), i # k PROVE i \in Kept
      OBVIOUS
    <3>1. /\ i \in DOMAIN admitted /\ i > epoch[a] /\ admitted[i].asset = a
          /\ admitted[i].height \in usage'[a].windowStart .. MaxHeight
      BY <1>3
    <3>2. usage[a].windowStart <= usage'[a].windowStart
      BY <1>4, <1>5, RecordedCases
    <3>3. usage[a].windowStart \in Nat
      BY RecordedCases
    <3>4. admitted[i].height \in Start(a) .. MaxHeight /\ admitted[i].height >= usage'[a].windowStart
      BY <1>4, <1>5, <3>1, <3>2, <3>3
    <3> QED
      BY <3>1, <3>4
  <2>3. /\ Total(Amounts(admitted'), Kept \cup {k}) = Total(Amounts(admitted), Kept) + amount
        /\ Total(Amounts(admitted), Kept) \in Nat
    BY <1>1, <1>7, <2>1, AdmitTotals
  <2>4. /\ IsFiniteSet(Kept \cup {k})
        /\ \A i \in Kept \cup {k} : Amounts(admitted')[i] \in Nat
    <3>1. Kept \cup {k} \in SUBSET DOMAIN admitted'
      BY <1>3
    <3> HIDE DEF Kept, k
    <3> QED
      BY <1>2, <3>1, VolumeIsNat
  <2>5. Total(Amounts(admitted'), New(a)) <= Total(Amounts(admitted), Kept) + amount
    <3> HIDE DEF Kept, New, k
    <3> QED
      BY <2>2, <2>3, <2>4, TotalOfSubset
  <2>6. Total(Amounts(admitted), Kept) + amount <= usage'[a].usedAmount
    <3>1. CASE usage'[a].usedAmount = usage[a].usedAmount + amount
      <4>1. Total(Amounts(admitted), Kept) <= Total(Amounts(admitted), Old(a))
        <5>1. IsFiniteSet(Old(a)) /\ \A i \in Old(a) : Amounts(admitted)[i] \in Nat
          BY <1>7, <1>2, VolumeIsNat
        <5> HIDE DEF Kept, Old
        <5> QED
          BY <2>1, <5>1, TotalOfSubset
      <4>2. Total(Amounts(admitted), Old(a)) <= usage[a].usedAmount
        BY <1>6 DEF BudgetInv, Counted
      <4>3. Total(Amounts(admitted), Old(a)) \in Nat
        BY <1>7, <1>2, VolumeIsNat
      <4> HIDE DEF Kept, Old
      <4> QED
        BY <1>3, <2>3, <3>1, <4>1, <4>2, <4>3, RecordedCases
    <3>2. CASE /\ usage[a].windowStart # 0
               /\ height >= usage[a].windowStart + limits[a].windowBlocks
               /\ usage'[a].windowStart = height
               /\ usage'[a].usedAmount = amount
      <4>1. \A i \in Old(a) : i \in Since(a) /\ admitted[i].height \in Nat
        BY <1>4 DEF Since
      <4>2. \A i \in Old(a) :
                admitted[i].height < usage[a].windowStart + limits[a].windowBlocks
        BY <1>9, <3>2, <4>1 DEF WithinWindow
      <4>3. \A i \in Old(a) : ~(admitted[i].height >= usage'[a].windowStart)
        <5>1. limits[a].windowBlocks \in Nat /\ usage[a].windowStart \in Nat
          BY RecordedCases
        <5> HIDE DEF Old
        <5> QED
          BY <1>4, <3>2, <4>1, <4>2, <5>1
      <4>4. Kept = {}
        BY <4>3
      <4>5. Total(Amounts(admitted), Kept) = 0
        <5> HIDE DEF Kept
        <5> QED
          BY <4>4, TotalOfNone
      <4> HIDE DEF Kept
      <4> QED
        BY <1>3, <3>2, <4>5
    <3> QED
      BY <3>1, <3>2, RecordedCases
  <2>7. Total(Amounts(admitted'), New(a)) \in Nat
    <3>1. New(a) \in SUBSET DOMAIN admitted'
      OBVIOUS
    <3> QED
      BY <1>2, <3>1, VolumeIsNat
  <2>8. usage'[a].usedAmount \in Nat
    BY <1>3, RecordedCases
  <2> HIDE DEF Kept, New, k
  <2> QED
    BY <1>3, <1>6, <2>3, <2>5, <2>6, <2>7, <2>8
<1>12. \A b \in AssetIDs : Counted(b)'
  <2>1. Counted(a)'
    BY <1>11 DEF Counted
  <2>2. ASSUME NEW b \in AssetIDs, b # a PROVE Counted(b)'
    BY <1>5, <1>8, <2>2 DEF BudgetInv, Counted
  <2> QED
    BY <2>1, <2>2
<1>13. FixedWindowBudget'
  <2>1. Volume(a, usage[a].windowStart, MaxHeight)' <= limits[a].maxAmount
    <3>1. Volume(a, usage[a].windowStart, MaxHeight)' \in Nat
      <4>1. New(a) \in SUBSET DOMAIN admitted'
        OBVIOUS
      <4> QED
        BY <1>6, <1>2, <4>1, VolumeIsNat
    <3>2. usage'[a].usedAmount \in Nat
      BY <1>3, RecordedCases
    <3> QED
      BY <1>11, <3>1, <3>2, RecordedCases
  <2>2. ASSUME NEW b \in AssetIDs, b # a, limits[b] # NoLimit
        PROVE  Volume(b, usage[b].windowStart, MaxHeight)' <= limits[b].maxAmount
    BY <1>8, <2>2 DEF BudgetInv, FixedWindowBudget
  <2> QED
    BY <1>1, <2>1, <2>2 DEF FixedWindowBudget
<1>14. \A b \in AssetIDs : usage'[b].windowStart <= MaxHeight
  BY <1>5 DEF BudgetInv
<1> QED
  BY <1>1, <1>8, <1>10, <1>12, <1>13, <1>14 DEF BudgetInv

(* A limit that is set starts an empty history. *)
LEMMA ReplaceKeepsBudget ==
    ASSUME BudgetInv, TypeOK', NEW a \in AssetIDs, NEW limit \in LimitChoices,
           ReplaceLimit(a, limit)
    PROVE  BudgetInv'
<1>1. /\ TypeOK /\ usage' = usage /\ admitted' = admitted
      /\ limits' = [limits EXCEPT ![a] = limit]
      /\ epoch' = [epoch EXCEPT ![a] = Len(admitted)]
  BY DEF BudgetInv, ReplaceLimit, SetLimit
<1>2. /\ limits'[a] = limit /\ epoch'[a] = Len(admitted)
      /\ \A b \in AssetIDs : b # a => limits'[b] = limits[b] /\ epoch'[b] = epoch[b]
  BY <1>1 DEF TypeOK, LimitsTypeOK
<1>3. \A i \in DOMAIN admitted : ~(i > Len(admitted))
  BY <1>1, AdmittedFinite
<1>4. Since(a)' = {} /\ \A from, to \in Int : TransfersIn(a, from, to)' = {}
  BY <1>1, <1>2, <1>3 DEF Since, TransfersIn
<1>5. /\ usage[a].windowStart \in Int /\ MaxHeight \in Int
      /\ usage[a].usedAmount \in Nat
      /\ limit.maxAmount \in Nat
  BY <1>1, VolumeAssumption, MaxUint64Assumption
     DEF TypeOK, LimitsTypeOK, WindowUsage, Uint64, RateLimit
<1>6. Volume(a, usage[a].windowStart, MaxHeight)' = 0
  <2>1. TransfersIn(a, usage[a].windowStart, MaxHeight)' = {}
    BY <1>1, <1>4, <1>5 DEF TransfersIn
  <2> QED
    BY <2>1, TotalOfNone DEF Volume
<1>7. ASSUME NEW b \in AssetIDs, b # a
      PROVE  /\ Volume(b, usage[b].windowStart, MaxHeight)'
                   = Volume(b, usage[b].windowStart, MaxHeight)
             /\ WithinWindow(b)' <=> WithinWindow(b)
  BY <1>1, <1>2, <1>7 DEF Volume, TransfersIn, WithinWindow, Since
<1>8. \A b \in AssetIDs : Counted(b)'
  BY <1>1, <1>5, <1>6, <1>7 DEF Counted, BudgetInv
<1>9. FixedWindowBudget'
  BY <1>2, <1>5, <1>6, <1>7 DEF FixedWindowBudget, BudgetInv
<1>10. WithinWindow(a)'
  BY <1>4 DEF WithinWindow
<1> QED
  BY <1>1, <1>2, <1>7, <1>8, <1>9, <1>10 DEF BudgetInv

(* The budget holds before the first transfer. *)
LEMMA InitKeepsBudget ==
    ASSUME Init, TypeOK
    PROVE  BudgetInv
<1>1. /\ \A a \in AssetIDs : limits[a] = NoLimit /\ usage[a] = NoUsage
      /\ DOMAIN admitted = {}
  BY DEF Init, LimitsInit
<1>2. ASSUME NEW a \in AssetIDs PROVE Counted(a)
  <2>1. TransfersIn(a, usage[a].windowStart, MaxHeight) = {}
    BY <1>1 DEF TransfersIn
  <2>2. Volume(a, usage[a].windowStart, MaxHeight) = 0
    BY <2>1, TotalOfNone DEF Volume
  <2> QED
    BY <1>1, <2>2 DEF Counted, NoUsage
<1>3. FixedWindowBudget
  BY <1>1 DEF FixedWindowBudget
<1>4. \A a \in AssetIDs : usage[a].windowStart <= MaxHeight
  <2>1. 0 <= MaxHeight
    BY VolumeAssumption, MaxUint64Assumption DEF Uint64
  <2>2. NoUsage.windowStart = 0
    BY DEF NoUsage
  <2> QED
    BY <1>1, <2>1, <2>2
<1> QED
  BY <1>1, <1>2, <1>3, <1>4 DEF BudgetInv

(* No step breaks it. *)
LEMMA StepKeepsBudget ==
    ASSUME NoWrap, BudgetInv, TypeOK', [Next]_vars
    PROVE  BudgetInv'
<1>1. ASSUME NEW a \in AssetIDs, NEW amount \in TransferAmounts, Admit(a, amount)
      PROVE  BudgetInv'
  BY <1>1, AdmitKeepsBudget
<1>2. ASSUME NEW a \in AssetIDs, NEW limit \in LimitChoices, ReplaceLimit(a, limit)
      PROVE  BudgetInv'
  BY <1>2, ReplaceKeepsBudget
<1>3. ASSUME UNCHANGED <<limits, usage, admitted, epoch>>
      PROVE  BudgetInv'
  BY <1>3 DEF BudgetInv, Counted, WithinWindow, Since, FixedWindowBudget, Volume,
              TransfersIn
<1> QED
  BY <1>1, <1>2, <1>3 DEF Next, SetCurrentHeight, vars

(* In the window that is open, what was let through stays within the limit. *)
THEOREM WindowBudgetHolds ==
    ASSUME NoWrap
    PROVE  Spec => []FixedWindowBudget
<1>1. Init /\ TypeOK => BudgetInv
  BY InitKeepsBudget
<1>2. BudgetInv /\ TypeOK' /\ [Next]_vars => BudgetInv'
  BY StepKeepsBudget
<1>3. BudgetInv => FixedWindowBudget
  BY DEF BudgetInv
<1> QED
  BY <1>1, <1>2, <1>3, VolumeTypeCorrect, PTL DEF Spec

-----------------------------------------------------------------------------
(* The sliding budget. *)

(* A window starts at the height of a transfer. *)
StartedByTransfer(a) ==
    usage[a].windowStart # 0 =>
        \E i \in DOMAIN admitted : admitted[i].height = usage[a].windowStart

(* Of the heights that can share windowBlocks consecutive ones with the open
   window, those before it let through no more than one limit. *)
LastWindowBudget(a) ==
    \A from \in 0 .. MaxHeight :
        from + limits[a].windowBlocks > usage[a].windowStart =>
            Volume(a, from, usage[a].windowStart - 1) <= limits[a].maxAmount

AnyWindowBudget(a) ==
    \A from \in 0 .. MaxHeight :
        Volume(a, from, from + limits[a].windowBlocks - 1) <= 2 * limits[a].maxAmount

(* TwoWindowBudget is not inductive by itself: that a stretch of heights which
   reaches into the open window stays within two limits rests on
   FixedWindowBudget for the heights in the window and on LastWindowBudget for
   those before it; that a later transfer adds nothing before the window rests
   on StartedByTransfer, as heights grow. *)
SlidingInv ==
    /\ BudgetInv
    /\ \A i \in DOMAIN admitted : admitted[i].height <= MaxHeight
    /\ \A a \in AssetIDs : StartedByTransfer(a)
    /\ HeightsGrew =>
          \A a \in AssetIDs :
              limits[a] # NoLimit => LastWindowBudget(a) /\ AnyWindowBudget(a)

(* Transfers that two windows account for stay within two limits. *)
LEMMA TwoWindowsSuffice ==
    ASSUME NEW hist \in Seq(Transfer), NEW max \in Nat,
           NEW R \in SUBSET DOMAIN hist, Total(Amounts(hist), R) <= max,
           NEW S \in SUBSET DOMAIN hist, Total(Amounts(hist), S) <= max,
           NEW U \in SUBSET (R \cup S)
    PROVE  Total(Amounts(hist), U) <= 2 * max
<1>1. /\ IsFiniteSet(R) /\ IsFiniteSet(S) /\ IsFiniteSet(R \cup S)
      /\ \A i \in R \cup S : Amounts(hist)[i] \in Nat
      /\ Total(Amounts(hist), R) \in Nat /\ Total(Amounts(hist), S) \in Nat
      /\ Total(Amounts(hist), R \cup S) \in Nat
  <2>1. R \cup S \in SUBSET DOMAIN hist
    OBVIOUS
  <2> QED
    BY <2>1, VolumeIsNat
<1>2. Total(Amounts(hist), U) \in Nat
  <2>1. U \in SUBSET DOMAIN hist
    OBVIOUS
  <2> QED
    BY <2>1, VolumeIsNat
<1>3. Total(Amounts(hist), R \cup S) <= Total(Amounts(hist), R) + Total(Amounts(hist), S)
  BY <1>1, TotalOfUnion
<1>4. Total(Amounts(hist), U) <= Total(Amounts(hist), R \cup S)
  BY <1>1, TotalOfSubset
<1> QED
  BY <1>1, <1>2, <1>3, <1>4

(* A transfer that is let through at a height no smaller than the last keeps
   the sliding budget of its asset and does not touch that of the others. *)
LEMMA AdmitKeepsSliding ==
    ASSUME NoWrap, SlidingInv, BudgetInv', NEW a \in AssetIDs,
           NEW amount \in TransferAmounts, Admit(a, amount)
    PROVE  SlidingInv'
<1> DEFINE k == Len(admitted) + 1
           Old(b, from, to) == {i \in DOMAIN admitted : /\ i > epoch[b]
                                                        /\ admitted[i].asset = b
                                                        /\ admitted[i].height \in from .. to}
           New(b, from, to) == {i \in DOMAIN admitted' : /\ i > epoch[b]
                                                         /\ admitted'[i].asset = b
                                                         /\ admitted'[i].height \in from .. to}
           w == limits[a].windowBlocks
           max == limits[a].maxAmount
           s == usage[a].windowStart
           t == usage'[a].windowStart
<1>1. /\ TypeOK /\ TypeOK' /\ BudgetInv
      /\ limits' = limits /\ epoch' = epoch /\ height' = height
  BY DEF SlidingInv, BudgetInv, Admit, RecordTransferAtHeight
<1>2. admitted \in Seq(Transfer) /\ admitted' \in Seq(Transfer)
  BY <1>1 DEF TypeOK
<1>3. /\ DOMAIN admitted' = DOMAIN admitted \cup {k} /\ k \notin DOMAIN admitted
      /\ \A i \in DOMAIN admitted : admitted'[i] = admitted[i]
      /\ admitted'[k].asset = a /\ admitted'[k].height = height
      /\ amount \in Nat
  BY <1>1, AdmitAppends
<1>4. /\ height \in Nat /\ height <= MaxHeight /\ MaxHeight \in Nat
      /\ \A i \in DOMAIN admitted : admitted[i].height \in Nat /\ i < k
  <2>1. /\ Len(admitted) \in Nat /\ DOMAIN admitted = 1 .. Len(admitted)
        /\ \A i \in DOMAIN admitted : admitted[i].height \in Nat
    BY <1>1, AdmittedFinite
  <2>2. height \in 0 .. MaxHeight /\ MaxHeight \in Nat
    BY <1>1, VolumeAssumption, MaxUint64Assumption DEF TypeOK, Uint64
  <2> QED
    BY <2>1, <2>2
<1>5. \A b \in AssetIDs : b # a => usage'[b] = usage[b]
  <2>1. usage' = [usage EXCEPT ![a] = usage'[a]] /\ usage \in [AssetIDs -> WindowUsage]
    BY <1>1, RecordedCases DEF TypeOK, LimitsTypeOK
  <2> QED
    BY <2>1
<1>6. /\ s \in Nat /\ t \in Nat /\ w \in Nat \ {0} /\ max \in Nat
      /\ limits[a] # NoLimit
  BY <1>1, <1>4, RecordedCases
<1>7. /\ \A b \in AssetIDs : \A from, to \in Int :
            Volume(b, from, to) = Total(Amounts(admitted), Old(b, from, to))
      /\ \A b \in AssetIDs : \A from, to \in Int :
            Old(b, from, to) \in SUBSET DOMAIN admitted
      /\ \A b \in AssetIDs : \A from, to \in Int :
            New(b, from, to) \in SUBSET DOMAIN admitted'
  BY DEF Volume, TransfersIn
<1>8. /\ s # 0 => t = s \/ (s + w <= height /\ t = height)
      /\ s = 0 => t = height
      /\ t = s \/ t = height
  BY <1>1, <1>4, RecordedCases
<1>9. \A i \in DOMAIN admitted' : admitted'[i].height <= MaxHeight
  BY <1>3, <1>4 DEF SlidingInv
<1>10. \A b \in AssetIDs : StartedByTransfer(b)'
  <2> SUFFICES ASSUME NEW b \in AssetIDs, usage'[b].windowStart # 0
               PROVE  \E i \in DOMAIN admitted' :
                          admitted'[i].height = usage'[b].windowStart
    BY DEF StartedByTransfer
  <2>1. CASE usage'[b].windowStart = usage[b].windowStart
    BY <1>3, <2>1 DEF SlidingInv, StartedByTransfer
  <2>2. CASE usage'[b].windowStart # usage[b].windowStart
    <3>1. b = a /\ t = height
      BY <1>5, <1>8, <2>2
    <3> QED
      BY <1>3, <3>1
  <2> QED
    BY <2>1, <2>2
<1>11. ASSUME HeightsGrew'
       PROVE  /\ HeightsGrew
              /\ t <= height
  <2>1. /\ \A i, j \in DOMAIN admitted : i <= j => admitted[i].height <= admitted[j].height
        /\ \A i \in DOMAIN admitted : admitted[i].height <= height
    <3>1. k \in DOMAIN admitted' /\ k \in Nat
      BY <1>1, <1>3, AdmittedFinite
    <3>2. \A i \in DOMAIN admitted : i \in Nat /\ i <= k
      BY <1>1, AdmittedFinite
    <3> HIDE DEF k
    <3> QED
      BY <1>3, <1>11, <3>1, <3>2 DEF HeightsGrew
  <2>2. s # 0 => s <= height
    <3>1. StartedByTransfer(a)
      BY DEF SlidingInv
    <3> QED
      BY <2>1, <3>1 DEF StartedByTransfer
  <2> QED
    BY <1>4, <1>8, <2>1, <2>2 DEF HeightsGrew
<1>12. ASSUME NEW b \in AssetIDs, NEW from \in Int, NEW to \in Int,
              b # a \/ to < height
       PROVE  /\ New(b, from, to) = Old(b, from, to)
              /\ Total(Amounts(admitted'), New(b, from, to))
                    = Total(Amounts(admitted), Old(b, from, to))
  <2>1. New(b, from, to) = Old(b, from, to)
    BY <1>3, <1>4, <1>12
  <2>2. Old(b, from, to) \in SUBSET DOMAIN admitted
    BY <1>7
  <2> QED
    BY <1>1, <2>1, <2>2, AdmitTotals
<1>13. ASSUME NEW b \in AssetIDs, b # a, HeightsGrew', limits[b] # NoLimit
       PROVE  LastWindowBudget(b)' /\ AnyWindowBudget(b)'
  <2>1. LastWindowBudget(b) /\ AnyWindowBudget(b)
    BY <1>11, <1>13 DEF SlidingInv
  <2>2. usage'[b] = usage[b] /\ limits'[b] = limits[b]
    BY <1>1, <1>5, <1>13
  <2>3. usage[b].windowStart - 1 \in Int /\ limits[b].windowBlocks \in Int
    BY <1>1, <1>13, MaxUint64Assumption
       DEF TypeOK, LimitsTypeOK, WindowUsage, RateLimit, Uint64
  <2>4. \A from, to \in Int :
            Total(Amounts(admitted'), New(b, from, to)) = Volume(b, from, to)
    <3> HIDE DEF Old, New
    <3> QED
      BY <1>7, <1>12, <1>13
  <2>5. LastWindowBudget(b)'
    <3> SUFFICES ASSUME NEW from \in 0 .. MaxHeight,
                        from + limits[b].windowBlocks > usage[b].windowStart
                 PROVE  Total(Amounts(admitted'), New(b, from, usage[b].windowStart - 1))
                            <= limits[b].maxAmount
      BY <1>1, <2>2 DEF LastWindowBudget, Volume, TransfersIn
    <3>1. Volume(b, from, usage[b].windowStart - 1) <= limits[b].maxAmount
      BY <2>1 DEF LastWindowBudget
    <3> HIDE DEF New
    <3> QED
      BY <2>3, <2>4, <3>1
  <2>6. AnyWindowBudget(b)'
    <3> SUFFICES ASSUME NEW from \in 0 .. MaxHeight
                 PROVE  Total(Amounts(admitted'), New(b, from, from + limits[b].windowBlocks - 1))
                            <= 2 * limits[b].maxAmount
      BY <1>1, <2>2 DEF AnyWindowBudget, Volume, TransfersIn
    <3>1. Volume(b, from, from + limits[b].windowBlocks - 1) <= 2 * limits[b].maxAmount
      BY <2>1 DEF AnyWindowBudget
    <3>2. from + limits[b].windowBlocks - 1 \in Int /\ from \in Int
      BY <1>4, <2>3
    <3> HIDE DEF New
    <3> QED
      BY <2>4, <3>1, <3>2
  <2> QED
    BY <2>5, <2>6
<1>14. ASSUME HeightsGrew', NEW from \in 0 .. MaxHeight, from + w > t
       PROVE  Total(Amounts(admitted'), New(a, from, t - 1)) <= max
  <2>1. /\ from \in Int /\ t - 1 \in Int /\ s - 1 \in Int /\ MaxHeight \in Int /\ s \in Int
        /\ t - 1 < height
    BY <1>4, <1>6, <1>11, <1>14
  <2>2. Total(Amounts(admitted'), New(a, from, t - 1))
            = Total(Amounts(admitted), Old(a, from, t - 1))
    BY <1>12, <2>1
  <2>3. CASE t = s /\ s # 0
    <3>1. LastWindowBudget(a)
      BY <1>6, <1>11, <1>14 DEF SlidingInv
    <3>2. Volume(a, from, s - 1) <= max
      BY <1>14, <2>3, <3>1 DEF LastWindowBudget
    <3>3. Volume(a, from, s - 1) = Total(Amounts(admitted), Old(a, from, s - 1))
      BY <1>7, <2>1
    <3> QED
      BY <2>2, <2>3, <3>2, <3>3
  <2>4. CASE ~(t = s /\ s # 0)
    <3>1. s <= from
      BY <1>4, <1>6, <1>8, <1>14, <2>4
    <3>2. Old(a, from, t - 1) \in SUBSET Old(a, s, MaxHeight)
      <4>1. ASSUME NEW i \in Old(a, from, t - 1)
            PROVE  i \in Old(a, s, MaxHeight)
        <5>1. admitted[i].height \in Nat /\ admitted[i].height <= MaxHeight
          BY <1>4 DEF SlidingInv
        <5>2. admitted[i].height \in s .. MaxHeight
          BY <1>4, <1>6, <3>1, <5>1
        <5> QED
          BY <5>2
      <4> QED
        BY <4>1
    <3>3. Total(Amounts(admitted), Old(a, s, MaxHeight)) <= max
      <4>1. Volume(a, s, MaxHeight) <= max
        BY <1>1, <1>6 DEF BudgetInv, FixedWindowBudget
      <4> QED
        BY <1>7, <2>1, <4>1
    <3>4. Old(a, s, MaxHeight) \in SUBSET DOMAIN admitted
      BY <1>7, <2>1
    <3>5. Old(a, from, t - 1) \in SUBSET DOMAIN admitted
      BY <1>7, <2>1
    <3> HIDE DEF Old, New, s, t, w, max
    <3>6. /\ IsFiniteSet(Old(a, s, MaxHeight))
          /\ \A i \in Old(a, s, MaxHeight) : Amounts(admitted)[i] \in Nat
          /\ Total(Amounts(admitted), Old(a, s, MaxHeight)) \in Nat
      BY <1>2, <3>4, VolumeIsNat
    <3>7. Total(Amounts(admitted), Old(a, from, t - 1)) \in Nat
      BY <1>2, <3>5, VolumeIsNat
    <3>8. Total(Amounts(admitted), Old(a, from, t - 1))
              <= Total(Amounts(admitted), Old(a, s, MaxHeight))
      BY <3>2, <3>6, TotalOfSubset
    <3> QED
      BY <1>6, <2>2, <3>3, <3>6, <3>7, <3>8
  <2> QED
    BY <2>3, <2>4
<1>15. ASSUME HeightsGrew', NEW from \in 0 .. MaxHeight
       PROVE  Total(Amounts(admitted'), New(a, from, from + w - 1)) <= 2 * max
  <2>1. /\ from \in Int /\ t - 1 \in Int /\ t \in Int /\ MaxHeight \in Int
        /\ from + w - 1 \in Int
    BY <1>4, <1>6, <1>15
  <2>2. CASE from + w - 1 < t
    <3>1. from + w - 1 < height
      BY <1>4, <1>6, <1>11, <1>15, <2>2
    <3>2. Total(Amounts(admitted'), New(a, from, from + w - 1))
              = Total(Amounts(admitted), Old(a, from, from + w - 1))
      BY <1>12, <2>1, <3>1
    <3>3. AnyWindowBudget(a)
      BY <1>6, <1>11, <1>15 DEF SlidingInv
    <3>4. Volume(a, from, from + w - 1) <= 2 * max
      BY <3>3 DEF AnyWindowBudget
    <3> QED
      BY <1>7, <2>1, <3>2, <3>4
  <2>3. CASE from + w - 1 >= t
    <3>1. Total(Amounts(admitted'), New(a, from, t - 1)) <= max
      BY <1>6, <1>14, <1>15, <2>1, <2>3
    <3>2. Total(Amounts(admitted'), New(a, t, MaxHeight)) <= max
      <4>1. Volume(a, usage[a].windowStart, MaxHeight)' <= max
        BY <1>1, <1>6 DEF BudgetInv, FixedWindowBudget
      <4>2. Volume(a, usage[a].windowStart, MaxHeight)'
                = Total(Amounts(admitted'), New(a, t, MaxHeight))
        BY <1>1 DEF Volume, TransfersIn
      <4> QED
        BY <4>1, <4>2
    <3>3. New(a, from, from + w - 1) \in SUBSET (New(a, from, t - 1) \cup New(a, t, MaxHeight))
      <4>1. \A i \in DOMAIN admitted' : admitted'[i].height \in Nat
        BY <1>3, <1>4
      <4> QED
        BY <1>6, <1>9, <2>1, <4>1
    <3>4. /\ New(a, from, t - 1) \in SUBSET DOMAIN admitted'
          /\ New(a, t, MaxHeight) \in SUBSET DOMAIN admitted'
      BY <1>7, <2>1
    <3> HIDE DEF Old, New, s, t, w, max
    <3> QED
      BY <1>2, <1>6, <3>1, <3>2, <3>3, <3>4, TwoWindowsSuffice
  <2> QED
    BY <1>6, <2>1, <2>2, <2>3
<1>16. ASSUME HeightsGrew'
       PROVE  LastWindowBudget(a)' /\ AnyWindowBudget(a)'
  <2>1. \A from, to \in Int :
            Total(Amounts(admitted'), TransfersIn(a, from, to)')
                = Total(Amounts(admitted'), New(a, from, to))
    BY <1>1 DEF TransfersIn
  <2>2. LastWindowBudget(a)'
    <3> SUFFICES ASSUME NEW from \in 0 .. MaxHeight, from + w > t
                 PROVE  Total(Amounts(admitted'), New(a, from, t - 1)) <= max
      BY <1>1 DEF LastWindowBudget, Volume, TransfersIn
    <3> QED
      BY <1>14, <1>16
  <2>3. AnyWindowBudget(a)'
    <3> SUFFICES ASSUME NEW from \in 0 .. MaxHeight
                 PROVE  Total(Amounts(admitted'), New(a, from, from + w - 1)) <= 2 * max
      BY <1>1 DEF AnyWindowBudget, Volume, TransfersIn
    <3> QED
      BY <1>15, <1>16
  <2> QED
    BY <2>2, <2>3
<1> QED
  BY <1>1, <1>9, <1>10, <1>13, <1>16 DEF SlidingInv

(* A limit that is set starts an empty history. *)
LEMMA ReplaceKeepsSliding ==
    ASSUME SlidingInv, BudgetInv', NEW a \in AssetIDs, NEW limit \in LimitChoices,
           ReplaceLimit(a, limit)
    PROVE  SlidingInv'
<1> DEFINE None(from, to) == {i \in DOMAIN admitted : /\ i > Len(admitted)
                                                       /\ admitted[i].asset = a
                                                       /\ admitted[i].height \in from .. to}
<1>1. /\ TypeOK /\ usage' = usage /\ admitted' = admitted
      /\ limits' = [limits EXCEPT ![a] = limit]
      /\ epoch' = [epoch EXCEPT ![a] = Len(admitted)]
  BY DEF SlidingInv, BudgetInv, ReplaceLimit, SetLimit
<1>2. /\ limits'[a] = limit /\ epoch'[a] = Len(admitted)
      /\ \A b \in AssetIDs : b # a => limits'[b] = limits[b] /\ epoch'[b] = epoch[b]
  BY <1>1 DEF TypeOK, LimitsTypeOK
<1>3. \A i \in DOMAIN admitted : ~(i > Len(admitted))
  BY <1>1, AdmittedFinite
<1>4. limit.maxAmount \in Nat
  BY VolumeAssumption DEF RateLimit
<1>5. ASSUME NEW from, NEW to
      PROVE  Total(Amounts(admitted), None(from, to)) = 0
  <2>1. None(from, to) = {}
    BY <1>3
  <2> HIDE DEF None
  <2> QED
    BY <2>1, TotalOfNone
<1>6. LastWindowBudget(a)' /\ AnyWindowBudget(a)'
  <2>1. LastWindowBudget(a)'
    <3> SUFFICES ASSUME NEW from \in 0 .. MaxHeight
                 PROVE  Total(Amounts(admitted), None(from, usage[a].windowStart - 1))
                            <= limit.maxAmount
      BY <1>1, <1>2 DEF LastWindowBudget, Volume, TransfersIn
    <3> HIDE DEF None
    <3> QED
      BY <1>4, <1>5
  <2>2. AnyWindowBudget(a)'
    <3> SUFFICES ASSUME NEW from \in 0 .. MaxHeight
                 PROVE  Total(Amounts(admitted), None(from, from + limit.windowBlocks - 1))
                            <= 2 * limit.maxAmount
      BY <1>1, <1>2 DEF AnyWindowBudget, Volume, TransfersIn
    <3> HIDE DEF None
    <3> QED
      BY <1>4, <1>5
  <2> QED
    BY <2>1, <2>2
<1>7. ASSUME NEW b \in AssetIDs, b # a
      PROVE  /\ LastWindowBudget(b)' <=> LastWindowBudget(b)
             /\ AnyWindowBudget(b)' <=> AnyWindowBudget(b)
  BY <1>1, <1>2, <1>7 DEF LastWindowBudget, AnyWindowBudget, Volume, TransfersIn
<1>8. HeightsGrew' <=> HeightsGrew
  BY <1>1 DEF HeightsGrew
<1>9. \A b \in AssetIDs : StartedByTransfer(b)'
  BY <1>1 DEF SlidingInv, StartedByTransfer
<1> QED
  BY <1>1, <1>2, <1>6, <1>7, <1>8, <1>9 DEF SlidingInv

(* While heights grow, no windowBlocks consecutive heights let through more
   than twice the limit. *)
THEOREM SlidingBudgetHolds ==
    ASSUME NoWrap
    PROVE  Spec => []TwoWindowBudget
<1>1. Init /\ TypeOK => SlidingInv
  <2> SUFFICES ASSUME Init, TypeOK PROVE SlidingInv
    OBVIOUS
  <2>1. /\ \A a \in AssetIDs : limits[a] = NoLimit /\ usage[a].windowStart = 0
        /\ DOMAIN admitted = {}
    BY DEF Init, LimitsInit, NoUsage
  <2> QED
    BY <2>1, InitKeepsBudget DEF SlidingInv, StartedByTransfer
<1>2. SlidingInv /\ TypeOK' /\ [Next]_vars => SlidingInv'
  <2> SUFFICES ASSUME SlidingInv, TypeOK', [Next]_vars PROVE SlidingInv'
    OBVIOUS
  <2>1. BudgetInv /\ BudgetInv'
    BY StepKeepsBudget DEF SlidingInv
  <2>2. ASSUME NEW a \in AssetIDs, NEW amount \in TransferAmounts, Admit(a, amount)
        PROVE  SlidingInv'
    BY <2>1, <2>2, AdmitKeepsSliding
  <2>3. ASSUME NEW a \in AssetIDs, NEW limit \in LimitChoices, ReplaceLimit(a, limit)
        PROVE  SlidingInv'
    BY <2>1, <2>3, ReplaceKeepsSliding
  <2>4. ASSUME UNCHANGED <<limits, usage, admitted, epoch>>
        PROVE  SlidingInv'
    BY <2>1, <2>4 DEF SlidingInv, StartedByTransfer, HeightsGrew, LastWindowBudget,
                      AnyWindowBudget, Volume, TransfersIn
  <2> QED
    BY <2>2, <2>3, <2>4 DEF Next, SetCurrentHeight, vars
<1>3. SlidingInv => TwoWindowBudget
  BY DEF SlidingInv, TwoWindowBudget, AnyWindowBudget
<1> QED
  BY <1>1, <1>2, <1>3, VolumeTypeCorrect, PTL DEF Spec
=============================================================================
