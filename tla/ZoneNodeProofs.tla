--------------------------- MODULE ZoneNodeProofs ---------------------------
(***************************************************************************)
(* What the networked node keeps of its two machines, for any holders,      *)
(* claims and blocks, and whatever the HTTP handlers do between two steps.  *)
(***************************************************************************)
EXTENDS ZoneNode, TotalsProofs, SequenceTheorems

(* A transfer that is being applied was debited from the wallet as the SDK
   account shows it; once it is recorded, its record is still pending. *)
WorkPart ==
    /\ work.step \in {"none", "debited", "initiated"}
    /\ work.step = "none" => work = NoWork
    /\ work.step # "none" =>
           /\ phase = "executing" /\ todo # <<>>
           /\ work.tx \in NodeTxs /\ IsTransfer(work.tx) /\ work.before \in Nat
           /\ work.tx.sender # NoSender =>
                 /\ wallets[work.tx.sender] + work.tx.amount = work.before
                 /\ sdkBank[work.tx.sender] = work.before
    /\ work.step = "initiated" =>
           /\ work.id \in TransferIDs /\ work.id < nextSequence
           /\ StatusOf(work.id) = "pending"
           /\ transfers[work.id].amount = work.tx.amount
           /\ work.id \in backed <=> work.tx.sender # NoSender
           /\ work.id \notin packets

(* Sequences are given out once, and a paid transfer that is not being applied
   is settled one way. *)
TransfersPart ==
    /\ \A i \in backed \cup packets : i < nextSequence
    /\ \A i \in TransferIDs : i < nextSequence => IsTransferRecord(transfers[i])
    /\ \A i \in backed : work.step # "initiated" \/ work.id # i =>
           (i \in packets) # (StatusOf(i) = "ack_failed")

(* The two banks agree in every state, except on the sender of the transfer
   that is being applied and on the holders that have drifted. *)
BankPart ==
    \A h \in Holders \ drifted :
        work.step = "none" \/ work.tx.sender # h => sdkBank[h] = wallets[h]

(* The BaseApp is at the height of CometBFT or one ahead of it, and where it is
   tells whether it still has a block to commit. *)
HeightPart ==
    ~crowded =>
        /\ phase # "halted"
        /\ phase = "idle" => sdkHeight = cometHeight
        /\ phase = "executing" => sdkHeight \in {cometHeight, cometHeight + 1}
        /\ phase = "finalized" =>
               sdkHeight = (IF sdkOpen THEN cometHeight ELSE cometHeight + 1)

(* The zone is not ahead of the block, so the block will advance it. *)
QueuePart ==
    ~excused =>
        /\ phase # "executing" => queue = <<>>
        /\ phase = "executing" => entryHeight <= cometHeight
        /\ phase \in {"idle", "executing"} => zoneHeight <= cometHeight
        /\ phase = "finalized" => zoneHeight <= cometHeight + 1

NodeInv ==
    /\ NodeTypeOK /\ WorkPart /\ TransfersPart
    /\ BankPart /\ HeightPart /\ QueuePart
    /\ FundsAreAccounted

-----------------------------------------------------------------------------
(* Sums. *)

(* What one wallet gains or loses, the total does. *)
LEMMA MovedWallet ==
    ASSUME NEW w \in [Holders -> Nat], NEW v \in [Holders -> Nat], NEW h \in Holders,
           \A g \in Holders \ {h} : w[g] = v[g]
    PROVE  /\ Total(w, Holders) \in Nat /\ Total(v, Holders) \in Nat
           /\ Total(v, Holders) + w[h] = Total(w, Holders) + v[h]
<1>1. IsFiniteSet(Holders)
  BY NodeAssumption
<1>2. \A g \in Holders : w[g] \in Nat /\ v[g] \in Nat
  OBVIOUS
<1>3. Total(w, Holders) \in Nat /\ Total(v, Holders) \in Nat
  BY <1>1, <1>2, TotalIsNat
<1>4. Total(v, Holders) + w[h] = Total(w, Holders) + v[h]
  BY <1>1, <1>2, TotalReplace
<1> QED
  BY <1>3, <1>4

(* Crediting a set of claims, each to its recipient, adds their total. *)
LEMMA CreditsAddUp ==
    ASSUME NEW w \in [Holders -> Nat], NEW A, IsFiniteSet(A), NEW credit,
           \A c \in A : credit[c] \in Nat /\ c.recipient \in Holders,
           NEW v, v = [h \in Holders |->
                          w[h] + Total(credit, {c \in A : c.recipient = h})]
    PROVE  /\ v \in [Holders -> Nat]
           /\ Total(v, Holders) = Total(w, Holders) + Total(credit, A)
<1> DEFINE To(S) == {c \in A : c.recipient \in S}
           One(h) == {c \in A : c.recipient = h}
           T == {n \in Nat : \A S \in SUBSET Holders :
                    Cardinality(S) = n =>
                        Total(v, S) = Total(w, S) + Total(credit, To(S))}
<1>1. IsFiniteSet(Holders)
  BY NodeAssumption
<1>2. ASSUME NEW B \in SUBSET A
      PROVE  IsFiniteSet(B) /\ (\A c \in B : credit[c] \in Nat) /\ Total(credit, B) \in Nat
  <2>1. IsFiniteSet(B)
    BY FS_Subset
  <2>2. \A c \in B : credit[c] \in Nat
    OBVIOUS
  <2> QED
    BY <2>1, <2>2, TotalIsNat
<1>3. \A h \in Holders : One(h) \in SUBSET A /\ v[h] = w[h] + Total(credit, One(h))
  OBVIOUS
<1>4. \A h \in Holders : w[h] \in Nat /\ v[h] \in Nat
  <2> HIDE DEF One
  <2> QED
    BY <1>2, <1>3
<1>5. v \in [Holders -> Nat]
  BY <1>4
<1>6. 0 \in T
  <2> SUFFICES ASSUME NEW S \in SUBSET Holders, Cardinality(S) = 0
               PROVE  Total(v, S) = Total(w, S) + Total(credit, To(S))
    OBVIOUS
  <2>1. S = {}
    BY <1>1, FS_Subset, FS_EmptySet
  <2>2. To(S) = {}
    BY <2>1
  <2> HIDE DEF To
  <2>3. Total(v, S) = 0 /\ Total(w, S) = 0 /\ Total(credit, To(S)) = 0
    BY <2>1, <2>2, TotalOfNone
  <2> QED
    BY <2>3
<1>7. ASSUME NEW n \in Nat, n \in T PROVE n + 1 \in T
  <2> SUFFICES ASSUME NEW S \in SUBSET Holders, Cardinality(S) = n + 1
               PROVE  Total(v, S) = Total(w, S) + Total(credit, To(S))
    OBVIOUS
  <2>1. IsFiniteSet(S) /\ S # {}
    BY <1>1, FS_Subset, FS_EmptySet
  <2>2. PICK e \in S : TRUE
    BY <2>1
  <2> DEFINE R == S \ {e}
  <2>3. /\ IsFiniteSet(R) /\ Cardinality(R) = n /\ R \in SUBSET Holders
        /\ e \notin R /\ S = R \cup {e}
    <3>1. IsFiniteSet(R) /\ Cardinality(R) = Cardinality(S) - 1
      BY <2>1, FS_RemoveElement
    <3>2. (n + 1) - 1 = n
      OBVIOUS
    <3> QED
      BY <3>1, <3>2
  <2>4. Total(v, R) = Total(w, R) + Total(credit, To(R))
    BY <1>7, <2>3
  <2>5. To(S) = To(R) \cup One(e) /\ To(R) \cap One(e) = {}
    BY <2>3
  <2>6. To(R) \in SUBSET A /\ One(e) \in SUBSET A
    OBVIOUS
  <2>7. e \in Holders
    OBVIOUS
  <2> HIDE DEF To, One, R, T
  <2>8. Total(credit, To(S)) = Total(credit, To(R)) + Total(credit, One(e))
    <3>1. /\ IsFiniteSet(To(R)) /\ IsFiniteSet(One(e))
          /\ \A c \in To(R) \cup One(e) : credit[c] \in Nat
      BY <1>2, <2>6
    <3>2. To(R) \cap One(e) = {} =>
             Total(credit, To(R) \cup One(e)) = Total(credit, To(R)) + Total(credit, One(e))
      BY <3>1, TotalOfUnion
    <3> QED
      BY <2>5, <3>2
  <2>9. /\ Total(v, S) = Total(v, R) + v[e]
        /\ Total(w, S) = Total(w, R) + w[e]
    <3>1. IsFiniteSet(R) /\ e \notin R
      BY <2>3
    <3>2. \A x \in R \cup {e} : v[x] \in Nat
      BY <1>4, <2>3, <2>7
    <3>3. \A x \in R \cup {e} : w[x] \in Nat
      BY <1>4, <2>3, <2>7
    <3>4. Total(v, R \cup {e}) = Total(v, R) + v[e]
      BY <3>1, <3>2, TotalAdd
    <3>5. Total(w, R \cup {e}) = Total(w, R) + w[e]
      BY <3>1, <3>3, TotalAdd
    <3> QED
      BY <2>3, <3>4, <3>5
  <2>10. /\ Total(credit, To(R)) \in Nat /\ Total(credit, One(e)) \in Nat
         /\ Total(w, R) \in Nat /\ w[e] \in Nat
    <3>1. \A h \in R : w[h] \in Nat
      BY <1>4, <2>3
    <3>2. Total(w, R) \in Nat
      BY <2>3, <3>1, TotalIsNat
    <3> QED
      BY <1>2, <1>4, <2>6, <2>7, <3>2
  <2> QED
    BY <1>3, <2>4, <2>7, <2>8, <2>9, <2>10
<1> HIDE DEF T
<1>8. \A n \in Nat : n \in T
  BY <1>6, <1>7, Induction
<1>9. Cardinality(Holders) \in Nat
  BY <1>1, FS_CardinalityType
<1>10. Total(v, Holders) = Total(w, Holders) + Total(credit, To(Holders))
  BY <1>8, <1>9 DEF T
<1>11. To(Holders) = A
  OBVIOUS
<1> QED
  BY <1>5, <1>10, <1>11

(* A block of SDK transactions moves the accounts it names only. *)
LEMMA SendsMoveAccounts ==
    ASSUME sdkBank \in [Holders -> Nat], NEW txs \in Seq(NodeTxs),
           \A i \in DOMAIN txs : ~IsDemo(txs[i])
    PROVE  /\ AfterSends(txs) \in [Holders -> Nat]
           /\ \A h \in Holders \ {txs[i].account : i \in DOMAIN txs} :
                 AfterSends(txs)[h] = sdkBank[h]
<1> DEFINE N == Len(txs)
           named == {txs[i].account : i \in DOMAIN txs}
           S == {b \in [Holders -> Nat] : \A h \in Holders \ named : b[h] = sdkBank[h]}
           step == [n \in 1 .. N |-> [b \in S |-> AfterSend(b, txs[n])]]
           f == CHOOSE f : f = [n \in 0 .. N |->
                    IF n = 0 THEN sdkBank ELSE AfterSend(f[n - 1], txs[n])]
<1>1. N \in Nat /\ DOMAIN txs = 1 .. N /\ txs \in [1 .. N -> NodeTxs]
  BY LenProperties
<1>2. sdkBank \in S
  OBVIOUS
<1>3. ASSUME NEW n \in 1 .. N, NEW b \in S PROVE AfterSend(b, txs[n]) \in S
  <2>1. /\ txs[n].account \in Holders /\ txs[n].delta \in Int
        /\ txs[n].account \in named
    BY <1>1, NodeAssumption DEF IsNodeTx, IsDemo
  <2>2. AfterSend(b, txs[n]) \in [Holders -> Nat]
    BY <2>1 DEF AfterSend
  <2>3. \A h \in Holders \ named : AfterSend(b, txs[n])[h] = b[h]
    BY <2>1 DEF AfterSend
  <2> QED
    BY <2>2, <2>3
<1>4. \A n \in 1 .. N : \A b \in S : step[n][b] = AfterSend(b, txs[n]) /\ step[n][b] \in S
  <2> HIDE DEF S, N
  <2> QED BY <1>3
<1>5. \E h : IsRun(h, S, step, N, sdkBank)
  <2>1. StaysIn(S, step, N)
    <3> HIDE DEF S, N, step
    <3> QED BY <1>4 DEF StaysIn
  <2>2. N \in Nat
    BY <1>1
  <2> HIDE DEF S, N, step
  <2> QED BY <1>2, <2>1, <2>2, LoopHasRun
<1>6. PICK h \in [0 .. N -> S] :
          h[0] = sdkBank /\ \A n \in 1 .. N : h[n] = step[n][h[n - 1]]
  <2> HIDE DEF S, N, step
  <2> QED BY <1>5 DEF IsRun
<1>7. h = [n \in 0 .. N |-> IF n = 0 THEN sdkBank ELSE AfterSend(h[n - 1], txs[n])]
  <2>1. ASSUME NEW n \in 0 .. N
        PROVE  h[n] = IF n = 0 THEN sdkBank ELSE AfterSend(h[n - 1], txs[n])
    <3>1. CASE n = 0
      BY <1>6, <3>1
    <3>2. CASE n # 0
      <4>1. n \in 1 .. N /\ n - 1 \in 0 .. N
        BY <1>1, <3>2
      <4>2. h[n - 1] \in S
        BY <4>1
      <4> HIDE DEF S, N, step
      <4> QED
        BY <1>4, <1>6, <3>2, <4>1, <4>2
    <3> QED
      BY <3>1, <3>2
  <2> HIDE DEF N
  <2> QED
    BY <2>1
<1>8. f = [n \in 0 .. N |-> IF n = 0 THEN sdkBank ELSE AfterSend(f[n - 1], txs[n])]
  <2> HIDE DEF N
  <2> QED
    BY <1>7
<1>9. AfterSends(txs) = f[N]
  BY DEF AfterSends
<1> HIDE DEF f, S
<1>10. f[0] = sdkBank /\ \A n \in 1 .. N : f[n] = AfterSend(f[n - 1], txs[n])
  BY <1>1, <1>8
<1> DEFINE T == {n \in 0 .. N : f[n] \in S}
<1>11. 0 \in T
  BY <1>1, <1>2, <1>10
<1>12. ASSUME NEW n \in 1 .. N, n - 1 \in T PROVE n \in T
  BY <1>3, <1>10, <1>12
<1> HIDE DEF T
<1>13. N \in T
  <2>1. N \in Nat /\ \A n \in 1 .. N : n - 1 \in T => n \in T
    BY <1>1, <1>12
  <2> HIDE DEF N
  <2>2. \A n \in 0 .. N : n \in T
    BY <1>11, <2>1, InductionUpTo
  <2> QED
    BY <2>1, <2>2
<1> QED
  BY <1>9, <1>13 DEF T, S

-----------------------------------------------------------------------------
(* Steps that leave the money of the zone alone. *)

LEMMA SameFunds ==
    ASSUME FundsAreAccounted,
           UNCHANGED <<wallets, applied, withdrawn, backed, transfers, work>>
    PROVE  FundsAreAccounted'
BY DEF FundsAreAccounted, Owed, StatusOf

LEMMA SameTransfers ==
    ASSUME TransfersPart, UNCHANGED <<backed, packets, transfers, nextSequence, work>>
    PROVE  TransfersPart'
BY DEF TransfersPart, StatusOf, IsTransferRecord

LEMMA SameBank ==
    ASSUME BankPart, UNCHANGED <<drifted, sdkBank, wallets, work>>
    PROVE  BankPart'
BY DEF BankPart

LEMMA SameWork ==
    ASSUME WorkPart, UNCHANGED <<phase, todo, wallets, sdkBank, transfers, nextSequence>>,
           UNCHANGED <<backed, packets, work>>
    PROVE  WorkPart'
BY DEF WorkPart, StatusOf

LEMMA IdleWork ==
    ASSUME work' = NoWork
    PROVE  WorkPart'
BY DEF WorkPart, NoWork

LEMMA SameRouter ==
    ASSUME RouterTypeOK, UNCHANGED routerVars
    PROVE  RouterTypeOK'
BY DEF RouterTypeOK, routerVars, IsTransferRecord

(* A handler that changes the routes or the registry. *)
LEMMA PolicyStep ==
    ASSUME NodeInv,
           \/ HandleSeedBridgeAssets
           \/ \E id \in RouteIDs, profile \in ProfileChoices :
                  HandleSetRouteProfile(id, profile)
    PROVE  NodeInv'
<1>1. /\ UNCHANGED <<zoneHeight, wallets, queue, applied, sdkHeight, sdkBank, sdkOpen>>
      /\ UNCHANGED <<packets, cometHeight, phase, todo, entryHeight, work, withdrawn>>
      /\ UNCHANGED <<backed, drifted, crowded, excused, transfers, nextSequence>>
  BY DEF HandleSeedBridgeAssets, HandleSetRouteProfile, SetRouteProfile, zoneVars, sdkVars,
         blockVars, nodeHistory, routerVars
<1>2. RouterTypeOK' /\ registered' \in BOOLEAN
  <2>1. CASE HandleSeedBridgeAssets
    BY <2>1, SameRouter DEF NodeInv, NodeTypeOK, HandleSeedBridgeAssets
  <2>2. ASSUME NEW id \in RouteIDs, NEW profile \in ProfileChoices,
               HandleSetRouteProfile(id, profile)
        PROVE  RouterTypeOK' /\ registered' \in BOOLEAN
    BY <2>2 DEF NodeInv, NodeTypeOK, HandleSetRouteProfile, SetRouteProfile, RouterTypeOK,
                IsTransferRecord, zoneVars
  <2> QED
    BY <2>1, <2>2
<1>3. NodeTypeOK'
  BY <1>1, <1>2 DEF NodeInv, NodeTypeOK
<1>4. WorkPart' /\ TransfersPart' /\ BankPart' /\ FundsAreAccounted'
  BY <1>1, SameWork, SameTransfers, SameBank, SameFunds DEF NodeInv
<1>5. HeightPart' /\ QueuePart'
  BY <1>1 DEF NodeInv, HeightPart, QueuePart
<1> QED
  BY <1>3, <1>4, <1>5 DEF NodeInv

LEMMA QueueByHTTPStep ==
    ASSUME NodeInv, NEW claim \in Claims, HandleQueueDepositClaim(claim)
    PROVE  NodeInv'
<1>1. /\ UNCHANGED <<registered, zoneHeight, wallets, applied, sdkHeight, sdkBank, sdkOpen>>
      /\ UNCHANGED <<packets, cometHeight, phase, todo, entryHeight, work, withdrawn>>
      /\ UNCHANGED <<backed, drifted, crowded>> /\ UNCHANGED routerVars
      /\ transfers' = transfers /\ nextSequence' = nextSequence
      /\ queue' = Append(queue, claim) /\ excused' = TRUE
  BY DEF HandleQueueDepositClaim, zoneVars, sdkVars, blockVars, routerVars
<1>2. queue' \in Seq(Claims)
  BY <1>1, AppendProperties DEF NodeInv, NodeTypeOK
<1>3. NodeTypeOK'
  BY <1>1, <1>2, SameRouter DEF NodeInv, NodeTypeOK
<1>4. WorkPart' /\ TransfersPart' /\ BankPart' /\ FundsAreAccounted'
  BY <1>1, SameWork, SameTransfers, SameBank, SameFunds DEF NodeInv
<1>5. HeightPart' /\ QueuePart'
  BY <1>1 DEF NodeInv, HeightPart, QueuePart
<1> QED
  BY <1>3, <1>4, <1>5 DEF NodeInv

(* The transaction that is applied next, and what is left after it. *)
LEMMA NextTx ==
    ASSUME NodeInv, todo # <<>>
    PROVE  /\ Head(todo) \in NodeTxs /\ IsNodeTx(Head(todo))
           /\ Tail(todo) \in Seq(NodeTxs)
<1>1. todo \in Seq(NodeTxs)
  BY DEF NodeInv, NodeTypeOK
<1>2. Head(todo) \in NodeTxs /\ Tail(todo) \in Seq(NodeTxs)
  BY <1>1, HeadTailProperties
<1> QED
  BY <1>2, NodeAssumption

LEMMA QueueInBlockStep ==
    ASSUME NodeInv, ApplyQueueDepositClaim
    PROVE  NodeInv'
<1>1. /\ UNCHANGED <<registered, zoneHeight, wallets, applied, sdkHeight, sdkBank, sdkOpen>>
      /\ UNCHANGED <<packets, cometHeight, phase, entryHeight, work, withdrawn>>
      /\ UNCHANGED <<backed, drifted, crowded, excused>> /\ UNCHANGED routerVars
      /\ transfers' = transfers /\ nextSequence' = nextSequence
      /\ phase = "executing" /\ work = NoWork /\ work' = NoWork
      /\ todo # <<>> /\ todo' = Tail(todo) /\ Head(todo).type = "queue_deposit_claim"
  BY DEF ApplyQueueDepositClaim, Applying, Applied, sdkVars, nodeHistory, routerVars
<1>2. Head(todo).claim \in Claims /\ todo' \in Seq(NodeTxs)
  BY <1>1, NextTx DEF IsNodeTx
<1>3. queue' \in Seq(Claims)
  BY <1>2, AppendProperties DEF NodeInv, NodeTypeOK, ApplyQueueDepositClaim
<1>4. NodeTypeOK'
  BY <1>1, <1>2, <1>3, SameRouter DEF NodeInv, NodeTypeOK
<1>5. WorkPart' /\ TransfersPart' /\ BankPart' /\ FundsAreAccounted'
  BY <1>1, IdleWork, SameTransfers, SameBank, SameFunds DEF NodeInv
<1>6. HeightPart' /\ QueuePart'
  BY <1>1 DEF NodeInv, HeightPart, QueuePart
<1> QED
  BY <1>4, <1>5, <1>6 DEF NodeInv

LEMMA RefuseSenderStep ==
    ASSUME NodeInv, RefuseSender
    PROVE  NodeInv'
<1>1. /\ UNCHANGED <<registered, zoneHeight, wallets, applied, sdkHeight, sdkBank, sdkOpen>>
      /\ UNCHANGED <<packets, cometHeight, phase, entryHeight, work, withdrawn, queue>>
      /\ UNCHANGED <<backed, drifted, crowded, excused>> /\ UNCHANGED routerVars
      /\ transfers' = transfers /\ nextSequence' = nextSequence
      /\ work = NoWork /\ work' = NoWork /\ todo # <<>> /\ todo' = Tail(todo)
  BY DEF RefuseSender, Applying, Applied, sdkVars, zoneVars, nodeHistory, routerVars
<1>2. todo' \in Seq(NodeTxs)
  BY <1>1, NextTx
<1>3. NodeTypeOK'
  BY <1>1, <1>2, SameRouter DEF NodeInv, NodeTypeOK
<1>4. WorkPart' /\ TransfersPart' /\ BankPart' /\ FundsAreAccounted'
  BY <1>1, IdleWork, SameTransfers, SameBank, SameFunds DEF NodeInv
<1>5. HeightPart' /\ QueuePart'
  BY <1>1 DEF NodeInv, HeightPart, QueuePart
<1> QED
  BY <1>3, <1>4, <1>5 DEF NodeInv

-----------------------------------------------------------------------------
(* Blocks. *)

(* Between blocks no transfer is being applied. *)
LEMMA NoWorkOutside ==
    ASSUME NodeInv, phase # "executing"
    PROVE  work = NoWork
BY DEF NodeInv, WorkPart

LEMMA FinalizeStep ==
    ASSUME NodeInv, NEW txs \in BlockChoices, FinalizeBlock(txs)
    PROVE  NodeInv'
<1>1. /\ phase = "idle" /\ work = NoWork
      /\ UNCHANGED <<cometHeight, work, withdrawn, backed, excused>>
      /\ UNCHANGED <<registered, wallets, queue, applied, sdkHeight, packets>>
      /\ UNCHANGED routerVars /\ transfers' = transfers /\ nextSequence' = nextSequence
  BY NoWorkOutside DEF FinalizeBlock, RefuseMixedBlock, FinalizeSDKBlock, RefuseSDKBlock, Halt,
         BeginDemoBlock, zoneVars, sdkVars, routerVars
<1>2. txs \in Seq(NodeTxs)
  BY NodeAssumption
<1>3. WorkPart' /\ TransfersPart' /\ FundsAreAccounted'
  BY <1>1, IdleWork, SameTransfers, SameFunds DEF NodeInv
<1>4. CASE RefuseMixedBlock(txs) \/ RefuseSDKBlock(txs)
  <2>1. /\ UNCHANGED <<todo, entryHeight, zoneHeight, sdkBank, sdkOpen, drifted>>
        /\ phase' = "halted" /\ crowded' \in BOOLEAN
    BY <1>4 DEF RefuseMixedBlock, RefuseSDKBlock, Halt, zoneVars, sdkVars, NodeInv, NodeTypeOK
  <2>2. crowded' = TRUE
    <3>1. CASE RefuseMixedBlock(txs)
      BY <3>1 DEF RefuseMixedBlock
    <3>2. CASE RefuseSDKBlock(txs)
      <4>1. crowded' = crowded /\ sdkHeight # cometHeight
        BY <3>2 DEF RefuseSDKBlock, Halt, Height, NodeInv, NodeTypeOK
      <4> QED
        BY <1>1, <4>1 DEF NodeInv, HeightPart, NodeTypeOK
    <3> QED
      BY <1>4, <3>1, <3>2
  <2>3. NodeTypeOK'
    BY <1>1, <2>1, SameRouter DEF NodeInv, NodeTypeOK
  <2>4. BankPart' /\ HeightPart' /\ QueuePart'
    BY <1>1, <2>1, <2>2, SameBank DEF NodeInv, HeightPart, QueuePart
  <2> QED
    BY <1>3, <2>3, <2>4 DEF NodeInv
<1>5. CASE FinalizeSDKBlock(txs)
  <2> DEFINE named == {txs[i].account : i \in DOMAIN txs}
  <2>1. /\ UNCHANGED <<todo, entryHeight, crowded>> /\ phase' = "finalized"
        /\ sdkOpen' = TRUE /\ zoneHeight' = cometHeight + 1 /\ sdkHeight = cometHeight
        /\ sdkBank' = AfterSends(txs) /\ drifted' = drifted \cup named
        /\ \A i \in DOMAIN txs : ~IsDemo(txs[i])
    BY <1>5 DEF FinalizeSDKBlock, Height, NodeInv, NodeTypeOK
  <2>2. named \subseteq Holders
    <3>1. \A i \in DOMAIN txs : txs[i] \in NodeTxs
      BY <1>2, LenProperties
    <3> QED
      BY <2>1, <3>1, NodeAssumption DEF IsNodeTx, IsDemo
  <2>3. /\ sdkBank' \in [Holders -> Nat]
        /\ \A h \in Holders \ named : sdkBank'[h] = sdkBank[h]
    BY <1>2, <2>1, SendsMoveAccounts DEF NodeInv, NodeTypeOK
  <2> HIDE DEF named
  <2>4. NodeTypeOK'
    BY <1>1, <2>1, <2>2, <2>3, SameRouter DEF NodeInv, NodeTypeOK
  <2>5. BankPart'
    <3>1. work.step = "none" /\ work' = work /\ wallets' = wallets
      BY <1>1 DEF NoWork
    <3> QED
      BY <2>1, <2>3, <3>1 DEF NodeInv, BankPart
  <2>6. HeightPart' /\ QueuePart'
    BY <1>1, <2>1 DEF NodeInv, NodeTypeOK, HeightPart, QueuePart
  <2> QED
    BY <1>3, <2>4, <2>5, <2>6 DEF NodeInv
<1>6. CASE BeginDemoBlock(txs)
  <2>1. /\ UNCHANGED <<crowded, zoneHeight, sdkBank, drifted>> /\ phase' = "executing"
        /\ sdkOpen' = FALSE /\ entryHeight' = zoneHeight /\ todo' = txs
    BY <1>6 DEF BeginDemoBlock, zoneVars
  <2>2. NodeTypeOK'
    BY <1>1, <1>2, <2>1, SameRouter DEF NodeInv, NodeTypeOK
  <2>3. BankPart' /\ HeightPart' /\ QueuePart'
    BY <1>1, <2>1, SameBank DEF NodeInv, HeightPart, QueuePart
  <2> QED
    BY <1>3, <2>2, <2>3 DEF NodeInv
<1> QED
  BY <1>4, <1>5, <1>6 DEF FinalizeBlock

LEMMA CommitStep ==
    ASSUME NodeInv, Commit
    PROVE  NodeInv'
<1>1. /\ phase = "finalized" /\ work = NoWork /\ phase' = "idle"
      /\ UNCHANGED <<todo, entryHeight, work, sdkBank, packets, withdrawn, backed, drifted>>
      /\ UNCHANGED <<crowded, excused, registered, zoneHeight, wallets, queue, applied>>
      /\ UNCHANGED routerVars /\ transfers' = transfers /\ nextSequence' = nextSequence
      /\ sdkOpen' = FALSE /\ cometHeight' = cometHeight + 1
      /\ sdkHeight' = IF sdkOpen THEN sdkHeight + 1 ELSE sdkHeight
  BY NoWorkOutside DEF Commit, zoneVars, nodeHistory, routerVars
<1>2. NodeTypeOK'
  <2>1. sdkHeight' \in Nat /\ cometHeight' \in Nat
    BY <1>1 DEF NodeInv, NodeTypeOK
  <2> QED
    BY <1>1, <2>1, SameRouter DEF NodeInv, NodeTypeOK
<1>3. WorkPart' /\ TransfersPart' /\ BankPart' /\ FundsAreAccounted'
  BY <1>1, IdleWork, SameTransfers, SameBank, SameFunds DEF NodeInv
<1>4. HeightPart' /\ QueuePart'
  BY <1>1 DEF NodeInv, NodeTypeOK, HeightPart, QueuePart
<1> QED
  BY <1>2, <1>3, <1>4 DEF NodeInv

(* The first block of the BaseApp within the block of CometBFT brings it to the
   height of that block. *)
LEMMA BaseAppCommits ==
    ASSUME NodeInv, phase = "executing", UNCHANGED <<phase, cometHeight>>,
           sdkHeight' = sdkHeight + 1, crowded' = (crowded \/ sdkHeight >= Height)
    PROVE  HeightPart'
<1> SUFFICES ASSUME ~crowded' PROVE HeightPart'
  BY DEF HeightPart
<1>1. ~crowded /\ ~(sdkHeight >= Height)
  OBVIOUS
<1>2. sdkHeight \in {cometHeight, cometHeight + 1}
  BY <1>1 DEF NodeInv, HeightPart
<1>3. sdkHeight' = cometHeight + 1
  BY <1>1, <1>2 DEF Height, NodeInv, NodeTypeOK
<1> QED
  BY <1>3 DEF HeightPart

LEMMA FundAccountStep ==
    ASSUME NodeInv, ApplyFundAccount
    PROVE  NodeInv'
<1>1. /\ UNCHANGED <<registered, zoneHeight, wallets, applied, queue, sdkOpen>>
      /\ UNCHANGED <<packets, cometHeight, phase, entryHeight, work, withdrawn>>
      /\ UNCHANGED <<backed, excused>> /\ UNCHANGED routerVars
      /\ transfers' = transfers /\ nextSequence' = nextSequence
      /\ phase = "executing" /\ work = NoWork /\ work' = NoWork
      /\ todo # <<>> /\ todo' = Tail(todo) /\ Head(todo).type = "fund_account"
      /\ sdkBank' = ToppedUp(Head(todo).address, Head(todo).amount)
      /\ drifted' = drifted \cup {Head(todo).address}
      /\ sdkHeight' = sdkHeight + 1 /\ crowded' = (crowded \/ sdkHeight >= Height)
  BY DEF ApplyFundAccount, Applying, Applied, CommitBaseAppBlock, zoneVars, routerVars
<1>2. PICK a \in Holders, n \in Nat : Head(todo).address = a /\ Head(todo).amount = n
  BY <1>1, NextTx DEF IsNodeTx
<1>3. /\ sdkBank' \in [Holders -> Nat]
      /\ \A h \in Holders \ {a} : sdkBank'[h] = sdkBank[h]
  BY <1>1, <1>2 DEF ToppedUp, NodeInv, NodeTypeOK
<1>4. todo' \in Seq(NodeTxs)
  BY <1>1, NextTx
<1>5. NodeTypeOK'
  BY <1>1, <1>2, <1>3, <1>4, SameRouter DEF NodeInv, NodeTypeOK
<1>6. WorkPart' /\ TransfersPart' /\ FundsAreAccounted'
  BY <1>1, IdleWork, SameTransfers, SameFunds DEF NodeInv
<1>7. BankPart'
  BY <1>1, <1>2, <1>3 DEF NodeInv, BankPart
<1>8. HeightPart' /\ QueuePart'
  <2>1. HeightPart'
    BY <1>1, BaseAppCommits
  <2> QED
    BY <1>1, <2>1 DEF NodeInv, QueuePart
<1> QED
  BY <1>5, <1>6, <1>7, <1>8 DEF NodeInv

-----------------------------------------------------------------------------
(* Steps that move money. *)

Deposited == Total([c \in applied |-> c.amount], applied)

OwedAmount == Total([i \in Owed |-> transfers[i].amount], Owed)

(* What a transfer was debited for before it is recorded. *)
InHand == IF work.step = "debited" /\ work.tx.sender # NoSender THEN work.tx.amount ELSE 0

LEMMA FundsEquation ==
    FundsAreAccounted <=> Deposited = Total(wallets, Holders) + withdrawn + OwedAmount + InHand
BY DEF FundsAreAccounted, Deposited, OwedAmount, InHand

LEMMA FundsEquationNext ==
    FundsAreAccounted' <=>
        Deposited' = Total(wallets', Holders) + withdrawn' + OwedAmount' + InHand'
BY DEF FundsAreAccounted, Deposited, OwedAmount, InHand

(* The transfers that are owed are finitely many, of natural amounts. *)
LEMMA OwedIsFinite ==
    ASSUME NodeInv
    PROVE  /\ IsFiniteSet(Owed) /\ \A i \in Owed : transfers[i].amount \in Nat
           /\ OwedAmount \in Nat
<1>1. Owed \in SUBSET TransferIDs
  BY DEF Owed, NodeInv, NodeTypeOK
<1>2. IsFiniteSet(TransferIDs)
  BY RouterAssumption, FS_Interval DEF TransferIDs
<1>3. IsFiniteSet(Owed)
  BY <1>1, <1>2, FS_Subset
<1>4. \A i \in Owed : transfers[i].amount \in Nat
  BY <1>1, RouterAssumption DEF Owed, NodeInv, TransfersPart, IsTransferRecord
<1> DEFINE f == [i \in Owed |-> transfers[i].amount]
<1>5. \A i \in Owed : f[i] \in Nat
  BY <1>4
<1> HIDE DEF f
<1>6. Total(f, Owed) \in Nat
  BY <1>3, <1>5, TotalIsNat
<1> QED
  BY <1>3, <1>4, <1>6 DEF OwedAmount, f

LEMMA FundsAreNat ==
    ASSUME NodeInv
    PROVE  /\ Total(wallets, Holders) \in Nat /\ withdrawn \in Nat /\ OwedAmount \in Nat
           /\ InHand \in Nat
<1>1. Total(wallets, Holders) \in Nat
  BY NodeAssumption, TotalIsNat DEF NodeInv, NodeTypeOK
<1>2. InHand \in Nat
  BY NodeAssumption, RouterAssumption
     DEF InHand, NodeInv, WorkPart, IsTransfer, IsNodeTx
<1> QED
  BY <1>1, <1>2, OwedIsFinite DEF NodeInv, NodeTypeOK

LEMMA OwedSame ==
    ASSUME backed' = backed, \A i \in backed : transfers'[i] = transfers[i]
    PROVE  OwedAmount' = OwedAmount
<1>1. Owed' = Owed
  BY DEF Owed, StatusOf
<1>2. [i \in Owed' |-> transfers'[i].amount] = [i \in Owed |-> transfers[i].amount]
  BY <1>1 DEF Owed
<1> QED
  BY <1>1, <1>2 DEF OwedAmount

LEMMA WalletSet ==
    ASSUME wallets \in [Holders -> Nat], NEW h \in Holders, NEW n \in Nat,
           wallets' = [wallets EXCEPT ![h] = n]
    PROVE  /\ Total(wallets, Holders) \in Nat /\ Total(wallets', Holders) \in Nat
           /\ Total(wallets', Holders) + wallets[h] = Total(wallets, Holders) + n
<1>1. PICK w \in [Holders -> Nat] : w = wallets
  OBVIOUS
<1>2. PICK v \in [Holders -> Nat] : v = wallets'
  OBVIOUS
<1>3. v[h] = n /\ \A g \in Holders \ {h} : w[g] = v[g]
  BY <1>1, <1>2
<1>4. /\ Total(w, Holders) \in Nat /\ Total(v, Holders) \in Nat
      /\ Total(v, Holders) + w[h] = Total(w, Holders) + v[h]
  BY <1>3, MovedWallet
<1> QED
  BY <1>1, <1>2, <1>3, <1>4

LEMMA WithdrawalStep ==
    ASSUME NodeInv, NEW accepted \in BOOLEAN, ApplyExecuteWithdrawal(accepted)
    PROVE  NodeInv'
<1>1. /\ UNCHANGED <<registered, applied, queue, backed, crowded>>
      /\ UNCHANGED <<sdkHeight, sdkBank, sdkOpen, packets>>
      /\ UNCHANGED <<cometHeight, phase, entryHeight>>
      /\ UNCHANGED routerVars /\ transfers' = transfers /\ nextSequence' = nextSequence
      /\ phase = "executing" /\ work = NoWork /\ work' = NoWork
      /\ todo # <<>> /\ todo' = Tail(todo) /\ Head(todo).type = "execute_withdrawal"
  BY DEF ApplyExecuteWithdrawal, Applying, Applied, sdkVars, routerVars
<1>2. PICK tx : tx = Head(todo)
  OBVIOUS
<1>3. tx.owner \in Holders /\ tx.amount \in Nat /\ tx.height \in Nat
  BY <1>1, <1>2, NextTx DEF IsNodeTx
<1>4. /\ zoneHeight' = IF tx.height > 0 THEN tx.height ELSE zoneHeight
      /\ accepted => wallets[tx.owner] >= tx.amount
      /\ wallets' = IF accepted
                    THEN [wallets EXCEPT ![tx.owner] = @ - tx.amount] ELSE wallets
      /\ withdrawn' = IF accepted THEN withdrawn + tx.amount ELSE withdrawn
      /\ drifted' = IF accepted THEN drifted \cup {tx.owner} ELSE drifted
      /\ excused' = (excused \/ tx.height > 0)
  BY <1>2 DEF ApplyExecuteWithdrawal
<1>5. todo' \in Seq(NodeTxs)
  BY <1>1, NextTx
<1>6. /\ wallets \in [Holders -> Nat] /\ wallets' \in [Holders -> Nat]
      /\ \A h \in Holders \ drifted' : wallets'[h] = wallets[h]
  BY <1>3, <1>4 DEF NodeInv, NodeTypeOK
<1>7. NodeTypeOK'
  <2>1. zoneHeight' \in Nat /\ withdrawn' \in Nat
    BY <1>3, <1>4 DEF NodeInv, NodeTypeOK
  <2>2. drifted' \subseteq Holders
    BY <1>3, <1>4 DEF NodeInv, NodeTypeOK
  <2>3. excused' \in BOOLEAN
    BY <1>4 DEF NodeInv, NodeTypeOK
  <2> QED
    BY <1>1, <1>5, <1>6, <2>1, <2>2, <2>3, SameRouter DEF NodeInv, NodeTypeOK
<1>8. WorkPart' /\ TransfersPart' /\ HeightPart'
  BY <1>1, IdleWork, SameTransfers DEF NodeInv, HeightPart
<1>9. BankPart'
  BY <1>1, <1>4, <1>6 DEF NodeInv, BankPart
<1>10. QueuePart'
  <2> SUFFICES ASSUME ~excused' PROVE QueuePart'
    BY DEF QueuePart
  <2>1. ~excused /\ ~(tx.height > 0)
    BY <1>4
  <2> QED
    BY <1>1, <1>4, <2>1 DEF NodeInv, QueuePart
<1>11. FundsAreAccounted'
  <2>1. Deposited' = Deposited /\ InHand' = 0 /\ InHand = 0
    BY <1>1 DEF Deposited, InHand, NoWork
  <2>2. OwedAmount' = OwedAmount
    BY <1>1, OwedSame
  <2>3. Total(wallets', Holders) + withdrawn' = Total(wallets, Holders) + withdrawn
    <3>1. CASE accepted
      <4>1. PICK n \in Nat : n = wallets[tx.owner] - tx.amount
        BY <1>3, <1>4, <1>6, <3>1
      <4>2. PICK h \in Holders : h = tx.owner
        BY <1>3
      <4>3. wallets' = [wallets EXCEPT ![h] = n] /\ wallets \in [Holders -> Nat]
        BY <1>4, <1>6, <3>1, <4>1, <4>2
      <4>4. /\ Total(wallets', Holders) \in Nat
            /\ Total(wallets', Holders) + wallets[h] = Total(wallets, Holders) + n
        BY <4>3, WalletSet
      <4>5. withdrawn' = withdrawn + tx.amount /\ wallets[tx.owner] \in Nat
        BY <1>3, <1>4, <1>6, <3>1
      <4> QED
        BY <1>3, <4>1, <4>2, <4>4, <4>5, FundsAreNat
    <3>2. CASE ~accepted
      BY <1>4, <3>2
    <3> QED
      BY <3>1, <3>2
  <2>4. Deposited = Total(wallets, Holders) + withdrawn + OwedAmount + InHand
    BY FundsEquation DEF NodeInv
  <2>5. Deposited' = Total(wallets', Holders) + withdrawn' + OwedAmount' + InHand'
    BY <2>1, <2>2, <2>3, <2>4
  <2> QED
    BY <2>5, FundsEquationNext
<1> QED
  BY <1>7, <1>8, <1>9, <1>10, <1>11 DEF NodeInv

LEMMA DebitStep ==
    ASSUME NodeInv, DebitSender
    PROVE  NodeInv'
<1>1. /\ UNCHANGED <<cometHeight, phase, todo, entryHeight, registered, zoneHeight, queue>>
      /\ UNCHANGED <<applied, sdkHeight, sdkOpen, packets, withdrawn, backed, crowded, excused>>
      /\ UNCHANGED routerVars /\ transfers' = transfers /\ nextSequence' = nextSequence
      /\ phase = "executing" /\ work = NoWork
      /\ todo # <<>> /\ Head(todo).type = "initiate_ibc_transfer"
  BY DEF DebitSender, Applying, routerVars
<1>2. PICK tx : tx = Head(todo)
  OBVIOUS
<1>3. /\ tx \in NodeTxs /\ IsTransfer(tx) /\ tx.amount \in Nat
      /\ tx.sender \in Holders \cup {NoSender}
  BY <1>1, <1>2, NextTx, RouterAssumption DEF IsNodeTx, IsTransfer
<1>4. PICK before : before = IF tx.sender = NoSender THEN 0 ELSE wallets[tx.sender]
  OBVIOUS
<1>5. /\ CanDebit(tx)
      /\ sdkBank' = Synced(tx.sender, before)
      /\ drifted' = drifted \ {tx.sender}
      /\ wallets' = IF tx.sender = NoSender THEN wallets
                    ELSE [wallets EXCEPT ![tx.sender] = @ - tx.amount]
      /\ work' = [step |-> "debited", tx |-> tx, before |-> before]
  BY <1>2, <1>4 DEF DebitSender
<1>6. /\ work'.step = "debited" /\ work'.tx = tx /\ work'.before = before
      /\ wallets \in [Holders -> Nat] /\ sdkBank \in [Holders -> Nat] /\ before \in Nat
  BY <1>3, <1>4, <1>5 DEF NodeInv, NodeTypeOK
<1>7. /\ wallets' \in [Holders -> Nat] /\ sdkBank' \in [Holders -> Nat]
      /\ \A h \in Holders \ {tx.sender} : wallets'[h] = wallets[h] /\ sdkBank'[h] = sdkBank[h]
      /\ tx.sender # NoSender =>
            wallets'[tx.sender] + tx.amount = before /\ sdkBank'[tx.sender] = before
  <2>1. CASE tx.sender = NoSender
    BY <1>5, <1>6, <2>1, NodeAssumption DEF Synced
  <2>2. CASE tx.sender # NoSender
    <3>1. tx.sender \in Holders /\ wallets[tx.sender] >= tx.amount /\ before = wallets[tx.sender]
      BY <1>3, <1>4, <1>5, <2>2 DEF CanDebit
    <3> QED
      BY <1>3, <1>5, <1>6, <2>2, <3>1 DEF Synced
  <2> QED
    BY <2>1, <2>2
<1>8. NodeTypeOK'
  BY <1>1, <1>5, <1>7, SameRouter DEF NodeInv, NodeTypeOK
<1>9. WorkPart'
  BY <1>1, <1>3, <1>6, <1>7 DEF WorkPart
<1>10. TransfersPart'
  <2>1. work.step # "initiated" /\ work'.step # "initiated"
    BY <1>1, <1>6 DEF NoWork
  <2> QED
    BY <1>1, <2>1 DEF NodeInv, TransfersPart, StatusOf, IsTransferRecord
<1>11. BankPart'
  <2>1. work.step = "none"
    BY <1>1 DEF NoWork
  <2> QED
    BY <1>5, <1>6, <1>7, <2>1 DEF NodeInv, BankPart
<1>12. HeightPart' /\ QueuePart'
  BY <1>1 DEF NodeInv, HeightPart, QueuePart
<1>13. FundsAreAccounted'
  <2>1. Deposited' = Deposited /\ InHand = 0 /\ withdrawn' = withdrawn
    BY <1>1 DEF Deposited, InHand, NoWork
  <2>2. OwedAmount' = OwedAmount
    BY <1>1, OwedSame
  <2>3. Total(wallets', Holders) + InHand' = Total(wallets, Holders)
    <3>1. CASE tx.sender = NoSender
      <4>1. InHand' = 0 /\ wallets' = wallets
        BY <1>5, <1>6, <3>1 DEF InHand
      <4> QED
        BY <4>1, FundsAreNat
    <3>2. CASE tx.sender # NoSender
      <4>1. tx.sender \in Holders /\ InHand' = tx.amount /\ before = wallets[tx.sender]
        BY <1>3, <1>4, <1>6, <3>2 DEF InHand
      <4>2. PICK n \in Nat : n = wallets'[tx.sender]
        BY <1>7, <4>1
      <4>3. PICK h \in Holders : h = tx.sender
        BY <4>1
      <4>4. wallets' = [wallets EXCEPT ![h] = n] /\ wallets \in [Holders -> Nat]
        BY <1>5, <1>6, <3>2, <4>1, <4>2, <4>3
      <4>5. /\ Total(wallets', Holders) \in Nat
            /\ Total(wallets', Holders) + wallets[h] = Total(wallets, Holders) + n
        BY <4>4, WalletSet
      <4> QED
        BY <1>3, <1>6, <1>7, <3>2, <4>1, <4>2, <4>3, <4>5, FundsAreNat
    <3> QED
      BY <3>1, <3>2
  <2>4. Deposited = Total(wallets, Holders) + withdrawn + OwedAmount + InHand
    BY FundsEquation DEF NodeInv
  <2>5. Total(wallets', Holders) \in Nat /\ InHand' \in Nat
    <3>1. Total(wallets', Holders) \in Nat
      BY <1>7, NodeAssumption, TotalIsNat
    <3> QED
      BY <1>3, <1>6, <3>1 DEF InHand
  <2>6. Deposited' = Total(wallets', Holders) + withdrawn' + OwedAmount' + InHand'
    BY <2>1, <2>2, <2>3, <2>4, <2>5, FundsAreNat
  <2> QED
    BY <2>6, FundsEquationNext
<1> QED
  BY <1>8, <1>9, <1>10, <1>11, <1>12, <1>13 DEF NodeInv

(* A transfer that is recorded takes a sequence that no other has. *)
LEMMA InitiateFacts ==
    ASSUME NodeInv, NEW tx \in NodeTxs, IsTransfer(tx), InitiateOverRoute(tx)
    PROVE  /\ nextSequence \in TransferIDs /\ nextSequence' = nextSequence + 1
           /\ RouterTypeOK' /\ tx.amount \in Nat
           /\ \A j \in TransferIDs \ {nextSequence} : transfers'[j] = transfers[j]
           /\ transfers'[nextSequence].status = "pending"
           /\ transfers'[nextSequence].amount = tx.amount
           /\ \A j \in TransferIDs : j < nextSequence' => IsTransferRecord(transfers'[j])
<1>1. /\ tx.amount \in TransferAmounts /\ tx.asset \in RouteAssets
      /\ tx.receiver \in Receivers /\ tx.memo \in Memos /\ TransferAmounts \subseteq Nat
  BY NodeAssumption, RouterAssumption DEF IsNodeTx, IsTransfer
<1>2. PICK d : InitiateOver(tx.asset, tx.amount, tx.receiver, tx.memo, d)
  BY DEF InitiateOverRoute, InitiateTransfer, InitiateTransferWithProfile
<1>3. PICK i : i = nextSequence
  OBVIOUS
<1>4. i \in TransferIDs /\ nextSequence' = i + 1 /\ i + 1 \in 1 .. MaxTransfers + 1
  BY <1>2, <1>3, RouterAssumption
     DEF InitiateOver, NodeInv, NodeTypeOK, RouterTypeOK, TransferIDs
<1> DEFINE r == [asset |-> tx.asset, amount |-> tx.amount, receiver |-> tx.receiver,
                 denom |-> d, memo |-> tx.memo, status |-> "pending"]
<1>5. /\ transfers' = [transfers EXCEPT ![i] = r] /\ tx.amount > 0
      /\ transportSessions' = [transportSessions EXCEPT ![i] = "handshake_pending"]
      /\ UNCHANGED <<routes, routeProfiles>>
  BY <1>2, <1>3 DEF InitiateOver, policyOfRoutes
<1>6. IsTransferRecord(r) /\ r.status = "pending" /\ r.amount = tx.amount
  BY <1>1, <1>5 DEF IsTransferRecord, TransferStatus
<1> HIDE DEF r
<1>7. DOMAIN transfers = TransferIDs
  BY DEF NodeInv, NodeTypeOK, RouterTypeOK
<1>8. /\ DOMAIN transfers' = TransferIDs /\ transfers'[i] = r
      /\ \A j \in TransferIDs \ {i} : transfers'[j] = transfers[j]
  BY <1>4, <1>5, <1>7
<1>9. \A j \in TransferIDs : transfers'[j] = NoTransfer \/ IsTransferRecord(transfers'[j])
  BY <1>6, <1>8 DEF NodeInv, NodeTypeOK, RouterTypeOK
<1>10. transportSessions' \in [TransferIDs -> TransportStage]
  BY <1>4, <1>5 DEF NodeInv, NodeTypeOK, RouterTypeOK, TransportStage
<1>11. RouterTypeOK'
  BY <1>4, <1>5, <1>8, <1>9, <1>10 DEF NodeInv, NodeTypeOK, RouterTypeOK, IsTransferRecord
<1>12. ASSUME NEW j \in TransferIDs, j < nextSequence'
       PROVE  IsTransferRecord(transfers'[j])
  <2>1. CASE j = i
    BY <1>6, <1>8, <2>1
  <2>2. CASE j # i
    <3>1. j < nextSequence
      BY <1>3, <1>4, <1>12, <2>2 DEF TransferIDs
    <3> QED
      BY <1>8, <2>2, <3>1 DEF NodeInv, TransfersPart
  <2> QED
    BY <2>1, <2>2
<1> QED
  BY <1>1, <1>3, <1>4, <1>6, <1>8, <1>11, <1>12

LEMMA InitiateByHTTPStep ==
    ASSUME NodeInv, NEW tx \in NodeTxs, IsTransfer(tx), HandleInitiateIBCTransfer(tx)
    PROVE  NodeInv'
<1>1. /\ UNCHANGED <<zoneHeight, wallets, queue, applied, sdkHeight, sdkBank, sdkOpen>>
      /\ UNCHANGED <<packets, cometHeight, phase, todo, entryHeight, work, withdrawn>>
      /\ UNCHANGED <<backed, drifted, crowded, excused, registered>>
  BY DEF HandleInitiateIBCTransfer, zoneVars, sdkVars, blockVars, nodeHistory
<1>2. PICK i : i = nextSequence
  OBVIOUS
<1>3. /\ i \in TransferIDs /\ nextSequence' = i + 1 /\ RouterTypeOK'
      /\ \A j \in TransferIDs \ {i} : transfers'[j] = transfers[j]
      /\ \A j \in TransferIDs : j < nextSequence' => IsTransferRecord(transfers'[j])
  BY <1>2, InitiateFacts DEF HandleInitiateIBCTransfer
<1>4. /\ \A j \in backed \cup packets : j \in TransferIDs /\ j < i /\ j # i
      /\ backed \subseteq TransferIDs
  BY <1>2, <1>3 DEF NodeInv, NodeTypeOK, TransfersPart, TransferIDs
<1>5. NodeTypeOK'
  BY <1>1, <1>3 DEF NodeInv, NodeTypeOK
<1>6. WorkPart'
  <2>1. work.step = "initiated" => /\ work.id \in TransferIDs /\ work.id < i /\ work.id # i
                                   /\ work.id < nextSequence'
                                   /\ transfers'[work.id] = transfers[work.id]
    BY <1>2, <1>3 DEF NodeInv, WorkPart, TransferIDs
  <2> QED
    BY <1>1, <2>1 DEF NodeInv, WorkPart, StatusOf
<1>7. TransfersPart'
  <2>1. \A j \in backed \cup packets : j < nextSequence'
    BY <1>3, <1>4 DEF TransferIDs
  <2>2. \A j \in backed : transfers'[j] = transfers[j]
    BY <1>3, <1>4
  <2> QED
    BY <1>1, <1>3, <2>1, <2>2 DEF NodeInv, TransfersPart, StatusOf, IsTransferRecord
<1>8. BankPart' /\ HeightPart' /\ QueuePart'
  BY <1>1, SameBank DEF NodeInv, HeightPart, QueuePart
<1>9. FundsAreAccounted'
  <2>1. Deposited' = Deposited /\ InHand' = InHand
    BY <1>1 DEF Deposited, InHand
  <2>2. \A j \in backed : transfers'[j] = transfers[j]
    BY <1>3, <1>4
  <2>3. OwedAmount' = OwedAmount
    BY <1>1, <2>2, OwedSame
  <2>4. Deposited' = Total(wallets', Holders) + withdrawn' + OwedAmount' + InHand'
    BY <1>1, <2>1, <2>3, FundsEquation DEF NodeInv
  <2> QED
    BY <2>4, FundsEquationNext
<1> QED
  BY <1>5, <1>6, <1>7, <1>8, <1>9 DEF NodeInv

(* A transfer that was debited is recorded: what was in hand is now owed. *)
LEMMA InitiateStep ==
    ASSUME NodeInv, InitiateDebited
    PROVE  NodeInv'
<1>1. /\ UNCHANGED <<zoneHeight, wallets, queue, applied, sdkHeight, sdkBank, sdkOpen>>
      /\ UNCHANGED <<packets, cometHeight, phase, todo, entryHeight, withdrawn>>
      /\ UNCHANGED <<drifted, crowded, excused, registered>> /\ work.step = "debited"
  BY DEF InitiateDebited, zoneVars, sdkVars
<1>2. PICK tx \in NodeTxs : tx = work.tx /\ IsTransfer(tx) /\ InitiateOverRoute(tx)
  BY <1>1 DEF NodeInv, WorkPart, InitiateDebited
<1>3. PICK i : i = nextSequence
  OBVIOUS
<1>4. /\ i \in TransferIDs /\ nextSequence' = i + 1 /\ RouterTypeOK' /\ tx.amount \in Nat
      /\ \A j \in TransferIDs \ {i} : transfers'[j] = transfers[j]
      /\ transfers'[i].status = "pending" /\ transfers'[i].amount = tx.amount
      /\ \A j \in TransferIDs : j < nextSequence' => IsTransferRecord(transfers'[j])
  BY <1>2, <1>3, InitiateFacts
<1>5. /\ work'.step = "initiated" /\ work'.tx = tx /\ work'.before = work.before
      /\ work'.id = i
      /\ backed' = IF tx.sender = NoSender THEN backed ELSE backed \cup {i}
  BY <1>2, <1>3 DEF InitiateDebited
<1>6. /\ \A j \in backed \cup packets : j \in TransferIDs /\ j < i /\ j # i
      /\ i \notin backed /\ i \notin packets
  BY <1>3, <1>4 DEF NodeInv, NodeTypeOK, TransfersPart, TransferIDs
<1>7. NodeTypeOK'
  <2>1. backed' \subseteq TransferIDs
    BY <1>4, <1>5 DEF NodeInv, NodeTypeOK
  <2> QED
    BY <1>1, <1>4, <2>1 DEF NodeInv, NodeTypeOK
<1>8. WorkPart'
  <2>1. /\ phase' = "executing" /\ todo' # <<>> /\ work'.before \in Nat
        /\ tx.sender # NoSender =>
               wallets'[tx.sender] + tx.amount = work'.before
               /\ sdkBank'[tx.sender] = work'.before
    BY <1>1, <1>2, <1>5 DEF NodeInv, WorkPart
  <2>2. i \in backed' <=> tx.sender # NoSender
    BY <1>5, <1>6
  <2>3. i < nextSequence'
    BY <1>4 DEF TransferIDs
  <2> QED
    BY <1>1, <1>2, <1>4, <1>5, <1>6, <2>1, <2>2, <2>3 DEF WorkPart, StatusOf
<1>9. TransfersPart'
  <2>1. \A j \in backed' \cup packets' : j < nextSequence'
    BY <1>1, <1>4, <1>5, <1>6 DEF TransferIDs
  <2>2. ASSUME NEW j \in backed', j # i
        PROVE  (j \in packets') # (StatusOf(j)' = "ack_failed")
    <3>1. j \in backed /\ transfers'[j] = transfers[j]
      BY <1>4, <1>5, <1>6, <2>2
    <3> QED
      BY <1>1, <3>1 DEF NodeInv, TransfersPart, StatusOf
  <2> QED
    BY <1>4, <1>5, <2>1, <2>2 DEF TransfersPart, IsTransferRecord
<1>10. BankPart'
  BY <1>1, <1>2, <1>5 DEF NodeInv, BankPart
<1>11. HeightPart' /\ QueuePart'
  BY <1>1 DEF NodeInv, HeightPart, QueuePart
<1>12. OwedAmount' + InHand' = OwedAmount + InHand /\ OwedAmount' \in Nat
  <2>1. InHand' = 0
    BY <1>5 DEF InHand
  <2>2. CASE tx.sender = NoSender
    <3>1. InHand = 0
      BY <1>2, <2>2 DEF InHand
    <3>2. backed' = backed /\ \A j \in backed : transfers'[j] = transfers[j]
      BY <1>4, <1>5, <1>6, <2>2
    <3>3. OwedAmount' = OwedAmount
      BY <3>2, OwedSame
    <3> QED
      BY <2>1, <3>1, <3>3, FundsAreNat
  <2>3. CASE tx.sender # NoSender
    <3>1. InHand = tx.amount
      BY <1>1, <1>2, <2>3 DEF InHand
    <3>2. PICK R : R = Owed
      OBVIOUS
    <3>3. /\ Owed' = R \cup {i} /\ i \notin R
          /\ \A j \in R : transfers'[j] = transfers[j]
      BY <1>4, <1>5, <1>6, <2>3, <3>2 DEF Owed, StatusOf
    <3>4. PICK f : f = [j \in Owed' |-> transfers'[j].amount]
      OBVIOUS
    <3>5. PICK g : g = [j \in R |-> transfers[j].amount]
      OBVIOUS
    <3>6. OwedAmount' = Total(f, R \cup {i}) /\ OwedAmount = Total(g, R)
      BY <3>2, <3>3, <3>4, <3>5 DEF OwedAmount
    <3>7. f[i] = tx.amount /\ \A j \in R : f[j] = g[j] /\ f[j] \in Nat
      BY <1>4, <3>2, <3>3, <3>4, <3>5, OwedIsFinite
    <3>8. IsFiniteSet(R)
      BY <3>2, OwedIsFinite
    <3>9. Total(f, R) = Total(g, R)
      BY <3>7, TotalSame
    <3>10. Total(f, R \cup {i}) = Total(f, R) + f[i]
      <4>1. \A j \in R \cup {i} : f[j] \in Nat
        BY <1>4, <3>7
      <4>2. i \notin R
        BY <3>3
      <4> QED
        BY <3>8, <4>1, <4>2, TotalAdd
    <3> QED
      BY <1>4, <2>1, <3>1, <3>6, <3>7, <3>9, <3>10, FundsAreNat
  <2> QED
    BY <2>2, <2>3
<1>13. FundsAreAccounted'
  <2>1. Deposited' = Deposited
    BY <1>1 DEF Deposited
  <2>2. Deposited = Total(wallets, Holders) + withdrawn + OwedAmount + InHand
    BY FundsEquation DEF NodeInv
  <2>3. InHand' = 0
    BY <1>5 DEF InHand
  <2>4. Deposited' = Total(wallets', Holders) + withdrawn' + OwedAmount' + InHand'
    BY <1>1, <1>12, <2>1, <2>2, <2>3, FundsAreNat
  <2> QED
    BY <2>4, FundsEquationNext
<1> QED
  BY <1>7, <1>8, <1>9, <1>10, <1>11, <1>13 DEF NodeInv

(* A debit that is given back leaves the two banks as they were before it. *)
LEMMA CreditBackFacts ==
    ASSUME NodeInv, work.step # "none", CreditBack
    PROVE  /\ UNCHANGED <<registered, zoneHeight, queue, applied, sdkHeight, sdkOpen, packets>>
           /\ UNCHANGED <<withdrawn, backed, drifted, crowded, excused>>
           /\ UNCHANGED <<cometHeight, phase, entryHeight>>
           /\ work' = NoWork /\ todo' \in Seq(NodeTxs)
           /\ wallets' \in [Holders -> Nat] /\ sdkBank' \in [Holders -> Nat]
           /\ BankPart'
           /\ work.tx.amount \in Nat
           /\ Total(wallets', Holders)
                 = Total(wallets, Holders)
                   + (IF work.tx.sender = NoSender THEN 0 ELSE work.tx.amount)
<1>1. /\ UNCHANGED <<registered, zoneHeight, queue, applied, sdkHeight, sdkOpen, packets>>
      /\ UNCHANGED <<withdrawn, backed, drifted, crowded, excused>>
      /\ UNCHANGED <<cometHeight, phase, entryHeight>>
      /\ work' = NoWork /\ todo' = Tail(todo)
      /\ wallets' = Credited(work.tx) /\ sdkBank' = Synced(work.tx.sender, work.before)
  BY DEF CreditBack, Applied, nodeHistory
<1>2. PICK tx \in NodeTxs : tx = work.tx /\ IsTransfer(tx)
  BY DEF NodeInv, WorkPart
<1>3. tx.amount \in Nat /\ tx.sender \in Holders \cup {NoSender}
  BY <1>2, NodeAssumption, RouterAssumption DEF IsNodeTx, IsTransfer
<1>4. /\ todo # <<>> /\ work.before \in Nat
      /\ tx.sender # NoSender => wallets[tx.sender] + tx.amount = work.before
      /\ \A h \in Holders \ drifted : tx.sender # h => sdkBank[h] = wallets[h]
      /\ wallets \in [Holders -> Nat] /\ sdkBank \in [Holders -> Nat]
  BY <1>2 DEF NodeInv, WorkPart, NodeTypeOK, BankPart
<1>5. todo' \in Seq(NodeTxs)
  BY <1>1, <1>4, NextTx
<1>6. CASE tx.sender = NoSender
  <2>1. wallets' = wallets /\ sdkBank' = sdkBank
    BY <1>1, <1>2, <1>6 DEF Credited, Synced
  <2>2. BankPart'
    BY <1>1, <1>4, <1>6, <2>1, NodeAssumption DEF BankPart
  <2> QED
    BY <1>1, <1>2, <1>3, <1>4, <1>5, <1>6, <2>1, <2>2, FundsAreNat
<1>7. CASE tx.sender # NoSender
  <2>1. PICK h \in Holders : h = tx.sender
    BY <1>3, <1>7
  <2>2. PICK n \in Nat : n = work.before
    BY <1>4
  <2>3. wallets' = [wallets EXCEPT ![h] = n] /\ sdkBank' = [sdkBank EXCEPT ![h] = n]
    BY <1>1, <1>2, <1>4, <1>7, <2>1, <2>2 DEF Credited, Synced
  <2>4. wallets' \in [Holders -> Nat] /\ sdkBank' \in [Holders -> Nat]
    BY <1>4, <2>3
  <2>5. BankPart'
    BY <1>1, <1>4, <2>1, <2>3 DEF BankPart
  <2>6. Total(wallets', Holders) = Total(wallets, Holders) + tx.amount
    <3>1. wallets \in [Holders -> Nat]
      BY <1>4
    <3>2. /\ Total(wallets, Holders) \in Nat /\ Total(wallets', Holders) \in Nat
          /\ Total(wallets', Holders) + wallets[h] = Total(wallets, Holders) + n
      BY <2>3, <3>1, WalletSet
    <3>3. wallets[h] + tx.amount = n /\ wallets[h] \in Nat
      BY <1>4, <1>7, <2>1, <2>2
    <3> QED
      BY <1>3, <3>2, <3>3
  <2> QED
    BY <1>1, <1>2, <1>3, <1>5, <1>7, <2>4, <2>5, <2>6
<1> QED
  BY <1>6, <1>7

LEMMA RefuseDebitedStep ==
    ASSUME NodeInv, RefuseDebited
    PROVE  NodeInv'
<1>1. /\ work.step = "debited" /\ work.step # "none" /\ CreditBack /\ UNCHANGED routerVars
      /\ transfers' = transfers /\ nextSequence' = nextSequence
  BY DEF RefuseDebited, routerVars
<1>2. /\ UNCHANGED <<registered, zoneHeight, queue, applied, sdkHeight, sdkOpen, packets>>
      /\ UNCHANGED <<withdrawn, backed, drifted, crowded, excused>>
      /\ UNCHANGED <<cometHeight, phase, entryHeight>>
      /\ work' = NoWork /\ todo' \in Seq(NodeTxs)
      /\ wallets' \in [Holders -> Nat] /\ sdkBank' \in [Holders -> Nat]
      /\ BankPart'
      /\ work.tx.amount \in Nat
      /\ Total(wallets', Holders)
            = Total(wallets, Holders)
              + (IF work.tx.sender = NoSender THEN 0 ELSE work.tx.amount)
  BY <1>1, CreditBackFacts
<1>3. NodeTypeOK'
  BY <1>1, <1>2, SameRouter DEF NodeInv, NodeTypeOK
<1>4. WorkPart'
  BY <1>2, IdleWork
<1>5. TransfersPart'
  <2>1. work.step # "initiated" /\ work'.step # "initiated"
    BY <1>1, <1>2 DEF NoWork
  <2> QED
    BY <1>1, <1>2, <2>1 DEF NodeInv, TransfersPart, StatusOf, IsTransferRecord
<1>6. HeightPart' /\ QueuePart'
  BY <1>2 DEF NodeInv, HeightPart, QueuePart
<1>7. FundsAreAccounted'
  <2>1. /\ Deposited' = Deposited /\ withdrawn' = withdrawn /\ InHand' = 0
        /\ InHand = IF work.tx.sender = NoSender THEN 0 ELSE work.tx.amount
    BY <1>1, <1>2 DEF Deposited, InHand, NoWork
  <2>2. OwedAmount' = OwedAmount
    BY <1>1, <1>2, OwedSame
  <2>3. Deposited = Total(wallets, Holders) + withdrawn + OwedAmount + InHand
    BY FundsEquation DEF NodeInv
  <2>4. Total(wallets', Holders) = Total(wallets, Holders) + InHand
    BY <1>2, <2>1
  <2>5. Deposited' = Total(wallets', Holders) + withdrawn' + OwedAmount' + InHand'
    BY <2>1, <2>2, <2>3, <2>4, FundsAreNat
  <2> QED
    BY <2>5, FundsEquationNext
<1> QED
  BY <1>2, <1>3, <1>4, <1>5, <1>6, <1>7 DEF NodeInv

(* The packet is sent: the SDK account follows the wallet. *)
LEMMA SendStep ==
    ASSUME NodeInv, ExecuteLocalhostTransfer
    PROVE  NodeInv'
<1>1. /\ UNCHANGED <<registered, zoneHeight, wallets, queue, applied, sdkOpen>>
      /\ UNCHANGED <<withdrawn, backed, drifted, excused>>
      /\ UNCHANGED <<cometHeight, phase, entryHeight>>
      /\ UNCHANGED routerVars /\ transfers' = transfers /\ nextSequence' = nextSequence
      /\ work.step = "initiated" /\ work' = NoWork /\ todo' = Tail(todo)
      /\ packets' = packets \cup {work.id}
      /\ sdkHeight' = sdkHeight + 1 /\ crowded' = (crowded \/ sdkHeight >= Height)
  BY DEF ExecuteLocalhostTransfer, Applied, CommitBaseAppBlock, zoneVars, routerVars
<1>2. PICK tx \in NodeTxs : tx = work.tx /\ IsTransfer(tx)
  BY <1>1 DEF NodeInv, WorkPart
<1>3. tx.amount \in Nat /\ tx.sender \in Holders \cup {NoSender}
  BY <1>2, NodeAssumption, RouterAssumption DEF IsNodeTx, IsTransfer
<1>4. /\ phase = "executing" /\ todo # <<>> /\ work.before \in Nat
      /\ tx.sender # NoSender => /\ wallets[tx.sender] + tx.amount = work.before
                                 /\ sdkBank[tx.sender] = work.before
      /\ \A h \in Holders \ drifted : tx.sender # h => sdkBank[h] = wallets[h]
      /\ wallets \in [Holders -> Nat] /\ sdkBank \in [Holders -> Nat]
      /\ sdkBank' = IF tx.sender = NoSender THEN sdkBank
                    ELSE [sdkBank EXCEPT ![tx.sender] = @ - tx.amount]
  BY <1>1, <1>2 DEF NodeInv, WorkPart, NodeTypeOK, BankPart, ExecuteLocalhostTransfer
<1>5. /\ work.id \in TransferIDs /\ work.id < nextSequence /\ StatusOf(work.id) = "pending"
  BY <1>1 DEF NodeInv, WorkPart
<1>6. sdkBank' \in [Holders -> Nat] /\ BankPart'
  <2>1. CASE tx.sender = NoSender
    BY <1>1, <1>4, <2>1, NodeAssumption DEF BankPart
  <2>2. CASE tx.sender # NoSender
    <3>1. PICK h \in Holders : h = tx.sender
      BY <1>3, <2>2
    <3>2. sdkBank[h] - tx.amount = wallets[h] /\ wallets[h] \in Nat
      BY <1>3, <1>4, <2>2, <3>1
    <3>3. sdkBank' = [sdkBank EXCEPT ![h] = wallets[h]]
      BY <1>4, <2>2, <3>1, <3>2
    <3> QED
      BY <1>1, <1>4, <3>1, <3>2, <3>3 DEF BankPart
  <2> QED
    BY <2>1, <2>2
<1>7. todo' \in Seq(NodeTxs)
  BY <1>1, <1>4, NextTx
<1>8. NodeTypeOK'
  <2>1. packets' \subseteq TransferIDs /\ sdkHeight' \in Nat
    BY <1>1, <1>5 DEF NodeInv, NodeTypeOK
  <2>2. crowded' \in BOOLEAN
    BY <1>1 DEF NodeInv, NodeTypeOK
  <2> QED
    BY <1>1, <1>6, <1>7, <2>1, <2>2, SameRouter DEF NodeInv, NodeTypeOK
<1>9. WorkPart' /\ HeightPart' /\ QueuePart'
  <2>1. WorkPart'
    BY <1>1, IdleWork
  <2>2. HeightPart'
    BY <1>1, <1>4, BaseAppCommits
  <2> QED
    BY <1>1, <2>1, <2>2 DEF NodeInv, QueuePart
<1>10. TransfersPart'
  <2>1. \A j \in backed' \cup packets' : j < nextSequence'
    BY <1>1, <1>5 DEF NodeInv, TransfersPart
  <2>2. ASSUME NEW j \in backed
        PROVE  (j \in packets') # (StatusOf(j) = "ack_failed")
    <3>1. CASE j = work.id
      BY <1>1, <1>5, <3>1
    <3>2. CASE j # work.id
      BY <1>1, <3>2 DEF NodeInv, TransfersPart
    <3> QED
      BY <3>1, <3>2
  <2> QED
    BY <1>1, <2>1, <2>2 DEF NodeInv, TransfersPart, StatusOf, IsTransferRecord
<1>11. FundsAreAccounted'
  <2>1. Deposited' = Deposited /\ InHand' = 0 /\ InHand = 0
    BY <1>1 DEF Deposited, InHand, NoWork
  <2>2. OwedAmount' = OwedAmount
    BY <1>1, OwedSame
  <2>3. Deposited' = Total(wallets', Holders) + withdrawn' + OwedAmount' + InHand'
    BY <1>1, <2>1, <2>2, FundsEquation DEF NodeInv
  <2> QED
    BY <2>3, FundsEquationNext
<1> QED
  BY <1>6, <1>8, <1>9, <1>10, <1>11 DEF NodeInv

(* The SDK refuses the packet: the transfer is no longer owed, and its amount
   is back in the wallet. *)
LEMMA FailStep ==
    ASSUME NodeInv, FailLocalhostTransfer
    PROVE  NodeInv'
<1>1. /\ work.step = "initiated" /\ work.step # "none" /\ CreditBack
      /\ AcknowledgeFailure(work.id)
  BY DEF FailLocalhostTransfer, FailIBCTransfer
<1>2. /\ UNCHANGED <<registered, zoneHeight, queue, applied, sdkHeight, sdkOpen, packets>>
      /\ UNCHANGED <<withdrawn, backed, drifted, crowded, excused>>
      /\ UNCHANGED <<cometHeight, phase, entryHeight>>
      /\ work' = NoWork /\ todo' \in Seq(NodeTxs)
      /\ wallets' \in [Holders -> Nat] /\ sdkBank' \in [Holders -> Nat]
      /\ BankPart'
      /\ work.tx.amount \in Nat
      /\ Total(wallets', Holders)
            = Total(wallets, Holders)
              + (IF work.tx.sender = NoSender THEN 0 ELSE work.tx.amount)
  BY <1>1, CreditBackFacts
<1>3. PICK i \in TransferIDs :
          /\ i = work.id /\ i < nextSequence /\ StatusOf(i) = "pending"
          /\ transfers[i].amount = work.tx.amount
          /\ i \in backed <=> work.tx.sender # NoSender
          /\ i \notin packets
  BY <1>1 DEF NodeInv, WorkPart
<1>4. /\ DOMAIN transfers = TransferIDs /\ IsTransferRecord(transfers[i])
      /\ transfers' = [transfers EXCEPT ![i].status = "ack_failed"]
      /\ transportSessions' = [transportSessions EXCEPT ![i] = "ack_failed"]
      /\ UNCHANGED <<routes, routeProfiles, nextSequence>>
  BY <1>1, <1>3
     DEF NodeInv, NodeTypeOK, RouterTypeOK, TransfersPart, AcknowledgeFailure, Settle
<1>5. /\ DOMAIN transfers' = TransferIDs
      /\ \A j \in TransferIDs \ {i} : transfers'[j] = transfers[j]
      /\ transfers'[i] = [transfers[i] EXCEPT !.status = "ack_failed"]
  BY <1>4
<1>6. IsTransferRecord(transfers'[i]) /\ transfers'[i].status = "ack_failed"
  <2>1. PICK t : t = transfers[i] /\ IsTransferRecord(t)
    BY <1>4
  <2>2. PICK u : u = [t EXCEPT !.status = "ack_failed"]
    OBVIOUS
  <2>3. IsTransferRecord(u) /\ u.status = "ack_failed"
    BY <2>1, <2>2 DEF IsTransferRecord, TransferStatus
  <2> QED
    BY <1>5, <2>1, <2>2, <2>3
<1>7. RouterTypeOK'
  <2>1. \A j \in TransferIDs : transfers'[j] = NoTransfer \/ IsTransferRecord(transfers'[j])
    BY <1>5, <1>6 DEF NodeInv, NodeTypeOK, RouterTypeOK
  <2>2. transportSessions' \in [TransferIDs -> TransportStage]
    BY <1>4 DEF NodeInv, NodeTypeOK, RouterTypeOK, TransportStage
  <2> QED
    BY <1>4, <1>5, <2>1, <2>2 DEF NodeInv, NodeTypeOK, RouterTypeOK, IsTransferRecord
<1>8. NodeTypeOK'
  BY <1>2, <1>7 DEF NodeInv, NodeTypeOK
<1>9. WorkPart'
  BY <1>2, IdleWork
<1>10. TransfersPart'
  <2>1. \A j \in TransferIDs : j < nextSequence => IsTransferRecord(transfers'[j])
    BY <1>5, <1>6 DEF NodeInv, TransfersPart
  <2>2. ASSUME NEW j \in backed
        PROVE  (j \in packets) # (transfers'[j].status = "ack_failed")
    <3>1. CASE j = i
      BY <1>3, <1>6, <3>1
    <3>2. CASE j # i
      <4>1. j \in TransferIDs
        BY DEF NodeInv, NodeTypeOK
      <4> QED
        BY <1>3, <1>5, <3>2, <4>1 DEF NodeInv, TransfersPart, StatusOf
    <3> QED
      BY <3>1, <3>2
  <2> QED
    BY <1>2, <1>4, <2>1, <2>2 DEF NodeInv, TransfersPart, StatusOf, IsTransferRecord
<1>11. HeightPart' /\ QueuePart'
  BY <1>2 DEF NodeInv, HeightPart, QueuePart
<1>12. /\ OwedAmount' \in Nat
       /\ OwedAmount = OwedAmount'
                         + (IF work.tx.sender = NoSender THEN 0 ELSE work.tx.amount)
  <2>1. CASE work.tx.sender = NoSender
    <3>1. \A j \in backed : transfers'[j] = transfers[j]
      BY <1>3, <1>5, <2>1 DEF NodeInv, NodeTypeOK
    <3>2. OwedAmount' = OwedAmount
      BY <1>2, <3>1, OwedSame
    <3> QED
      BY <2>1, <3>2, FundsAreNat
  <2>2. CASE work.tx.sender # NoSender
    <3>1. PICK S : S = Owed
      OBVIOUS
    <3>2. PICK R : R = Owed'
      OBVIOUS
    <3>3. /\ S = R \cup {i} /\ i \notin R
          /\ \A j \in R : transfers'[j] = transfers[j]
      <4>1. backed \subseteq TransferIDs /\ i \in backed /\ backed' = backed
        BY <1>2, <1>3, <2>2 DEF NodeInv, NodeTypeOK
      <4>2. transfers[i].status # "ack_failed"
        BY <1>3 DEF StatusOf
      <4> QED
        BY <1>5, <1>6, <3>1, <3>2, <4>1, <4>2 DEF Owed, StatusOf
    <3>4. PICK f : f = [j \in S |-> transfers[j].amount]
      OBVIOUS
    <3>5. PICK g : g = [j \in R |-> transfers'[j].amount]
      OBVIOUS
    <3>6. OwedAmount = Total(f, R \cup {i}) /\ OwedAmount' = Total(g, R)
      BY <3>1, <3>2, <3>3, <3>4, <3>5 DEF OwedAmount
    <3>7. f[i] = work.tx.amount /\ \A j \in R : f[j] = g[j]
      BY <1>3, <3>3, <3>4, <3>5
    <3>8. IsFiniteSet(R) /\ \A j \in R \cup {i} : f[j] \in Nat
      <4>1. IsFiniteSet(S) /\ \A j \in S : f[j] \in Nat
        BY <3>1, <3>4, OwedIsFinite
      <4>2. R \in SUBSET S
        BY <3>3
      <4> QED
        BY <3>3, <4>1, <4>2, FS_Subset
    <3>9. Total(f, R) = Total(g, R)
      BY <3>7, TotalSame
    <3>10. Total(f, R \cup {i}) = Total(f, R) + f[i] /\ Total(f, R) \in Nat
      <4>1. i \notin R
        BY <3>3
      <4>2. Total(f, R) \in Nat
        BY <3>8, TotalIsNat
      <4> QED
        BY <3>8, <4>1, <4>2, TotalAdd
    <3> QED
      BY <2>2, <3>6, <3>7, <3>9, <3>10
  <2> QED
    BY <2>1, <2>2
<1>13. FundsAreAccounted'
  <2>1. /\ Deposited' = Deposited /\ withdrawn' = withdrawn
        /\ InHand' = 0 /\ InHand = 0
    BY <1>1, <1>2 DEF Deposited, InHand, NoWork
  <2>2. Deposited = Total(wallets, Holders) + withdrawn + OwedAmount + InHand
    BY FundsEquation DEF NodeInv
  <2>3. PICK n \in Nat : n = IF work.tx.sender = NoSender THEN 0 ELSE work.tx.amount
    BY <1>2
  <2>4. Deposited' = Total(wallets', Holders) + withdrawn' + OwedAmount' + InHand'
    BY <1>2, <1>12, <2>1, <2>2, <2>3, FundsAreNat
  <2> QED
    BY <2>4, FundsEquationNext
<1> QED
  BY <1>2, <1>8, <1>9, <1>10, <1>11, <1>13 DEF NodeInv

(* AdvanceBlock: the claims that are accepted are credited, each to its
   recipient, and the SDK accounts of the recipients are set. *)
LEMMA AdvanceFacts ==
    ASSUME NodeInv, phase = "executing", work = NoWork, work' = NoWork, Advance,
           UNCHANGED <<withdrawn, backed, transfers>>
    PROVE  /\ queue' = <<>> /\ zoneHeight' = cometHeight + 1
           /\ applied' \subseteq Claims /\ IsFiniteSet(applied')
           /\ wallets' \in [Holders -> Nat] /\ sdkBank' \in [Holders -> Nat]
           /\ drifted' \subseteq Holders
           /\ BankPart' /\ FundsAreAccounted'
<1>1. PICK A : A = IF registered THEN {queue[i] : i \in DOMAIN queue} \ applied ELSE {}
  OBVIOUS
<1>2. PICK credit : credit = [c \in A |-> c.amount]
  OBVIOUS
<1>3. PICK v : v = [h \in Holders |->
                       wallets[h] + Total(credit, {c \in A : c.recipient = h})]
  OBVIOUS
<1>4. PICK rs : rs = {c.recipient : c \in A}
  OBVIOUS
<1>5. /\ zoneHeight' = Height /\ queue' = <<>> /\ applied' = applied \cup A
      /\ wallets' = v /\ sdkBank' = SyncedTo(rs, v) /\ drifted' = drifted \ rs
  BY <1>1, <1>2, <1>3, <1>4 DEF Advance
<1>6. /\ A \subseteq Claims /\ A \cap applied = {}
      /\ \A c \in A : c.recipient \in Holders /\ c.amount \in Nat
      /\ \A c \in applied : c.amount \in Nat
      /\ applied \subseteq Claims /\ IsFiniteSet(applied)
  <2>1. queue \in Seq(Claims) /\ applied \subseteq Claims /\ IsFiniteSet(applied)
    BY DEF NodeInv, NodeTypeOK
  <2>2. \A i \in DOMAIN queue : queue[i] \in Claims
    BY <2>1, LenProperties
  <2> QED
    BY <1>1, <2>1, <2>2, NodeAssumption
<1>7. IsFiniteSet(A)
  <2> DEFINE Q == {queue[i] : i \in DOMAIN queue}
             f == [i \in DOMAIN queue |-> queue[i]]
  <2>1. IsFiniteSet(DOMAIN queue)
    BY LenProperties, FS_Interval DEF NodeInv, NodeTypeOK
  <2>2. f \in Surjection(DOMAIN queue, Q)
    BY DEF Surjection
  <2> HIDE DEF f, Q
  <2>3. IsFiniteSet(Q)
    BY <2>1, <2>2, FS_Surjection
  <2>4. A \subseteq Q
    BY <1>1 DEF Q
  <2> QED
    BY <2>3, <2>4, FS_Subset
<1>8. \A c \in A : credit[c] = c.amount /\ credit[c] \in Nat /\ c.recipient \in Holders
  BY <1>2, <1>6
<1>9. wallets \in [Holders -> Nat] /\ sdkBank \in [Holders -> Nat]
  BY DEF NodeInv, NodeTypeOK
<1>10. PICK w \in [Holders -> Nat] : w = wallets
  BY <1>9
<1>11. /\ v \in [Holders -> Nat]
       /\ Total(v, Holders) = Total(w, Holders) + Total(credit, A)
  <2>1. \A c \in A : credit[c] \in Nat /\ c.recipient \in Holders
    BY <1>8
  <2>2. v = [h \in Holders |-> w[h] + Total(credit, {c \in A : c.recipient = h})]
    BY <1>3, <1>10
  <2> QED
    BY <1>7, <2>1, <2>2, CreditsAddUp
<1>12. \A h \in Holders : /\ h \in rs => sdkBank'[h] = v[h]
                          /\ h \notin rs => sdkBank'[h] = sdkBank[h]
  BY <1>5 DEF SyncedTo
<1>13. sdkBank' \in [Holders -> Nat]
  BY <1>5, <1>9, <1>11 DEF SyncedTo
<1>14. ASSUME NEW h \in Holders, h \notin rs PROVE v[h] = wallets[h]
  <2>1. {c \in A : c.recipient = h} = {}
    BY <1>4, <1>14
  <2>2. PICK N : N = {c \in A : c.recipient = h}
    OBVIOUS
  <2>3. Total(credit, N) = 0
    BY <2>1, <2>2, TotalOfNone
  <2> QED
    BY <1>3, <1>9, <2>2, <2>3
<1>15. BankPart'
  <2>1. \A h \in Holders \ drifted : sdkBank[h] = wallets[h]
    BY DEF NodeInv, BankPart, NoWork
  <2> QED
    BY <1>5, <1>12, <1>14, <2>1 DEF BankPart
<1>16. IsFiniteSet(applied')
  BY <1>5, <1>6, <1>7, FS_Union
<1>17. FundsAreAccounted'
  <2>1. PICK f : f = [c \in applied |-> c.amount]
    OBVIOUS
  <2>2. PICK g : g = [c \in applied' |-> c.amount]
    OBVIOUS
  <2>3. PICK B : B = applied
    OBVIOUS
  <2>4. Deposited = Total(f, B) /\ Deposited' = Total(g, B \cup A)
    BY <1>5, <2>1, <2>2, <2>3 DEF Deposited
  <2>5. Total(g, B) = Total(f, B) /\ Total(g, A) = Total(credit, A)
    <3>1. \A c \in B : g[c] = f[c]
      BY <1>5, <2>1, <2>2, <2>3
    <3>2. \A c \in A : g[c] = credit[c]
      BY <1>5, <1>8, <2>2
    <3> QED
      BY <3>1, <3>2, TotalSame
  <2>6. Total(g, B \cup A) = Total(g, B) + Total(g, A)
    <3>1. IsFiniteSet(B) /\ B \cap A = {}
      BY <1>6, <2>3
    <3>2. \A c \in B \cup A : g[c] \in Nat
      BY <1>5, <1>6, <2>2, <2>3
    <3> QED
      BY <1>7, <3>1, <3>2, TotalOfUnion
  <2>7. Total(credit, A) \in Nat
    BY <1>7, <1>8, TotalIsNat
  <2>8. OwedAmount' = OwedAmount /\ withdrawn' = withdrawn /\ InHand = 0 /\ InHand' = 0
    BY OwedSame DEF InHand, NoWork
  <2>9. Deposited = Total(wallets, Holders) + withdrawn + OwedAmount + InHand
    BY FundsEquation DEF NodeInv
  <2>10. Total(wallets', Holders) = Total(wallets, Holders) + Total(credit, A)
    BY <1>5, <1>10, <1>11
  <2>11. Deposited' = Total(wallets', Holders) + withdrawn' + OwedAmount' + InHand'
    BY <2>4, <2>5, <2>6, <2>7, <2>8, <2>9, <2>10, FundsAreNat
  <2> QED
    BY <2>11, FundsEquationNext
<1>18. zoneHeight' = cometHeight + 1 /\ drifted' \subseteq Holders
  BY <1>5 DEF Height, NodeInv, NodeTypeOK
<1> QED
  BY <1>5, <1>6, <1>11, <1>13, <1>15, <1>16, <1>17, <1>18

LEMMA EndBlockStep ==
    ASSUME NodeInv, EndDemoBlock
    PROVE  NodeInv'
<1>1. /\ phase = "executing" /\ phase' = "finalized" /\ work = NoWork /\ work' = NoWork
      /\ UNCHANGED <<cometHeight, todo, entryHeight, registered, sdkHeight, packets>>
      /\ UNCHANGED <<withdrawn, backed, crowded, excused>>
      /\ UNCHANGED routerVars /\ transfers' = transfers /\ nextSequence' = nextSequence
      /\ sdkOpen' = (sdkHeight + 1 = cometHeight + 1)
  BY DEF EndDemoBlock, FinalizeBaseApp, Height, routerVars
<1>2. WorkPart' /\ TransfersPart'
  BY <1>1, IdleWork, SameTransfers DEF NodeInv
<1>3. HeightPart'
  <2> SUFFICES ASSUME ~crowded
               PROVE  sdkHeight = (IF sdkOpen' THEN cometHeight ELSE cometHeight + 1)
    BY <1>1 DEF HeightPart
  <2>1. sdkHeight \in {cometHeight, cometHeight + 1} /\ cometHeight \in Nat
    BY <1>1 DEF NodeInv, NodeTypeOK, HeightPart
  <2>2. CASE sdkHeight = cometHeight
    <3>1. sdkOpen'
      BY <1>1, <2>2
    <3> QED
      BY <2>2, <3>1
  <2>3. CASE sdkHeight = cometHeight + 1
    <3>1. sdkHeight + 1 # cometHeight + 1
      BY <2>1, <2>3
    <3>2. ~sdkOpen'
      BY <1>1, <3>1
    <3> QED
      BY <2>3, <3>2
  <2> QED
    BY <2>1, <2>2, <2>3
<1>4. sdkOpen' \in BOOLEAN
  BY <1>1
<1>5. CASE MustAdvance
  <2>1. Advance
    BY <1>5 DEF EndDemoBlock
  <2>2. /\ queue' = <<>> /\ zoneHeight' = cometHeight + 1
        /\ applied' \subseteq Claims /\ IsFiniteSet(applied')
        /\ wallets' \in [Holders -> Nat] /\ sdkBank' \in [Holders -> Nat]
        /\ drifted' \subseteq Holders
        /\ BankPart' /\ FundsAreAccounted'
    BY <1>1, <2>1, AdvanceFacts
  <2>3. NodeTypeOK'
    <3>1. queue' \in Seq(Claims) /\ zoneHeight' \in Nat
      BY <2>2, EmptySeq DEF NodeInv, NodeTypeOK
    <3> QED
      BY <1>1, <1>4, <2>2, <3>1, SameRouter DEF NodeInv, NodeTypeOK
  <2>4. QueuePart'
    BY <1>1, <2>2 DEF QueuePart, NodeInv, NodeTypeOK
  <2> QED
    BY <1>2, <1>3, <2>2, <2>3, <2>4 DEF NodeInv
<1>6. CASE ~MustAdvance
  <2>1. UNCHANGED <<zoneHeight, queue, applied, wallets, sdkBank, drifted>>
    BY <1>6 DEF EndDemoBlock
  <2>2. NodeTypeOK'
    BY <1>1, <1>4, <2>1, SameRouter DEF NodeInv, NodeTypeOK
  <2>3. BankPart' /\ FundsAreAccounted'
    BY <1>1, <2>1, SameBank, SameFunds DEF NodeInv
  <2>4. QueuePart'
    <3>1. excused
      <4> SUFFICES ASSUME ~excused PROVE MustAdvance
        BY <1>6
      <4>1. entryHeight <= cometHeight /\ zoneHeight <= cometHeight
        BY <1>1 DEF NodeInv, QueuePart
      <4> QED
        BY <4>1 DEF MustAdvance, Height, NodeInv, NodeTypeOK
    <3> QED
      BY <1>1, <3>1 DEF QueuePart
  <2> QED
    BY <1>2, <1>3, <2>2, <2>3, <2>4 DEF NodeInv
<1> QED
  BY <1>5, <1>6

-----------------------------------------------------------------------------
(* The node. *)

LEMMA NodeInitially ==
    ASSUME NodeInit
    PROVE  NodeInv
<1>1. /\ work = NoWork /\ work.step = "none" /\ phase = "idle" /\ todo = <<>>
      /\ applied = {} /\ backed = {} /\ packets = {} /\ drifted = {} /\ queue = <<>>
      /\ cometHeight = 1 /\ sdkHeight = 1 /\ zoneHeight = 0 /\ entryHeight = 0
      /\ withdrawn = 0 /\ nextSequence = 1
      /\ wallets = [h \in Holders |-> 0] /\ sdkBank = [h \in Holders |-> 0]
      /\ transfers = [i \in TransferIDs |-> NoTransfer]
      /\ registered = FALSE /\ sdkOpen = FALSE /\ crowded = FALSE /\ excused = FALSE
  BY DEF NodeInit, CometInit, BaseAppInit, RouterInit, NoWork
<1>2. RouterTypeOK
  BY RouterAssumption DEF NodeInit, RouterInit, RouterTypeOK, TransportStage
<1>3. NodeTypeOK
  <2>1. todo \in Seq(NodeTxs) /\ queue \in Seq(Claims) /\ IsFiniteSet(applied)
    BY <1>1, EmptySeq, FS_EmptySet
  <2> QED
    BY <1>1, <1>2, <2>1 DEF NodeTypeOK
<1>4. WorkPart /\ BankPart /\ HeightPart /\ QueuePart
  BY <1>1 DEF WorkPart, BankPart, HeightPart, QueuePart
<1>5. TransfersPart
  BY <1>1, RouterAssumption DEF TransfersPart, TransferIDs
<1>6. FundsAreAccounted
  <2>1. Owed = {}
    BY <1>1 DEF Owed
  <2>2. Deposited = 0 /\ OwedAmount = 0
    BY <1>1, <2>1, TotalOfNone DEF Deposited, OwedAmount
  <2>3. Total(wallets, Holders) = 0
    <3>1. PICK w : w = wallets
      OBVIOUS
    <3>2. Units(w, Holders) = {}
      BY <1>1, <3>1 DEF Units
    <3> QED
      BY <3>1, <3>2, FS_EmptySet DEF Total
  <2>4. InHand = 0
    BY <1>1 DEF InHand
  <2> QED
    BY <1>1, <2>2, <2>3, <2>4, FundsEquation
<1> QED
  BY <1>3, <1>4, <1>5, <1>6 DEF NodeInv

LEMMA NodeStutters ==
    ASSUME NodeInv, UNCHANGED nodeVars
    PROVE  NodeInv'
<1>1. /\ UNCHANGED <<registered, zoneHeight, wallets, applied, sdkHeight, sdkBank, sdkOpen>>
      /\ UNCHANGED <<packets, cometHeight, phase, todo, entryHeight, work, withdrawn, queue>>
      /\ UNCHANGED <<backed, drifted, crowded, excused>> /\ UNCHANGED routerVars
      /\ transfers' = transfers /\ nextSequence' = nextSequence
  BY DEF nodeVars, zoneVars, sdkVars, blockVars, nodeHistory, routerVars
<1>2. NodeTypeOK'
  BY <1>1, SameRouter DEF NodeInv, NodeTypeOK
<1>3. WorkPart' /\ TransfersPart' /\ BankPart' /\ FundsAreAccounted'
  BY <1>1, SameWork, SameTransfers, SameBank, SameFunds DEF NodeInv
<1>4. HeightPart' /\ QueuePart'
  BY <1>1 DEF NodeInv, HeightPart, QueuePart
<1> QED
  BY <1>2, <1>3, <1>4 DEF NodeInv

(* The invariant of the node holds in every reachable state, its types
   included. *)
THEOREM NodeInvariant == NodeSpec => []NodeInv
<1>1. NodeInit => NodeInv
  BY NodeInitially
<1>2. NodeInv /\ [NodeNext]_nodeVars => NodeInv'
  <2> SUFFICES ASSUME NodeInv, [NodeNext]_nodeVars PROVE NodeInv'
    OBVIOUS
  <2>1. ASSUME NEW txs \in BlockChoices, FinalizeBlock(txs) PROVE NodeInv'
    BY <2>1, FinalizeStep
  <2>2. ASSUME NEW accepted \in BOOLEAN, ApplyExecuteWithdrawal(accepted) PROVE NodeInv'
    BY <2>2, WithdrawalStep
  <2>3. ASSUME NEW claim \in Claims, HandleQueueDepositClaim(claim) PROVE NodeInv'
    BY <2>3, QueueByHTTPStep
  <2>4. ASSUME NEW txs \in BlockChoices, NEW i \in DOMAIN txs, IsTransfer(txs[i]),
               HandleInitiateIBCTransfer(txs[i])
        PROVE  NodeInv'
    <3>1. txs[i] \in NodeTxs
      BY DEF NodeTxs
    <3> QED
      BY <2>4, <3>1, InitiateByHTTPStep
  <2>5. ASSUME NEW id \in RouteIDs, NEW profile \in ProfileChoices,
               HandleSetRouteProfile(id, profile)
        PROVE  NodeInv'
    BY <2>5, PolicyStep
  <2>6. CASE HandleSeedBridgeAssets
    BY <2>6, PolicyStep
  <2>7. CASE ApplyQueueDepositClaim \/ ApplyFundAccount
    BY <2>7, QueueInBlockStep, FundAccountStep
  <2>8. CASE DebitSender \/ RefuseSender \/ InitiateDebited \/ RefuseDebited
    BY <2>8, DebitStep, RefuseSenderStep, InitiateStep, RefuseDebitedStep
  <2>9. CASE ExecuteLocalhostTransfer \/ FailLocalhostTransfer
    BY <2>9, SendStep, FailStep
  <2>10. CASE EndDemoBlock \/ Commit
    BY <2>10, EndBlockStep, CommitStep
  <2>11. CASE UNCHANGED nodeVars
    BY <2>11, NodeStutters
  <2> QED
    BY <2>1, <2>2, <2>3, <2>4, <2>5, <2>6, <2>7, <2>8, <2>9, <2>10, <2>11 DEF NodeNext
<1> QED
  BY <1>1, <1>2, PTL DEF NodeSpec

(* What deposits brought in is accounted for between any two steps. *)
THEOREM FundsStayAccounted == NodeSpec => []FundsAreAccounted
<1>1. NodeInv => FundsAreAccounted
  BY DEF NodeInv
<1> QED
  BY <1>1, NodeInvariant, PTL

(* Between blocks the SDK bank shows the wallets of holders that did not
   drift. *)
THEOREM BankKeepsFollowing == NodeSpec => []BankFollowsWallets
<1>1. NodeInv => BankFollowsWallets
  BY DEF NodeInv, WorkPart, BankPart, BankFollowsWallets
<1> QED
  BY <1>1, NodeInvariant, PTL

(* Between blocks a paid transfer has been sent or has failed, never both. *)
THEOREM PaidTransfersSettle == NodeSpec => []PaidTransfersAreSent
<1>1. NodeInv => PaidTransfersAreSent
  BY DEF NodeInv, WorkPart, TransfersPart, PaidTransfersAreSent
<1> QED
  BY <1>1, NodeInvariant, PTL

(* The node stops only after a block that mixed transactions or committed the
   BaseApp twice. *)
THEOREM HaltsHaveReasons == NodeSpec => []HaltsAreExplained
<1>1. NodeInv => HaltsAreExplained
  BY DEF NodeInv, HeightPart, HaltsAreExplained
<1> QED
  BY <1>1, NodeInvariant, PTL

(* The claims of a block are applied by that block, unless a claim came by
   HTTP or a height was overridden. *)
THEOREM ClaimsAreApplied == NodeSpec => []ClaimsDoNotWait
<1>1. NodeInv => ClaimsDoNotWait
  BY DEF NodeInv, QueuePart, ClaimsDoNotWait
<1> QED
  BY <1>1, NodeInvariant, PTL
=============================================================================
