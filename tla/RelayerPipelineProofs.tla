----------------------- MODULE RelayerPipelineProofs -----------------------
(***************************************************************************)
(* Proofs about RelayerPipeline, for any number of events, confirmations,  *)
(* blocks, reorganisations, errors and crashes.                            *)
(***************************************************************************)
EXTENDS RelayerPipeline, TLAPS

Running == {"next", "submit", "mark"}

(* A checkpoint is at most one block past the confirmed part of the chain. *)
CheckpointsConfirmed ==
    \A l \in Lanes : \/ checkpoints[l] = 0
                     \/ checkpoints[l] + Confirmations[l] <= tip[l] + 1

(* So is what the run takes for final, and the events it holds are from
   there. *)
RunConfirmed ==
    /\ pc \in Running \cup {"fetch"} =>
           finalized + Confirmations[lane] <= tip[lane]
    /\ pc \notin Running => todo = {}
    /\ \A e \in todo : e \in DOMAIN log /\ LaneOf(e) = lane /\ log[e] <= finalized

(* Between fetching and saving, every final event of the lane has taken
   effect or is still to be dealt with. *)
RunComplete ==
    /\ pc \in Running =>
           \A e \in DOMAIN log :
               LaneOf(e) = lane /\ log[e] <= finalized => e \in delivered \cup todo
    /\ pc = "mark" => current \subseteq delivered

(* What was acted upon lies where no reorganisation reaches. *)
ActedFinal ==
    \A e \in delivered \cup inflight :
        /\ e \in DOMAIN log
        /\ log[e] + Confirmations[LaneOf(e)] <= tip[LaneOf(e)]

RelayerInv ==
    /\ TypeOK
    /\ CheckpointsConfirmed
    /\ RunConfirmed
    /\ RunComplete
    /\ ActedFinal
    /\ processed \subseteq delivered
    /\ NothingPassedOver

-----------------------------------------------------------------------------

(* Every event belongs to one of the two lanes. *)
LEMMA LaneOfType == ASSUME NEW e PROVE LaneOf(e) \in Lanes
  BY DEF LaneOf, Lanes

(* A relayer with an empty replay store is well-typed. *)
LEMMA TypeInit == Init => TypeOK
  BY RelayerAssumption DEF Init, TypeOK, Lanes

(* Every step keeps the types. *)
LEMMA TypeStep == TypeOK /\ [Next]_vars => TypeOK'
  <1> SUFFICES ASSUME TypeOK, [Next]_vars
               PROVE  TypeOK'
    OBVIOUS
  <1> USE RelayerAssumption
  <1>1. ASSUME NEW S \in SUBSET Deposits, MineBlock(S)
        PROVE  TypeOK'
    <2>1. tip' \in [Lanes -> Nat]
      BY <1>1 DEF MineBlock, Advance, TypeOK, Lanes
    <2>2. /\ DOMAIN log' \subseteq Events
          /\ log' \in [DOMAIN log' -> Nat]
      BY <1>1, <2>1 DEF MineBlock, TypeOK, Lanes, Events
    <2> QED
      BY <1>1, <2>1, <2>2
      DEF MineBlock, ChainStep, storeVars, runVars, TypeOK
  <1>2. ASSUME NEW depth \in 1 .. Confirmations["deposits"],
               NEW kept \in SUBSET Deposits,
               NEW moved \in [kept -> 0 .. tip["deposits"]],
               Reorg(depth, kept, moved)
        PROVE  TypeOK'
    <2>1. tip["deposits"] \in Nat
      BY DEF TypeOK, Lanes
    <2>2. /\ DOMAIN log' \subseteq Events
          /\ log' \in [DOMAIN log' -> Nat]
      BY <1>2, <2>1 DEF Reorg, TypeOK, Events
    <2>3. faults' \in [reorgs : 0 .. MaxReorgs, temporary : 0 .. MaxTemporary,
                       stops : 0 .. MaxStops, lost : 0 .. MaxLost]
      BY <1>2 DEF Reorg, TypeOK
    <2> QED
      BY <1>2, <2>2, <2>3
      DEF Reorg, ChainStep, storeVars, runVars, TypeOK
  <1>3. CASE AdvanceZone
    <2>1. tip' \in [Lanes -> Nat]
      BY <1>3 DEF AdvanceZone, Advance, TypeOK, Lanes
    <2> QED
      BY <1>3, <2>1 DEF AdvanceZone, ChainStep, storeVars, runVars, TypeOK
  <1>4. ASSUME NEW e \in Withdrawals, RecordWithdrawal(e)
        PROVE  TypeOK'
    <2>1. tip["withdrawals"] \in Nat
      BY DEF TypeOK, Lanes
    <2>2. /\ DOMAIN log' \subseteq Events
          /\ log' \in [DOMAIN log' -> Nat]
      BY <1>4, <2>1 DEF RecordWithdrawal, TypeOK, Events
    <2> QED
      BY <1>4, <2>2 DEF RecordWithdrawal, ChainStep, storeVars, runVars, TypeOK
  <1>5. ASSUME NEW e \in Events, Land(e)
        PROVE  TypeOK'
    BY <1>5 DEF Land, chainVars, storeVars, runVars, TypeOK
  <1>6. CASE ObserveNothing
    BY <1>6 DEF ObserveNothing, NextLane, chainVars, storeVars, TypeOK, Lanes
  <1>7. CASE ObserveTip
    BY <1>7 DEF ObserveTip, Confirmed, chainVars, storeVars, TypeOK, Lanes
  <1>8. CASE FetchEvents
    BY <1>8 DEF FetchEvents, chainVars, storeVars, TypeOK
  <1>9. CASE SaveCheckpoint
    <2>1. checkpoints' \in [Lanes -> Nat]
      BY <1>9 DEF SaveCheckpoint, TypeOK
    <2> QED
      BY <1>9, <2>1 DEF SaveCheckpoint, NextLane, chainVars, TypeOK, Lanes
  <1>10. ASSUME NEW e \in Events, SkipProcessed(e)
         PROVE  TypeOK'
    BY <1>10 DEF SkipProcessed, chainVars, storeVars, TypeOK
  <1>11. ASSUME NEW e \in Events, TakeEvent(e)
         PROVE  TypeOK'
    BY <1>11 DEF TakeEvent, IsFirst, chainVars, storeVars, TypeOK
  <1>12. ASSUME NEW e \in Events, SubmitAccepted(e)
         PROVE  TypeOK'
    BY <1>12 DEF SubmitAccepted, chainVars, storeVars, TypeOK
  <1>13. ASSUME NEW e \in Events, SubmitDuplicate(e)
         PROVE  TypeOK'
    BY <1>13 DEF SubmitDuplicate, AbandonRun, chainVars, storeVars, TypeOK, Lanes
  <1>21. ASSUME NEW e \in Events, SubmitRefused(e)
         PROVE  TypeOK'
    BY <1>21 DEF SubmitRefused, AbandonRun, chainVars, storeVars, TypeOK, Lanes
  <1>14. ASSUME NEW e \in Events, MarkProcessed(e)
         PROVE  TypeOK'
    BY <1>14 DEF MarkProcessed, chainVars, TypeOK
  <1>15. CASE Restart
    BY <1>15 DEF Restart, chainVars, storeVars, TypeOK
  <1>16. CASE BackOff
    BY <1>16 DEF BackOff, AbandonRun, chainVars, storeVars, TypeOK, Lanes
  <1>17. CASE RetrySubmission
    BY <1>17 DEF RetrySubmission, chainVars, storeVars, TypeOK
  <1>18. CASE Stop
    BY <1>18 DEF Stop, AbandonRun, chainVars, storeVars, TypeOK, Lanes
  <1>19. ASSUME NEW e \in Events, SubmissionLost(e)
         PROVE  TypeOK'
    BY <1>19 DEF SubmissionLost, AbandonRun, chainVars, storeVars, TypeOK, Lanes
  <1>20. CASE UNCHANGED vars
    BY <1>20 DEF vars, TypeOK
  <1> QED
    BY <1>1, <1>2, <1>3, <1>4, <1>5, <1>6, <1>7, <1>8, <1>9, <1>10, <1>11,
       <1>12, <1>13, <1>14, <1>15, <1>16, <1>17, <1>18, <1>19, <1>20, <1>21
    DEF Next, Chains, Run, Faults

(* The relayer's state has its type in every reachable state. *)
THEOREM RelayerTypeCorrect == Spec => []TypeOK
  <1> QED
    BY TypeInit, TypeStep, PTL DEF Spec

-----------------------------------------------------------------------------
(* The chains.  New and moved events lie beyond every confirmed block, so
   nothing that the checkpoints, the run or the destinations rely upon
   changes. *)

(* How a step of a chain may change the log. *)
LogMoves ==
    /\ \A l \in Lanes : tip[l] <= tip'[l]
    /\ \A e \in DOMAIN log :
           log[e] + Confirmations[LaneOf(e)] <= tip[LaneOf(e)] =>
               e \in DOMAIN log' /\ log'[e] = log[e]
    /\ \A e \in DOMAIN log' :
           \/ e \in DOMAIN log /\ log'[e] = log[e]
           \/ log'[e] + Confirmations[LaneOf(e)] > tip[LaneOf(e)]

(* A new block of Ethereum puts deposits above every confirmed block. *)
LEMMA MineBlockMoves ==
    ASSUME TypeOK, NEW S \in SUBSET Deposits, MineBlock(S)
    PROVE  LogMoves
  <1>1. /\ Confirmations \in [Lanes -> Nat]
        /\ tip \in [Lanes -> Nat]
        /\ \A e \in DOMAIN log : log[e] \in Nat
    BY RelayerAssumption DEF TypeOK
  <1>2. \A e \in S : LaneOf(e) = "deposits"
    BY DEF LaneOf
  <1>3. tip'["deposits"] = tip["deposits"] + 1
    BY <1>1 DEF MineBlock, Advance, Lanes
  <1>4. \A l \in Lanes : tip[l] <= tip'[l]
    BY <1>1 DEF MineBlock, Advance, Lanes
  <1>5. \A e \in S : log'[e] + Confirmations[LaneOf(e)] > tip[LaneOf(e)]
    BY <1>1, <1>2, <1>3 DEF MineBlock, Lanes
  <1> QED
    BY <1>4, <1>5 DEF LogMoves, MineBlock

(* A reorganisation within the confirmations leaves the confirmed blocks
   alone. *)
LEMMA ReorgMoves ==
    ASSUME TypeOK, NEW depth \in 1 .. Confirmations["deposits"],
           NEW kept \in SUBSET Deposits,
           NEW moved \in [kept -> 0 .. tip["deposits"]],
           Reorg(depth, kept, moved)
    PROVE  LogMoves
  <1> DEFINE first == tip["deposits"] - depth + 1
             orphaned == {e \in Deposits \cap DOMAIN log : log[e] >= first}
  <1>1. /\ Confirmations["deposits"] \in Nat
        /\ tip["deposits"] \in Nat
        /\ tip \in [Lanes -> Nat]
        /\ \A e \in DOMAIN log : log[e] \in Nat
    BY RelayerAssumption DEF TypeOK, Lanes
  <1>2. \A e \in Deposits : LaneOf(e) = "deposits"
    BY DEF LaneOf
  <1>3. first \in Nat /\ first + Confirmations["deposits"] > tip["deposits"]
    BY <1>1 DEF Reorg
  <1>4. /\ log' = [e \in (DOMAIN log \ orphaned) \cup kept |->
                      IF e \in kept THEN moved[e] ELSE log[e]]
        /\ kept \subseteq orphaned
        /\ moved \in [kept -> first .. tip["deposits"]]
        /\ tip' = tip
    BY DEF Reorg
  <1>5. ASSUME NEW e \in DOMAIN log,
               log[e] + Confirmations[LaneOf(e)] <= tip[LaneOf(e)]
        PROVE  e \in DOMAIN log' /\ log'[e] = log[e]
    <2>1. e \notin orphaned
      <3> SUFFICES ASSUME e \in orphaned PROVE FALSE
        OBVIOUS
      <3> QED
        BY <1>1, <1>2, <1>3, <1>5
    <2> QED
      BY <1>4, <2>1
  <1>6. ASSUME NEW e \in DOMAIN log'
        PROVE  \/ e \in DOMAIN log /\ log'[e] = log[e]
               \/ log'[e] + Confirmations[LaneOf(e)] > tip[LaneOf(e)]
    <2>1. CASE e \in kept
      <3>1. log'[e] \in first .. tip["deposits"]
        BY <1>4, <2>1
      <3> HIDE DEF first
      <3> QED
        BY <1>1, <1>2, <1>3, <2>1, <3>1
    <2>2. CASE e \notin kept
      BY <1>4, <2>2
    <2> QED
      BY <2>1, <2>2
  <1>7. \A l \in Lanes : tip[l] <= tip'[l]
    BY <1>1, <1>4
  <1> QED
    BY <1>5, <1>6, <1>7 DEF LogMoves

(* A withdrawal is recorded at the zone's latest height, which is not
   confirmed yet. *)
LEMMA RecordMoves ==
    ASSUME TypeOK, NEW e \in Withdrawals, RecordWithdrawal(e)
    PROVE  LogMoves
  <1>1. /\ Confirmations["withdrawals"] \in Nat \ {0}
        /\ tip \in [Lanes -> Nat]
        /\ "withdrawals" \in Lanes
    BY RelayerAssumption DEF TypeOK, Lanes
  <1>2. LaneOf(e) = "withdrawals"
    BY RelayerAssumption DEF LaneOf
  <1>3. /\ e \notin DOMAIN log
        /\ tip' = tip
        /\ log' = [d \in DOMAIN log \cup {e} |->
                      IF d = e THEN tip["withdrawals"] ELSE log[d]]
    BY DEF RecordWithdrawal
  <1>4. log'[e] + Confirmations[LaneOf(e)] > tip[LaneOf(e)]
    BY <1>1, <1>2, <1>3
  <1> QED
    BY <1>1, <1>3, <1>4 DEF LogMoves

(* Such a change keeps the invariant. *)
LEMMA MovesKeepInv ==
    ASSUME RelayerInv, TypeOK', LogMoves,
           UNCHANGED <<delivered, inflight, storeVars, runVars>>
    PROVE  RelayerInv'
  <1> USE DEF storeVars, runVars
  <1>1. /\ Confirmations \in [Lanes -> Nat]
        /\ tip \in [Lanes -> Nat] /\ tip' \in [Lanes -> Nat]
        /\ checkpoints \in [Lanes -> Nat]
        /\ finalized \in Nat /\ lane \in Lanes
        /\ \A e \in DOMAIN log : log[e] \in Nat
        /\ \A e \in DOMAIN log' : log'[e] \in Nat
        /\ \A e : LaneOf(e) \in Lanes
    BY RelayerAssumption, LaneOfType DEF RelayerInv, TypeOK
  <1>2. CheckpointsConfirmed'
    BY <1>1 DEF RelayerInv, CheckpointsConfirmed, LogMoves
  <1>3. RunConfirmed'
    <2>1. pc \in Running \cup {"fetch"} =>
              finalized + Confirmations[lane] <= tip[lane]
      BY DEF RelayerInv, RunConfirmed
    <2>2. pc \in Running \cup {"fetch"} =>
              finalized + Confirmations[lane] <= tip'[lane]
      BY <1>1, <2>1 DEF LogMoves
    <2>3. ASSUME NEW e \in todo
          PROVE  e \in DOMAIN log' /\ LaneOf(e) = lane /\ log'[e] <= finalized
      <3>1. /\ e \in DOMAIN log /\ LaneOf(e) = lane /\ log[e] <= finalized
            /\ pc \in Running
        BY <2>3 DEF RelayerInv, RunConfirmed
      <3>2. log[e] + Confirmations[LaneOf(e)] <= tip[LaneOf(e)]
        BY <1>1, <2>1, <3>1
      <3> QED
        BY <3>1, <3>2 DEF LogMoves
    <2> QED
      BY <2>2, <2>3 DEF RelayerInv, RunConfirmed
  <1>4. RunComplete'
    <2>1. ASSUME pc \in Running, NEW e \in DOMAIN log', LaneOf(e) = lane,
                 log'[e] <= finalized
          PROVE  e \in delivered \cup todo
      <3>1. finalized + Confirmations[lane] <= tip[lane]
        BY <2>1 DEF RelayerInv, RunConfirmed
      <3>2. e \in DOMAIN log /\ log'[e] = log[e]
        BY <1>1, <2>1, <3>1 DEF LogMoves
      <3> QED
        BY <2>1, <3>2 DEF RelayerInv, RunComplete
    <2> QED
      BY <2>1 DEF RelayerInv, RunComplete
  <1>5. ActedFinal'
    <2>1. ASSUME NEW e \in delivered \cup inflight
          PROVE  /\ e \in DOMAIN log'
                 /\ log'[e] + Confirmations[LaneOf(e)] <= tip'[LaneOf(e)]
      <3>1. /\ e \in DOMAIN log
            /\ log[e] + Confirmations[LaneOf(e)] <= tip[LaneOf(e)]
        BY <2>1 DEF RelayerInv, ActedFinal
      <3>2. e \in DOMAIN log' /\ log'[e] = log[e]
        BY <3>1 DEF LogMoves
      <3>3. tip[LaneOf(e)] <= tip'[LaneOf(e)]
        BY <1>1 DEF LogMoves
      <3> QED
        BY <1>1, <3>1, <3>2, <3>3
    <2> QED
      BY <2>1 DEF ActedFinal
  <1>6. NothingPassedOver'
    <2>1. ASSUME NEW e \in DOMAIN log', log'[e] < checkpoints[LaneOf(e)]
          PROVE  e \in delivered
      <3>1. checkpoints[LaneOf(e)] + Confirmations[LaneOf(e)] <= tip[LaneOf(e)] + 1
        BY <1>1, <2>1 DEF RelayerInv, CheckpointsConfirmed
      <3>2. ~(log'[e] + Confirmations[LaneOf(e)] > tip[LaneOf(e)])
        BY <1>1, <2>1, <3>1
      <3>3. e \in DOMAIN log /\ log'[e] = log[e]
        BY <3>2 DEF LogMoves
      <3> QED
        BY <2>1, <3>3 DEF RelayerInv, NothingPassedOver
    <2> QED
      BY <2>1 DEF NothingPassedOver
  <1> QED
    BY <1>2, <1>3, <1>4, <1>5, <1>6 DEF RelayerInv

-----------------------------------------------------------------------------
(* The relayer. *)

(* A run that is given up, or not begun, takes nothing with it. *)
LEMMA AbandonKeepsInv ==
    ASSUME RelayerInv, TypeOK', pc' \notin Running \cup {"fetch"}, todo' = {},
           UNCHANGED <<tip, log, checkpoints, processed, delivered>>,
           inflight' \subseteq inflight \cup current
    PROVE  RelayerInv'
  <1>1. ActedFinal'
    <2>1. /\ Confirmations \in [Lanes -> Nat]
          /\ tip \in [Lanes -> Nat]
          /\ finalized \in Nat /\ lane \in Lanes
          /\ \A e \in DOMAIN log : log[e] \in Nat
      BY RelayerAssumption DEF RelayerInv, TypeOK
    <2>2. \A e \in current :
              /\ e \in DOMAIN log
              /\ log[e] + Confirmations[LaneOf(e)] <= tip[LaneOf(e)]
      <3> SUFFICES ASSUME NEW e \in current
                   PROVE  /\ e \in DOMAIN log
                          /\ log[e] + Confirmations[LaneOf(e)] <= tip[LaneOf(e)]
        OBVIOUS
      <3>1. e \in todo
        BY DEF RelayerInv, TypeOK
      <3>2. /\ e \in DOMAIN log /\ LaneOf(e) = lane /\ log[e] <= finalized
            /\ finalized + Confirmations[lane] <= tip[lane]
        BY <3>1 DEF RelayerInv, RunConfirmed
      <3> QED
        BY <2>1, <3>2
    <2> QED
      BY <2>2 DEF RelayerInv, ActedFinal
  <1> QED
    BY <1>1 DEF RelayerInv, CheckpointsConfirmed, RunConfirmed, RunComplete,
                NothingPassedOver, Running

(* The checkpoint moves past a range whose events have all taken effect. *)
LEMMA SaveKeepsInv == RelayerInv /\ TypeOK' /\ SaveCheckpoint => RelayerInv'
  <1> SUFFICES ASSUME RelayerInv, TypeOK', SaveCheckpoint
               PROVE  RelayerInv'
    OBVIOUS
  <1>1. /\ Confirmations \in [Lanes -> Nat]
        /\ tip \in [Lanes -> Nat]
        /\ checkpoints \in [Lanes -> Nat]
        /\ finalized \in Nat /\ lane \in Lanes
        /\ \A e \in DOMAIN log : log[e] \in Nat
        /\ \A e : LaneOf(e) \in Lanes
    BY RelayerAssumption, LaneOfType DEF RelayerInv, TypeOK
  <1>2. /\ pc = "next" /\ todo = {}
        /\ checkpoints' = [checkpoints EXCEPT ![lane] = finalized + 1]
        /\ pc' = "observe"
        /\ UNCHANGED <<tip, log, delivered, inflight, processed, todo>>
    BY DEF SaveCheckpoint, chainVars
  <1>3. CheckpointsConfirmed'
    <2>1. finalized + Confirmations[lane] <= tip[lane]
      BY <1>2 DEF RelayerInv, RunConfirmed, Running
    <2>2. ASSUME NEW l \in Lanes
          PROVE  \/ checkpoints'[l] = 0
                 \/ checkpoints'[l] + Confirmations[l] <= tip[l] + 1
      BY <1>1, <1>2, <2>1 DEF RelayerInv, CheckpointsConfirmed
    <2> QED
      BY <1>2, <2>2 DEF CheckpointsConfirmed
  <1>4. NothingPassedOver'
    <2>1. ASSUME NEW e \in DOMAIN log, log[e] < checkpoints'[LaneOf(e)]
          PROVE  e \in delivered
      <3>1. CASE LaneOf(e) = lane
        BY <1>1, <1>2, <2>1, <3>1 DEF RelayerInv, RunComplete, Running
      <3>2. CASE LaneOf(e) # lane
        BY <1>1, <1>2, <2>1, <3>2 DEF RelayerInv, NothingPassedOver
      <3> QED
        BY <3>1, <3>2
    <2> QED
      BY <1>2, <2>1 DEF NothingPassedOver
  <1> QED
    BY <1>2, <1>3, <1>4
    DEF RelayerInv, RunConfirmed, RunComplete, ActedFinal, Running

(* What is fetched, together with what is behind the checkpoint, is all that
   is final. *)
LEMMA FetchKeepsInv == RelayerInv /\ TypeOK' /\ FetchEvents => RelayerInv'
  <1> SUFFICES ASSUME RelayerInv, TypeOK', FetchEvents
               PROVE  RelayerInv'
    OBVIOUS
  <1>1. /\ checkpoints \in [Lanes -> Nat]
        /\ finalized \in Nat /\ lane \in Lanes
        /\ \A e \in DOMAIN log : log[e] \in Nat
    BY DEF RelayerInv, TypeOK
  <1>2. /\ pc = "fetch" /\ pc' = "next"
        /\ todo' = {e \in DOMAIN log : /\ LaneOf(e) = lane
                                       /\ log[e] \in checkpoints[lane] .. finalized}
        /\ UNCHANGED <<tip, log, delivered, inflight, checkpoints, processed,
                       lane, finalized>>
    BY DEF FetchEvents, chainVars, storeVars
  <1>3. RunConfirmed'
    BY <1>1, <1>2 DEF RelayerInv, RunConfirmed, Running
  <1>4. RunComplete'
    <2>1. ASSUME NEW e \in DOMAIN log, LaneOf(e) = lane, log[e] <= finalized
          PROVE  e \in delivered \cup todo'
      <3>1. CASE log[e] < checkpoints[lane]
        BY <2>1, <3>1 DEF RelayerInv, NothingPassedOver
      <3>2. CASE ~(log[e] < checkpoints[lane])
        BY <1>1, <1>2, <2>1, <3>2
      <3> QED
        BY <3>1, <3>2
    <2> QED
      BY <1>2, <2>1 DEF RunComplete
  <1> QED
    BY <1>2, <1>3, <1>4
    DEF RelayerInv, CheckpointsConfirmed, ActedFinal, NothingPassedOver

(* Nothing has been observed at the start. *)
LEMMA InvInit == Init => RelayerInv
  BY TypeInit DEF Init, RelayerInv, CheckpointsConfirmed, RunConfirmed,
     RunComplete, ActedFinal, NothingPassedOver, Running

(* No step of the chains, the run or a fault breaks the invariant. *)
LEMMA InvStep == RelayerInv /\ [Next]_vars => RelayerInv'
  <1> SUFFICES ASSUME RelayerInv, [Next]_vars
               PROVE  RelayerInv'
    OBVIOUS
  <1>0. TypeOK /\ TypeOK'
    BY TypeStep DEF RelayerInv
  <1>1. ASSUME NEW S \in SUBSET Deposits, MineBlock(S)
        PROVE  RelayerInv'
    BY <1>0, <1>1, MineBlockMoves, MovesKeepInv DEF MineBlock, ChainStep
  <1>2. ASSUME NEW depth \in 1 .. Confirmations["deposits"],
               NEW kept \in SUBSET Deposits,
               NEW moved \in [kept -> 0 .. tip["deposits"]],
               Reorg(depth, kept, moved)
        PROVE  RelayerInv'
    <2>1. LogMoves
      BY <1>0, <1>2, ReorgMoves
    <2>2. UNCHANGED <<delivered, inflight, storeVars, runVars>>
      BY <1>2 DEF Reorg, ChainStep
    <2> QED
      BY <1>0, <2>1, <2>2, MovesKeepInv
  <1>3. CASE AdvanceZone
    <2>1. LogMoves
      BY <1>0, <1>3 DEF LogMoves, AdvanceZone, Advance, TypeOK, Lanes
    <2> QED
      BY <1>0, <1>3, <2>1, MovesKeepInv DEF AdvanceZone, ChainStep
  <1>4. ASSUME NEW e \in Withdrawals, RecordWithdrawal(e)
        PROVE  RelayerInv'
    BY <1>0, <1>4, RecordMoves, MovesKeepInv DEF RecordWithdrawal, ChainStep
  <1>5. ASSUME NEW e \in Events, Land(e)
        PROVE  RelayerInv'
    BY <1>0, <1>5
    DEF Land, chainVars, storeVars, runVars, RelayerInv, CheckpointsConfirmed,
        RunConfirmed, RunComplete, ActedFinal, NothingPassedOver
  <1>6. CASE ObserveNothing
    <2>1. /\ pc' \notin Running \cup {"fetch"}
          /\ todo' = {}
          /\ inflight' \subseteq inflight \cup current
          /\ UNCHANGED <<tip, log, checkpoints, processed, delivered>>
      BY <1>6 DEF ObserveNothing, RelayerInv, RunConfirmed, Running, chainVars,
                  storeVars
    <2> QED
      BY <1>0, <2>1, AbandonKeepsInv
  <1>7. CASE ObserveTip
    <2>1. finalized' + Confirmations[lane] <= tip[lane]
      BY <1>7 DEF ObserveTip, Confirmed
    <2> QED
      BY <1>0, <1>7, <2>1
      DEF ObserveTip, RelayerInv, CheckpointsConfirmed, RunConfirmed,
          RunComplete, ActedFinal, NothingPassedOver, Running, chainVars,
          storeVars
  <1>8. CASE FetchEvents
    BY <1>0, <1>8, FetchKeepsInv
  <1>9. CASE SaveCheckpoint
    BY <1>0, <1>9, SaveKeepsInv
  <1>10. ASSUME NEW e \in Events, SkipProcessed(e)
         PROVE  RelayerInv'
    BY <1>0, <1>10
    DEF SkipProcessed, IsProcessed, RelayerInv, CheckpointsConfirmed,
        RunConfirmed, RunComplete, ActedFinal, NothingPassedOver, Running,
        chainVars, storeVars
  <1>11. ASSUME NEW e \in Events, TakeEvent(e)
         PROVE  RelayerInv'
    BY <1>0, <1>11
    DEF TakeEvent, RelayerInv, CheckpointsConfirmed, RunConfirmed,
        RunComplete, ActedFinal, NothingPassedOver, Running, chainVars,
        storeVars
  <1>12. ASSUME NEW e \in Events, SubmitAccepted(e)
         PROVE  RelayerInv'
    <2>1. /\ e \in current /\ pc = "submit" /\ pc' = "mark"
          /\ delivered' = delivered \cup {e}
          /\ UNCHANGED <<tip, log, inflight, checkpoints, processed, lane,
                         finalized, todo, current>>
      BY <1>12 DEF SubmitAccepted, chainVars, storeVars
    <2>2. /\ current' \subseteq delivered'
          /\ e \in todo
      BY <1>0, <2>1 DEF TypeOK
    <2>3. /\ e \in DOMAIN log
          /\ log[e] + Confirmations[LaneOf(e)] <= tip[LaneOf(e)]
      <3>1. /\ e \in DOMAIN log /\ LaneOf(e) = lane /\ log[e] <= finalized
            /\ finalized + Confirmations[lane] <= tip[lane]
        BY <2>1, <2>2 DEF RelayerInv, RunConfirmed, Running
      <3>2. /\ log[e] \in Nat /\ finalized \in Nat
            /\ Confirmations[lane] \in Nat /\ tip[lane] \in Nat
        BY <1>0, <3>1, RelayerAssumption DEF TypeOK
      <3> QED
        BY <3>1, <3>2
    <2> QED
      BY <1>0, <2>1, <2>2, <2>3
      DEF RelayerInv, CheckpointsConfirmed, RunConfirmed, RunComplete,
          ActedFinal, NothingPassedOver, Running
  <1>13. ASSUME NEW e \in Events, SubmitDuplicate(e)
         PROVE  RelayerInv'
    <2>1. /\ pc' \notin Running \cup {"fetch"}
          /\ todo' = {}
          /\ inflight' \subseteq inflight \cup current
          /\ UNCHANGED <<tip, log, checkpoints, processed, delivered>>
      BY <1>13 DEF SubmitDuplicate, AbandonRun, Running, chainVars, storeVars
    <2> QED
      BY <1>0, <2>1, AbandonKeepsInv
  <1>21. ASSUME NEW e \in Events, SubmitRefused(e)
         PROVE  RelayerInv'
    <2>1. /\ pc' \notin Running \cup {"fetch"}
          /\ todo' = {}
          /\ inflight' \subseteq inflight \cup current
          /\ UNCHANGED <<tip, log, checkpoints, processed, delivered>>
      BY <1>21 DEF SubmitRefused, AbandonRun, Running, chainVars, storeVars
    <2> QED
      BY <1>0, <2>1, AbandonKeepsInv
  <1>14. ASSUME NEW e \in Events, MarkProcessed(e)
         PROVE  RelayerInv'
    BY <1>0, <1>14
    DEF MarkProcessed, RelayerInv, CheckpointsConfirmed, RunConfirmed,
        RunComplete, ActedFinal, NothingPassedOver, Running, chainVars
  <1>15. CASE Restart
    <2>1. /\ pc' \notin Running \cup {"fetch"}
          /\ todo' = {}
          /\ inflight' \subseteq inflight \cup current
          /\ UNCHANGED <<tip, log, checkpoints, processed, delivered>>
      BY <1>15 DEF Restart, RelayerInv, RunConfirmed, Running, chainVars,
                   storeVars
    <2> QED
      BY <1>0, <2>1, AbandonKeepsInv
  <1>16. CASE BackOff
    <2>1. /\ pc' \notin Running \cup {"fetch"}
          /\ todo' = {}
          /\ inflight' \subseteq inflight \cup current
          /\ UNCHANGED <<tip, log, checkpoints, processed, delivered>>
      BY <1>16 DEF BackOff, AbandonRun, Running, chainVars, storeVars
    <2> QED
      BY <1>0, <2>1, AbandonKeepsInv
  <1>17. CASE RetrySubmission
    BY <1>0, <1>17
    DEF RetrySubmission, RelayerInv, CheckpointsConfirmed, RunConfirmed,
        RunComplete, ActedFinal, NothingPassedOver, Running, chainVars,
        storeVars
  <1>18. CASE Stop
    <2>1. /\ pc' \notin Running \cup {"fetch"}
          /\ todo' = {}
          /\ inflight' \subseteq inflight \cup current
          /\ UNCHANGED <<tip, log, checkpoints, processed, delivered>>
      BY <1>18 DEF Stop, AbandonRun, Running, chainVars, storeVars
    <2> QED
      BY <1>0, <2>1, AbandonKeepsInv
  <1>19. ASSUME NEW e \in Events, SubmissionLost(e)
         PROVE  RelayerInv'
    <2>1. /\ pc' \notin Running \cup {"fetch"}
          /\ todo' = {}
          /\ inflight' \subseteq inflight \cup current
          /\ UNCHANGED <<tip, log, checkpoints, processed, delivered>>
      BY <1>19 DEF SubmissionLost, AbandonRun, Running, chainVars, storeVars
    <2> QED
      BY <1>0, <2>1, AbandonKeepsInv
  <1>20. CASE UNCHANGED vars
    BY <1>0, <1>20
    DEF vars, RelayerInv, CheckpointsConfirmed, RunConfirmed, RunComplete,
        ActedFinal, NothingPassedOver, Running
  <1> QED
    BY <1>1, <1>2, <1>3, <1>4, <1>5, <1>6, <1>7, <1>8, <1>9, <1>10, <1>11,
       <1>12, <1>13, <1>14, <1>15, <1>16, <1>17, <1>18, <1>19, <1>20, <1>21
    DEF Next, Chains, Run, Faults

(* So the invariant holds throughout. *)
LEMMA RelayerInvariant == Spec => []RelayerInv
  <1> QED
    BY InvInit, InvStep, PTL DEF Spec

-----------------------------------------------------------------------------

(* The relayer never moves a checkpoint past an event that has not been
   delivered, whatever the confirmations, the reorganisations within them, the
   errors and the crashes (runDeposits, runWithdrawals, Watcher.Observe). *)
THEOREM NoEventIsPassedOver == Spec => []NothingPassedOver
  <1>1. RelayerInv => NothingPassedOver
    BY DEF RelayerInv
  <1> QED
    BY RelayerInvariant, <1>1, PTL

(* The relayer marks only what was delivered and acts only on events that stay
   on their chain (MarkProcessed, Watcher.Observe). *)
THEOREM OnlyFinalEvents == Spec => []ActsOnFinalEvents
  <1>1. RelayerInv => ActsOnFinalEvents
    BY DEF RelayerInv, ActsOnFinalEvents, ActedFinal
  <1> QED
    BY RelayerInvariant, <1>1, PTL
=============================================================================
