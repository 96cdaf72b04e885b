-------------------------- MODULE RelayerPipeline --------------------------
(***************************************************************************)
(* The bridge relayer (relayer/internal/pipeline, replay, evm, cosmos): a  *)
(* daemon that carries the deposits it observes on Ethereum to the zone    *)
(* and the withdrawals it observes on the zone to Ethereum.  Each run      *)
(* works off the deposits lane and then the withdrawals lane: it reads the *)
(* tip, fetches the events between its checkpoint and the confirmed tip,   *)
(* submits those its replay store does not hold, marks each of them as it  *)
(* is accepted, and saves the new checkpoint when all are done.            *)
(*                                                                         *)
(* The replay store is one file, written to a temporary name and renamed,  *)
(* so each of its updates is one durable step.  All other state of the     *)
(* relayer is lost when it stops, and it may stop anywhere.                *)
(***************************************************************************)
EXTENDS Naturals, FiniteSets

CONSTANTS
    Deposits,              \* DepositInitiated events of the gateway
    Withdrawals,           \* withdrawal records of the zone
    RefusedChoices,        \* the sets of events that may be refused for ever
    Confirmations,         \* lane -> EVMConfirmations, CosmosConfirmations
    SubmissionRetryLimit,  \* attempts for one event in one run
    MaxTip,                \* bound: blocks of each chain
    MaxReorgs,             \* bound: reorganisations of Ethereum
    MaxTemporary,          \* bound: temporary errors
    MaxStops,              \* bound: crashes and errors that end the daemon
    MaxLost                \* bound: submissions whose answer is lost

Lanes == {"deposits", "withdrawals"}
Events == Deposits \cup Withdrawals
LaneOf(e) == IF e \in Deposits THEN "deposits" ELSE "withdrawals"

(* A withdrawal takes the height of the zone's current block, which is also
   the height the zone reports as its latest: that block is still filling up,
   so the zone needs a confirmation (the default of CosmosConfirmations). *)
ASSUME RelayerAssumption ==
    /\ Deposits \cap Withdrawals = {}
    /\ RefusedChoices \subseteq SUBSET Events
    /\ Confirmations \in [Lanes -> Nat]
    /\ Confirmations["withdrawals"] >= 1
    /\ SubmissionRetryLimit \in Nat \ {0}
    /\ MaxTip \in Nat /\ MaxReorgs \in Nat /\ MaxTemporary \in Nat
    /\ MaxStops \in Nat /\ MaxLost \in Nat

VARIABLES
    tip,          \* lane -> latest block of the chain the lane observes
    log,          \* event on its chain -> its block
    refused,      \* events whose claim or release is never accepted
    delivered,    \* events that took effect on the destination chain
    inflight,     \* submissions that were sent and given up waiting for
    checkpoints,  \* replay store: lane -> next block to scan
    processed,    \* replay store: events marked
    pc,           \* what the daemon does next
    lane,         \* the lane it works on
    finalized,    \* the confirmed tip of this lane in this run
    todo,         \* fetched events that it has not dealt with
    current,      \* the event it submits; a set of at most one
    attempt,      \* the attempt at it
    faults        \* bound counters

chainVars == <<tip, log, refused>>
storeVars == <<checkpoints, processed>>
runVars == <<pc, lane, finalized, todo, current, attempt>>
vars == <<tip, log, refused, delivered, inflight, checkpoints, processed, pc,
          lane, finalized, todo, current, attempt, faults>>

TypeOK ==
    /\ tip \in [Lanes -> Nat]
    /\ DOMAIN log \subseteq Events
    /\ log \in [DOMAIN log -> Nat]
    /\ refused \subseteq Events
    /\ delivered \subseteq Events
    /\ inflight \subseteq Events
    /\ checkpoints \in [Lanes -> Nat]
    /\ processed \subseteq Events
    /\ pc \in {"observe", "fetch", "next", "submit", "mark", "stopped"}
    /\ lane \in Lanes
    /\ finalized \in Nat
    /\ todo \subseteq Events
    /\ current \subseteq todo
    /\ pc \in {"submit", "mark"} <=> current # {}
    /\ \A d, e \in current : d = e
    /\ attempt \in 1 .. SubmissionRetryLimit
    /\ faults \in [reorgs : 0 .. MaxReorgs, temporary : 0 .. MaxTemporary,
                   stops : 0 .. MaxStops, lost : 0 .. MaxLost]

Init ==
    /\ tip = [l \in Lanes |-> 0]
    /\ log = [e \in {} |-> 0]
    /\ refused \in RefusedChoices
    /\ delivered = {}
    /\ inflight = {}
    /\ checkpoints = [l \in Lanes |-> 0]
    /\ processed = {}
    /\ pc = "observe"
    /\ lane = "deposits"
    /\ finalized = 0
    /\ todo = {}
    /\ current = {}
    /\ attempt = 1
    /\ faults = [reorgs |-> 0, temporary |-> 0, stops |-> 0, lost |-> 0]

-----------------------------------------------------------------------------
(* The two chains. *)

Advance(l) == tip[l] < MaxTip /\ tip' = [tip EXCEPT ![l] = @ + 1]

ChainStep ==
    UNCHANGED <<refused, delivered, inflight, storeVars, runVars>>

(* A block of Ethereum arrives with its deposits. *)
MineBlock(S) ==
    /\ S \cap DOMAIN log = {}
    /\ Advance("deposits")
    /\ log' = [e \in DOMAIN log \cup S |->
                  IF e \in S THEN tip'["deposits"] ELSE log[e]]
    /\ UNCHANGED faults
    /\ ChainStep

(* The last blocks of Ethereum, at most Confirmations of them, give way to
   others: the deposits in them disappear or turn up in one of the new ones. *)
Reorg(depth, kept, moved) ==
    LET first    == tip["deposits"] - depth + 1
        orphaned == {e \in Deposits \cap DOMAIN log : log[e] >= first}
    IN  /\ faults.reorgs < MaxReorgs
        /\ depth <= tip["deposits"]
        /\ kept \subseteq orphaned
        /\ moved \in [kept -> first .. tip["deposits"]]
        /\ log' = [e \in (DOMAIN log \ orphaned) \cup kept |->
                      IF e \in kept THEN moved[e] ELSE log[e]]
        /\ faults' = [faults EXCEPT !.reorgs = @ + 1]
        /\ UNCHANGED tip
        /\ ChainStep

AdvanceZone ==
    /\ Advance("withdrawals")
    /\ UNCHANGED <<log, faults>>
    /\ ChainStep

(* The zone records a withdrawal at its current height. *)
RecordWithdrawal(e) ==
    /\ e \notin DOMAIN log
    /\ log' = [d \in DOMAIN log \cup {e} |->
                  IF d = e THEN tip["withdrawals"] ELSE log[d]]
    /\ UNCHANGED <<tip, faults>>
    /\ ChainStep

(* A submission that the relayer gave up on takes effect after all; if
   another one came first, the destination rejects it. *)
Land(e) ==
    /\ e \in inflight
    /\ inflight' = inflight \ {e}
    /\ delivered' = delivered \cup {e}
    /\ UNCHANGED <<chainVars, storeVars, runVars, faults>>

-----------------------------------------------------------------------------
(* A run of the pipeline. *)

(* Mutant: the tip is taken for final. *)
ConfirmedToTip(l) == 0 .. tip[l]

(* The blocks that have their confirmations; none while the chain is
   shorter than that. *)
Confirmed(l) == {b \in 0 .. tip[l] : b + Confirmations[l] <= tip[l]}

(* The next lane of this run, or the first one of the next run. *)
NextLane == IF lane = "deposits" THEN "withdrawals" ELSE "deposits"

(* Watcher.Observe reads the latest block.  With nothing new that is
   confirmed, the lane is done: the checkpoint is saved as it was. *)
ObserveNothing ==
    /\ pc = "observe"
    /\ \A b \in Confirmed(lane) : b < checkpoints[lane]
    /\ lane' = NextLane
    /\ UNCHANGED <<chainVars, delivered, inflight, storeVars, pc, finalized,
                   todo, current, attempt, faults>>

ObserveTip ==
    /\ pc = "observe"
    /\ \E b \in Confirmed(lane) :
           /\ b >= checkpoints[lane]
           /\ \A c \in Confirmed(lane) : c <= b
           /\ finalized' = b
    /\ pc' = "fetch"
    /\ UNCHANGED <<chainVars, delivered, inflight, storeVars, lane, todo,
                   current, attempt, faults>>

(* The events from the checkpoint to the confirmed tip; blocks may arrive or
   be replaced between the two requests. *)
FetchEvents ==
    /\ pc = "fetch"
    /\ todo' = {e \in DOMAIN log : /\ LaneOf(e) = lane
                                   /\ log[e] \in checkpoints[lane] .. finalized}
    /\ pc' = "next"
    /\ UNCHANGED <<chainVars, delivered, inflight, storeVars, lane, finalized,
                   current, attempt, faults>>

(* Events are taken in the order of their blocks.  Inside a block they are
   ordered by log index, which is left open. *)
IsFirst(e) == /\ e \in todo
              /\ \A d \in todo : /\ d \in DOMAIN log
                                 /\ e \in DOMAIN log
                                 /\ log[e] <= log[d]

(* Mutant: the replay store is not asked. *)
NeverProcessed(e) == FALSE

IsProcessed(e) == e \in processed

SkipProcessed(e) ==
    /\ pc = "next" /\ IsFirst(e)
    /\ IsProcessed(e)
    /\ todo' = todo \ {e}
    /\ UNCHANGED <<chainVars, delivered, inflight, storeVars, pc, lane,
                   finalized, current, attempt, faults>>

TakeEvent(e) ==
    /\ pc = "next" /\ IsFirst(e)
    /\ ~IsProcessed(e)
    /\ current' = {e}
    /\ attempt' = 1
    /\ pc' = "submit"
    /\ UNCHANGED <<chainVars, delivered, inflight, storeVars, lane, finalized,
                   todo, faults>>

(* The destination accepts the event and the relayer sees the answer. *)
SubmitAccepted(e) ==
    /\ pc = "submit" /\ e \in current
    /\ e \notin delivered \cup refused
    /\ delivered' = delivered \cup {e}
    /\ pc' = "mark"
    /\ UNCHANGED <<chainVars, inflight, storeVars, lane, finalized, todo,
                   current, attempt, faults>>

MarkProcessed(e) ==
    /\ pc = "mark" /\ e \in current
    /\ processed' = processed \cup {e}
    /\ todo' = todo \ {e}
    /\ current' = {}
    /\ pc' = "next"
    /\ UNCHANGED <<chainVars, delivered, inflight, checkpoints, lane,
                   finalized, attempt, faults>>

(* Mutant: the checkpoint moves on before the events are dealt with. *)
SaveCheckpointEarly ==
    /\ pc = "next"
    /\ checkpoints' = [checkpoints EXCEPT ![lane] = finalized + 1]
    /\ lane' = NextLane
    /\ pc' = "observe"
    /\ todo' = {}
    /\ UNCHANGED <<chainVars, delivered, inflight, processed, finalized,
                   current, attempt, faults>>

SaveCheckpoint ==
    /\ pc = "next" /\ todo = {}
    /\ checkpoints' = [checkpoints EXCEPT ![lane] = finalized + 1]
    /\ lane' = NextLane
    /\ pc' = "observe"
    /\ UNCHANGED <<chainVars, delivered, inflight, processed, finalized, todo,
                   current, attempt, faults>>

-----------------------------------------------------------------------------
(* Errors. *)

(* The run is over: nothing of it is kept. *)
AbandonRun(next) ==
    /\ pc' = next
    /\ lane' = "deposits"
    /\ todo' = {}
    /\ current' = {}
    /\ attempt' = 1
    /\ UNCHANGED finalized

(* A temporary error, of a request for the tip or the events of Ethereum, or
   of the last attempt at a submission: the daemon backs off and starts the
   next run. *)
BackOff ==
    /\ faults.temporary < MaxTemporary
    /\ \/ pc \in {"observe", "fetch"} /\ lane = "deposits"
       \/ pc = "submit" /\ attempt = SubmissionRetryLimit
    /\ faults' = [faults EXCEPT !.temporary = @ + 1]
    /\ AbandonRun("observe")
    /\ UNCHANGED <<chainVars, delivered, inflight, storeVars>>

(* Mutant: one attempt too many. *)
RetryOnceMore ==
    /\ faults.temporary < MaxTemporary
    /\ pc = "submit" /\ attempt <= SubmissionRetryLimit
    /\ faults' = [faults EXCEPT !.temporary = @ + 1]
    /\ attempt' = attempt + 1
    /\ UNCHANGED <<chainVars, delivered, inflight, storeVars, pc, lane,
                   finalized, todo, current>>

(* A submission that fails with a temporary error is attempted again. *)
RetrySubmission ==
    /\ faults.temporary < MaxTemporary
    /\ pc = "submit" /\ attempt < SubmissionRetryLimit
    /\ faults' = [faults EXCEPT !.temporary = @ + 1]
    /\ attempt' = attempt + 1
    /\ UNCHANGED <<chainVars, delivered, inflight, storeVars, pc, lane,
                   finalized, todo, current>>

(* Any other error ends the daemon, as does a crash: a source that fails, a
   submission that is refused for now, a store that cannot be written. *)
Stop ==
    /\ pc # "stopped"
    /\ faults.stops < MaxStops
    /\ faults' = [faults EXCEPT !.stops = @ + 1]
    /\ AbandonRun("stopped")
    /\ UNCHANGED <<chainVars, delivered, inflight, storeVars>>

(* The wait for the receipt times out, or the connection breaks, after the
   submission was sent: an error, but the submission may still land. *)
SubmissionLost(e) ==
    /\ pc = "submit" /\ e \in current
    /\ e \notin delivered \cup refused
    /\ faults.lost < MaxLost
    /\ faults' = [faults EXCEPT !.lost = @ + 1]
    /\ inflight' = inflight \cup {e}
    /\ AbandonRun("stopped")
    /\ UNCHANGED <<chainVars, delivered, storeVars>>

(* An event that has taken effect is refused as a duplicate, by the claim's
   replay key on the zone and the used proof on Ethereum; that error is not a
   temporary one. *)
SubmitDuplicate(e) ==
    /\ pc = "submit" /\ e \in current
    /\ e \in delivered
    /\ AbandonRun("stopped")
    /\ UNCHANGED <<chainVars, delivered, inflight, storeVars, faults>>

(* An event that is never accepted: its claim is invalid, its votes never
   suffice, the keeper or the gateway refuses it for good.  The error ends the
   daemon, and each start comes to the event again. *)
SubmitRefused(e) ==
    /\ pc = "submit" /\ e \in current
    /\ e \in refused
    /\ AbandonRun("stopped")
    /\ UNCHANGED <<chainVars, delivered, inflight, storeVars, faults>>

Restart ==
    /\ pc = "stopped"
    /\ pc' = "observe"
    /\ UNCHANGED <<chainVars, delivered, inflight, storeVars, lane, finalized,
                   todo, current, attempt, faults>>

-----------------------------------------------------------------------------

Chains ==
    \/ \E S \in SUBSET Deposits : MineBlock(S)
    \/ \E depth \in 1 .. Confirmations["deposits"], kept \in SUBSET Deposits :
           \E moved \in [kept -> 0 .. tip["deposits"]] : Reorg(depth, kept, moved)
    \/ AdvanceZone
    \/ \E e \in Withdrawals : RecordWithdrawal(e)
    \/ \E e \in Events : Land(e)

Run ==
    \/ ObserveNothing \/ ObserveTip \/ FetchEvents \/ SaveCheckpoint
    \/ \E e \in Events : \/ SkipProcessed(e) \/ TakeEvent(e)
                         \/ SubmitAccepted(e) \/ SubmitDuplicate(e)
                         \/ SubmitRefused(e) \/ MarkProcessed(e)
    \/ Restart

Faults == BackOff \/ RetrySubmission \/ Stop \/ \E e \in Events : SubmissionLost(e)

Next == Chains \/ Run \/ Faults

Spec == Init /\ [][Next]_vars

(* The daemon loop keeps running, and its operator restarts it when it has
   stopped; nothing is assumed of the chains. *)
FairSpec == Spec /\ WF_vars(Run)

-----------------------------------------------------------------------------
(* Properties. *)

(* What lies behind a checkpoint will never be scanned again, so all of it has
   been delivered: no crash, retry, reorganisation or late block makes the
   relayer pass over an event (runDeposits, runWithdrawals, Observe). *)
NothingPassedOver ==
    \A e \in DOMAIN log : log[e] < checkpoints[LaneOf(e)] => e \in delivered

(* The replay store marks only what has taken effect (MarkProcessed after
   submitWithRetry and releaseWithRetry), and a reorganisation no deeper than
   the confirmations never takes back an event that was acted upon. *)
ActsOnFinalEvents ==
    /\ processed \subseteq delivered
    /\ delivered \cup inflight \subseteq DOMAIN log

IsFinal(e) == e \in DOMAIN log /\ log[e] \in Confirmed(LaneOf(e))

(* An event took effect, and no one will mark it any more. *)
Wedged == \E e \in delivered \ processed : ~(pc = "mark" /\ e \in current)

(* A confirmed event that is never accepted stands in the way of a confirmed
   event e: it comes no later in e's lane, or it is a deposit, whose error ends
   the run before the withdrawals. *)
HeldUp(e) ==
    \E d \in refused :
        /\ IsFinal(d) /\ IsFinal(e)
        /\ \/ LaneOf(d) = LaneOf(e) /\ log[d] <= log[e]
           \/ LaneOf(d) = "deposits" /\ LaneOf(e) = "withdrawals"

(* Every confirmed event is processed in the end, or the relayer is stuck on
   one whose delivery it failed to record, or on one in front of it that is
   never accepted: neither temporary errors, nor crashes elsewhere, nor events
   it has already processed, nor refused events behind it hold it up. *)
EventuallyProcessed ==
    \A e \in Events : IsFinal(e) ~> (e \in processed \/ Wedged \/ HeldUp(e))
=============================================================================
