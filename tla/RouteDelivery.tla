--------------------------- MODULE RouteDelivery ---------------------------
(***************************************************************************)
(* Routed transfers end to end: the route keeper of the zone, the           *)
(* destination, and the route relayer (relayer/internal/route) between      *)
(* them.  One run of the relayer applies the acknowledgements that are      *)
(* ready to the zone, one by one, confirming each to the destination, and   *)
(* then delivers the pending transfers.  Each of its calls is a command     *)
(* or a request of its own, so the relayer can stop between any two of      *)
(* them: it is killed, or a call fails, which ends the loop because the     *)
(* errors of these calls are not temporary.  A call whose answer is lost    *)
(* has taken effect; it is the call followed by the stop.  A stopped        *)
(* relayer remembers nothing and is started again from the beginning.       *)
(***************************************************************************)
EXTENDS IBCRouter, RouteTarget, Totals

CONSTANTS Verdicts,     \* the acknowledgements an operator may give by hand
          MaxVerdicts,  \* bound: acknowledgements given by hand
          MaxStops      \* bound: kills and failed calls of the relayer

ASSUME DeliveryAssumption ==
    /\ MaxStops \in Nat /\ MaxVerdicts \in Nat
    /\ Verdicts \subseteq {"completed", "failed", "timed_out"}

VARIABLES
    relayer,    \* where the relayer is in its run
    acks,       \* readyAcks: the acknowledgements it has still to apply
    batch,      \* transfers: the pending transfers it has still to deliver
    stops,      \* how often it was killed or a call failed
    judged,     \* history: the transfers acknowledged by hand
    verdicts    \* how often an acknowledgement was given by hand

relayerVars == <<relayer, acks, batch, stops>>
operatorVars == <<judged, verdicts>>
routeVars == <<routerVars, targetVars, relayerVars, operatorVars>>

RouteTypeOK ==
    /\ RouterTypeOK
    /\ relayer \in {"start", "acks", "confirm", "submit", "stopped"}
    /\ batch \subseteq TransferIDs
    /\ stops \in 0 .. MaxStops
    /\ judged \subseteq TransferIDs
    /\ verdicts \in 0 .. MaxVerdicts
    /\ \A k \in DOMAIN packets : /\ packets[k].state \in PacketStates
                                 /\ packets[k].ack \in AckStatuses
    /\ \A k \in DOMAIN executions : executions[k].result \in Results
    /\ credited \in [Recipients \X TargetDenoms -> Nat]

RouteInit ==
    /\ RouterInit
    /\ TargetInit
    /\ relayer = "start" /\ acks = <<>> /\ batch = {} /\ stops = 0
    /\ judged = {} /\ verdicts = 0

-----------------------------------------------------------------------------
(* The relayer: RunOnceWithSummary, call by call. *)

Goto(place) == relayer' = place /\ UNCHANGED stops

ReadReadyAcks ==
    /\ relayer = "start"
    /\ AdvanceReceivedPackets
    /\ acks' = ReadyAcks(packets')
    /\ Goto("acks")
    /\ UNCHANGED <<batch, operatorVars>>
    /\ UNCHANGED routerVars

(* applyAck: one command of the zone, according to the status. *)
ApplyAck ==
    /\ relayer = "acks" /\ acks # <<>>
    /\ LET ack == Head(acks)
       IN  CASE ack.status = "completed" -> AcknowledgeSuccess(ack.id)
             [] ack.status = "failed" -> AcknowledgeFailure(ack.id)
             [] ack.status = "timed_out" -> TimeoutTransfer(ack.id)
    /\ Goto("confirm")
    /\ UNCHANGED <<acks, batch, operatorVars>>
    /\ UNCHANGED targetVars

ConfirmAck ==
    /\ relayer = "confirm"
    /\ CanConfirm(Head(acks).id)
    /\ ConfirmReadyAck(Head(acks).id)
    /\ acks' = Tail(acks)
    /\ Goto("acks")
    /\ UNCHANGED <<batch, operatorVars>>
    /\ UNCHANGED routerVars

ReadPendingTransfers ==
    /\ relayer = "acks" /\ acks = <<>>
    /\ batch' = {i \in TransferIDs : StatusOf(i) = "pending"}
    /\ Goto("submit")
    /\ UNCHANGED <<acks, operatorVars>>
    /\ UNCHANGED routerVars
    /\ UNCHANGED targetVars

SubmitTransfer(i) ==
    /\ relayer = "submit" /\ i \in batch
    /\ ReceiveTransfer(i, transfers[i])
    /\ batch' = batch \ {i}
    /\ Goto("submit")
    /\ UNCHANGED <<acks, operatorVars>>
    /\ UNCHANGED routerVars

(* RunLoop waits and runs again. *)
FinishRun ==
    /\ relayer = "submit" /\ batch = {}
    /\ Goto("start")
    /\ UNCHANGED <<acks, batch, operatorVars>>
    /\ UNCHANGED routerVars
    /\ UNCHANGED targetVars

Stop == relayer' = "stopped" /\ acks' = <<>> /\ batch' = {}

(* The zone refuses a second outcome (ErrTransferNotPending), the destination
   the confirmation of what is not ready: the error ends the loop. *)
EndOnError ==
    /\ \/ relayer = "acks" /\ acks # <<>> /\ StatusOf(Head(acks).id) # "pending"
       \/ relayer = "confirm" /\ ~CanConfirm(Head(acks).id)
    /\ Stop
    /\ UNCHANGED <<stops, operatorVars>>
    /\ UNCHANGED routerVars
    /\ UNCHANGED targetVars

KilledOrCallFails ==
    /\ relayer # "stopped" /\ stops < MaxStops
    /\ stops' = stops + 1
    /\ Stop
    /\ UNCHANGED operatorVars
    /\ UNCHANGED routerVars
    /\ UNCHANGED targetVars

StartAgain ==
    /\ relayer = "stopped"
    /\ Goto("start")
    /\ UNCHANGED <<acks, batch, operatorVars>>
    /\ UNCHANGED routerVars
    /\ UNCHANGED targetVars

RunRelayer ==
    \/ ReadReadyAcks \/ ApplyAck \/ ConfirmAck \/ ReadPendingTransfers
    \/ \E i \in TransferIDs : SubmitTransfer(i)
    \/ FinishRun \/ EndOnError \/ StartAgain

-----------------------------------------------------------------------------
(* The users and the operators of the two chains. *)

ZoneStep ==
    /\ \/ \E a \in RouteAssets, r \in RouteChoices : SetRoute(a, r)
       \/ \E id \in RouteIDs, p \in ProfileChoices : SetRouteProfile(id, p)
       \/ \E a \in RouteAssets, n \in TransferAmounts, to \in Receivers, m \in Memos :
              \/ InitiateTransfer(a, n, to, m)
              \/ \E id \in RouteIDs : InitiateTransferWithProfile(id, a, n, to, m)
       \/ \E i \in TransferIDs : MarkRefunded(i)
    /\ UNCHANGED operatorVars
    /\ UNCHANGED targetVars
    /\ UNCHANGED relayerVars

(* The operator of the destination gives an acknowledgement by hand, whatever
   acknowledgement the packet already has. *)
JudgeByHand ==
    /\ verdicts < MaxVerdicts
    /\ verdicts' = verdicts + 1
    /\ \E k \in DOMAIN packets, v \in Verdicts :
           /\ AckControl(k, v)
           /\ judged' = judged \cup {packets[k].id}
    /\ UNCHANGED routerVars
    /\ UNCHANGED relayerVars

RouteNext == RunRelayer \/ KilledOrCallFails \/ ZoneStep \/ JudgeByHand

(* The loop keeps running, and a stopped relayer is started again. *)
RouteSpec == RouteInit /\ [][RouteNext]_routeVars /\ WF_routeVars(RunRelayer)

-----------------------------------------------------------------------------
(* Properties. *)

Executed == {executions[k].id : k \in DOMAIN executions}

Service == INSTANCE RouteService WITH
               Transfers <- TransferIDs,
               status <- [i \in TransferIDs |-> StatusOf(i)],
               executed <- Executed,
               judged <- judged

(* Keeper, relayer and destination together implement the service: whatever is
   delivered twice, acknowledged twice, judged by hand or interrupted, a
   transfer is executed while it is pending, gets one outcome, completes only
   after its execution or the operator's verdict, and is refunded only after a
   failure. *)
ImplementsService == Service!Spec

(* A transfer delivered again after a stop or a lost answer is executed once
   (findPacketLocked, advanceReceivedPacketsLocked). *)
ExecutedOnce ==
    \A j, k \in DOMAIN executions :
        executions[j].id = executions[k].id => j = k

(* The pool never pays out more than the product of its reserves allows, and
   every unit of the output denomination is in the pool or was credited for a
   swap (executeSwapLocked, creditBalanceLocked). *)
PoolIsSolvent ==
    /\ pool.in * pool.out >= ReserveIn * ReserveOut
    /\ pool.out + Total(Amounts(executions),
                        {k \in DOMAIN executions : executions[k].result = "swap_success"})
         = ReserveOut

(* Nothing was judged by hand: then what the zone says of a transfer is what
   happened to it.  A completed transfer was executed with success, and a
   failed one was not, unless the destination is set up to fail. *)
StatusIsTruthful ==
    \A i \in TransferIDs :
        LET succeeded == \E k \in DOMAIN executions :
                             executions[k].id = i /\ executions[k].result \in Succeeded
        IN  i \notin judged =>
                /\ StatusOf(i) = "completed" => succeeded
                /\ StatusOf(i) \in {"ack_failed", "timed_out", "refunded"} /\ mode # "fail"
                       => ~succeeded

(* An acknowledgement that the zone has applied and the destination still
   offers: applying it again is refused. *)
Repeated ==
    \E k \in DOMAIN packets :
        packets[k].state = "ack_ready" /\ StatusOf(packets[k].id) # "pending"

(* Every pending transfer gets its outcome, through any number of stops, unless
   the relayer meets an acknowledgement it has already applied, or the operator
   of a manual destination gives none. *)
TransfersGetOutcome ==
    \A i \in TransferIDs :
        StatusOf(i) = "pending" /\ mode # "manual"
            ~> StatusOf(i) # "pending" \/ Repeated
=============================================================================
