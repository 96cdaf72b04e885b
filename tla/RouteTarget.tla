---------------------------- MODULE RouteTarget ----------------------------
(***************************************************************************)
(* The destination of routed transfers (relayer/internal/route: MockTarget, *)
(* behind osmo-locald).  It stores a packet per transfer, executes it once, *)
(* as a credit, a swap against a pool or a stake, and keeps its             *)
(* acknowledgement until the relayer confirms it.  The state is one file:   *)
(* every command loads it, works on it and writes it back, so an operation  *)
(* is one step and a crash leaves the state before or after it.             *)
(*                                                                          *)
(* AckRelayed is true exactly in state "ack_relayed" and is not kept apart, *)
(* nor is the list of receipts, a copy of the packets.                      *)
(***************************************************************************)
EXTENDS Integers, Sequences

CONSTANTS
    Recipients,    \* the accounts of the destination
    TargetDenoms,  \* the denominations of the destination
    TargetModes,   \* the modes a target may be configured with
    SwapDenom,     \* the output denomination of the pool
    PoolDenom,     \* the input denomination of the pool
    ReserveIn,     \* its reserves when the target is set up
    ReserveOut,
    FeeBPS         \* its fee in hundredths of a percent

ASSUME PoolAssumption ==
    /\ ReserveIn \in Nat \ {0} /\ ReserveOut \in Nat \ {0}
    /\ FeeBPS \in 0 .. 9999
    /\ TargetModes \subseteq {"success", "fail", "timeout", "manual"}
    /\ {SwapDenom, PoolDenom} \subseteq TargetDenoms

VARIABLES
    mode,         \* how the target answers
    packets,      \* the packets received, oldest first
    executions,   \* what was executed, oldest first
    credited,     \* balances: <<recipient, denom>> -> amount
    pool          \* the reserves of the pool

targetVars == <<mode, packets, executions, credited, pool>>

PacketStates == {"received", "executed", "ack_ready", "ack_relayed"}

AckStatuses == {"pending", "completed", "failed", "timed_out"}

Results == {"credit", "swap_success", "swap_failed", "stake_success",
            "stake_failed", "invalid_action"}

Succeeded == {"credit", "swap_success", "stake_success"}

TargetInit ==
    /\ mode \in TargetModes
    /\ packets = <<>>
    /\ executions = <<>>
    /\ credited = [w \in Recipients \X TargetDenoms |-> 0]
    /\ pool = [in |-> ReserveIn, out |-> ReserveOut]

-----------------------------------------------------------------------------
(* parseRouteAction: no action for an empty memo or a lone word, except that
   "swap" needs a target; malformed options and other words are errors. *)
RouteAction(memo) ==
    CASE memo.word = "" \/ (memo.target = "" /\ memo.word # "swap") -> "none"
      [] memo.word = "swap" /\ memo.target # "" /\ memo.wellFormed -> "swap"
      [] memo.word = "stake" /\ memo.target # "" /\ memo.wellFormed -> "stake"
      [] OTHER -> "error"

(* buildDeliveryEnvelope and findPacketLocked. *)
PacketOf(id, transfer) ==
    [id |-> id, amount |-> transfer.amount, denom |-> transfer.denom,
     receiver |-> transfer.receiver, memo |-> transfer.memo,
     state |-> "received", ack |-> "pending"]

Known(id) == \E k \in DOMAIN packets : packets[k].id = id

ReceiveTransfer(id, transfer) ==
    /\ packets' = IF Known(id) THEN packets
                  ELSE Append(packets, PacketOf(id, transfer))
    /\ UNCHANGED <<mode, executions, credited, pool>>

-----------------------------------------------------------------------------
(* executeSwapLocked: a constant-product pool whose reserves grow by the input
   after the fee. *)
EffectiveInput(amount) == (amount * (10000 - FeeBPS)) \div 10000

(* Mutant: the output is rounded up. *)
SwapOutputUp(reserves, in) ==
    (reserves.out * in + reserves.in + in - 1) \div (reserves.in + in)

SwapOutput(reserves, in) == (reserves.out * in) \div (reserves.in + in)

SwapAllowed(reserves, packet) ==
    LET in  == EffectiveInput(packet.amount)
        out == SwapOutput(reserves, in)
    IN  /\ packet.denom = PoolDenom /\ packet.memo.target = SwapDenom
        /\ in > 0 /\ out > 0 /\ out < reserves.out
        /\ out >= packet.memo.minOut

(* A stake is recorded apart from the balances and needs the denomination that
   was received and a validator. *)
StakeAllowed(packet) == packet.memo.target = packet.denom /\ packet.memo.path

(* The memo of an action may name another recipient than the transfer. *)
ExecutionRecipient(packet) ==
    IF RouteAction(packet.memo) \in {"swap", "stake"} /\ packet.memo.recipient # ""
    THEN packet.memo.recipient ELSE packet.receiver

(* executePacketLocked: what a packet does against the reserves it meets. *)
Execution(packet, reserves) ==
    LET action == RouteAction(packet.memo)
        outcome(result, denom, amount) ==
            [id |-> packet.id, result |-> result, denom |-> denom,
             amount |-> amount, recipient |-> ExecutionRecipient(packet)]
    IN  CASE action = "error" -> outcome("invalid_action", packet.denom, 0)
          [] action = "swap" /\ SwapAllowed(reserves, packet) ->
                 outcome("swap_success", SwapDenom,
                         SwapOutput(reserves, EffectiveInput(packet.amount)))
          [] action = "swap" /\ ~SwapAllowed(reserves, packet) ->
                 outcome("swap_failed", packet.denom, 0)
          [] action = "stake" /\ StakeAllowed(packet) ->
                 outcome("stake_success", packet.denom, packet.amount)
          [] action = "stake" /\ ~StakeAllowed(packet) ->
                 outcome("stake_failed", packet.denom, 0)
          [] OTHER -> outcome("credit", packet.denom, packet.amount)

ReservesAfter(packet, reserves, execution) ==
    IF execution.result = "swap_success"
    THEN [in |-> reserves.in + EffectiveInput(packet.amount),
          out |-> reserves.out - execution.amount]
    ELSE reserves

(* creditBalanceLocked; a stake credits nothing. *)
CreditsAfter(balances, execution) ==
    IF execution.result \in {"credit", "swap_success"}
    THEN [balances EXCEPT ![<<execution.recipient, execution.denom>>] =
             @ + execution.amount]
    ELSE balances

AckStateForMode ==
    CASE mode = "success" -> "completed"
      [] mode = "fail" -> "failed"
      [] mode = "timeout" -> "timed_out"
      [] mode = "manual" -> "pending"

(* Mutant: the result of the execution is ignored. *)
AckForMode(result) == AckStateForMode

(* Mutant: a failed execution is not acknowledged. *)
AckForSuccess(result) == IF result \in Succeeded THEN AckStateForMode ELSE "pending"

(* advancePacketAfterExecutionLocked; a failed execution is acknowledged as
   failed in every mode. *)
AckFor(result) == IF result \in Succeeded THEN AckStateForMode ELSE "failed"

Acked(packet, ack) ==
    [packet EXCEPT !.state = IF ack = "pending" THEN "executed" ELSE "ack_ready",
                   !.ack = ack]

(* Mutant: a packet is executed again each time the acknowledgements are read
   until its acknowledgement is confirmed. *)
ExecuteUnconfirmed(k, state) ==
    LET packet    == state.packets[k]
        execution == Execution(packet, state.pool)
    IN  IF packet.state \notin {"received", "ack_ready"} THEN state
        ELSE [packets |-> [state.packets EXCEPT
                              ![k] = Acked(packet, AckFor(execution.result))],
              executions |-> Append(state.executions, execution),
              credited |-> CreditsAfter(state.credited, execution),
              pool |-> ReservesAfter(packet, state.pool, execution)]

Execute(k, state) ==
    LET packet    == state.packets[k]
        execution == Execution(packet, state.pool)
    IN  IF packet.state # "received" THEN state
        ELSE [packets |-> [state.packets EXCEPT
                              ![k] = Acked(packet, AckFor(execution.result))],
              executions |-> Append(state.executions, execution),
              credited |-> CreditsAfter(state.credited, execution),
              pool |-> ReservesAfter(packet, state.pool, execution)]

Current == [packets |-> packets, executions |-> executions,
            credited |-> credited, pool |-> pool]

Becomes(state) ==
    /\ packets' = state.packets
    /\ executions' = state.executions
    /\ credited' = state.credited
    /\ pool' = state.pool

(* The loop of advanceReceivedPacketsLocked, after its first n packets. *)
ExecutedUpTo[n \in 0 .. Len(packets)] ==
    IF n = 0 THEN Current ELSE Execute(n, ExecutedUpTo[n - 1])

(* advanceReceivedPacketsLocked: every received packet, in the order of
   arrival, is executed, or answered with a timeout in mode "timeout". *)
Advanced ==
    IF mode = "timeout"
    THEN [Current EXCEPT !.packets =
             [k \in DOMAIN packets |-> IF packets[k].state = "received"
                                       THEN Acked(packets[k], "timed_out")
                                       ELSE packets[k]]]
    ELSE ExecutedUpTo[Len(packets)]

AdvanceReceivedPackets ==
    /\ \E state \in {Advanced} : Becomes(state)
    /\ UNCHANGED mode

(* ReadyAckRecords, after the packets were advanced. *)
ReadyAcks(ps) ==
    LET ready[n \in 0 .. Len(ps)] ==
            IF n = 0 THEN <<>>
            ELSE IF ps[n].state = "ack_ready"
                 THEN Append(ready[n - 1], [id |-> ps[n].id, status |-> ps[n].ack])
                 ELSE ready[n - 1]
    IN  ready[Len(ps)]

-----------------------------------------------------------------------------
(* setAckState and handleAckControl.  A confirmation needs a ready
   acknowledgement; the operator's other verdicts are taken in every state, and
   make the acknowledgement ready again. *)
CanConfirm(id) ==
    \E k \in DOMAIN packets : packets[k].id = id /\ packets[k].state = "ack_ready"

ConfirmReadyAck(id) ==
    /\ packets' = [k \in DOMAIN packets |->
                      IF packets[k].id = id
                      THEN [packets[k] EXCEPT !.state = "ack_relayed"]
                      ELSE packets[k]]
    /\ UNCHANGED <<mode, executions, credited, pool>>

AckControl(k, verdict) ==
    LET state == IF verdict = "timed_out" THEN Current ELSE Execute(k, Current)
    IN  /\ Becomes([state EXCEPT !.packets[k] = Acked(@, verdict)])
        /\ UNCHANGED mode
=============================================================================
