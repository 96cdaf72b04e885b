---------------------------- MODULE RouteService ----------------------------
(***************************************************************************)
(* What the routing of transfers promises, whoever carries the packets: a   *)
(* transfer is executed on the destination at most once, and only while it  *)
(* is pending; it is given one outcome; it is completed only after it was   *)
(* executed, or on the word of the destination's operator, who may overrule *)
(* a timeout of a transfer that was never executed; and only a failed or    *)
(* timed-out transfer is refunded.                                          *)
(***************************************************************************)
CONSTANT Transfers   \* the identifiers of transfers

VARIABLES status,    \* transfer -> its status on the zone
          executed,  \* the transfers executed on the destination
          judged     \* the transfers acknowledged by its operator

vars == <<status, executed, judged>>

Init ==
    /\ status = [i \in Transfers |-> "none"]
    /\ executed = {}
    /\ judged = {}

Request(i) ==
    /\ status[i] = "none"
    /\ status' = [status EXCEPT ![i] = "pending"]
    /\ UNCHANGED <<executed, judged>>

(* Several transfers may be executed in one visit of the relayer. *)
Execute(batch) ==
    /\ batch # {}
    /\ batch \cap executed = {}
    /\ \A i \in batch : status[i] = "pending"
    /\ executed' = executed \cup batch
    /\ UNCHANGED <<status, judged>>

(* The operator's verdict, which may execute the transfer. *)
Judge(i) ==
    /\ judged' = judged \cup {i}
    /\ \/ UNCHANGED executed
       \/ /\ status[i] = "pending" /\ i \notin executed
          /\ executed' = executed \cup {i}
    /\ UNCHANGED status

Complete(i) ==
    /\ status[i] = "pending" /\ i \in executed \cup judged
    /\ status' = [status EXCEPT ![i] = "completed"]
    /\ UNCHANGED <<executed, judged>>

Fail(i, outcome) ==
    /\ status[i] = "pending"
    /\ status' = [status EXCEPT ![i] = outcome]
    /\ UNCHANGED <<executed, judged>>

Refund(i) ==
    /\ status[i] \in {"ack_failed", "timed_out"}
    /\ status' = [status EXCEPT ![i] = "refunded"]
    /\ UNCHANGED <<executed, judged>>

Next ==
    \/ \E i \in Transfers :
           \/ Request(i) \/ Judge(i) \/ Complete(i) \/ Refund(i)
           \/ \E outcome \in {"ack_failed", "timed_out"} : Fail(i, outcome)
    \/ \E batch \in SUBSET Transfers : Execute(batch)

Spec == Init /\ [][Next]_vars
=============================================================================
