----------------------------- MODULE IBCRouter -----------------------------
(***************************************************************************)
(* The route keeper of the zone (chain/aegislink/x/ibcrouter): which        *)
(* assets may leave over which route, and the life of each outgoing         *)
(* transfer from "pending" to its acknowledgement, timeout or refund.       *)
(* Every operation ends with persist, which rewrites the whole store and    *)
(* commits it, so a finished operation survives a restart of the process.   *)
(*                                                                          *)
(* A transfer's identifier is "ibc/<asset>/<sequence>"; the sequence alone  *)
(* tells transfers apart, and stands for the identifier.  A memo is the     *)
(* record of what the code reads in it: the word before the first colon,    *)
(* the target after it and the option that bounds the output of a swap.     *)
(***************************************************************************)
EXTENDS Integers, Sequences, FiniteSets

CONSTANTS
    RouteAssets,      \* the assets that transfers are requested for
    RouteIDs,         \* the names of route profiles
    Receivers,        \* receivers on the destination
    TransferAmounts,  \* the amounts requested
    Memos,            \* the memos requested
    RouteChoices,     \* the routes SetRoute is called with
    ProfileChoices,   \* the profiles SetRouteProfile is called with
    MaxTransfers      \* bound: transfers initiated

ASSUME RouterAssumption ==
    /\ MaxTransfers \in Nat \ {0}
    /\ TransferAmounts \subseteq Nat

VARIABLES
    routes,             \* asset -> Route, or NoRoute
    routeProfiles,      \* route id -> RouteProfile, or NoRoute
    transfers,          \* sequence -> TransferRecord, or NoTransfer
    transportSessions,  \* sequence -> stage of the transport session
    nextSequence        \* the next transfer's sequence

policyOfRoutes == <<routes, routeProfiles>>
transferVars == <<transfers, transportSessions, nextSequence>>
routerVars == <<routes, routeProfiles, transfers, transportSessions, nextSequence>>

TransferIDs == 1 .. MaxTransfers

NoRoute == [enabled |-> FALSE, missing |-> TRUE]

NoTransfer == [status |-> "none"]

TransferStatus == {"pending", "completed", "ack_failed", "timed_out", "refunded"}

(* OpenTransportSession and MarkPacketRelayed, which have no caller, would add
   the stages "handshake_open" and "packet_relayed". *)
TransportStage == {"none", "handshake_pending", "ack_completed", "ack_failed",
                   "timed_out"}

(* The receiver and the amount of a stored transfer are valid; its denomination
   is the one its route named when it was initiated. *)
IsTransferRecord(t) ==
    /\ DOMAIN t = {"asset", "amount", "receiver", "denom", "memo", "status"}
    /\ t.asset \in RouteAssets
    /\ t.amount \in TransferAmounts \ {0}
    /\ t.receiver \in Receivers
    /\ t.memo \in Memos
    /\ t.status \in TransferStatus

RouterTypeOK ==
    /\ routes \in [RouteAssets -> RouteChoices \cup {NoRoute}]
    /\ routeProfiles \in [RouteIDs -> ProfileChoices \cup {NoRoute}]
    /\ DOMAIN transfers = TransferIDs
    /\ \A i \in TransferIDs : transfers[i] = NoTransfer \/ IsTransferRecord(transfers[i])
    /\ transportSessions \in [TransferIDs -> TransportStage]
    /\ nextSequence \in 1 .. MaxTransfers + 1

RouterInit ==
    /\ routes = [a \in RouteAssets |-> NoRoute]
    /\ routeProfiles = [r \in RouteIDs |-> NoRoute]
    /\ transfers = [i \in TransferIDs |-> NoTransfer]
    /\ transportSessions = [i \in TransferIDs |-> "none"]
    /\ nextSequence = 1

StatusOf(i) == transfers[i].status

-----------------------------------------------------------------------------
(* Routes and route profiles.  Both are replaced as a whole; transfers that
   are already pending keep the destination they were given. *)

SetRoute(asset, route) ==
    /\ routes' = [routes EXCEPT ![asset] = route]
    /\ UNCHANGED <<routeProfiles, transfers, transportSessions, nextSequence>>

SetRouteProfile(id, profile) ==
    /\ routeProfiles' = [routeProfiles EXCEPT ![id] = profile]
    /\ UNCHANGED <<routes, transfers, transportSessions, nextSequence>>

(* RoutePolicy: an empty list allows everything, a memo without an action is
   no action, and the empty prefix allows the empty memo only. *)
AllowsAction(policy, memo) ==
    policy.actions = {} \/ memo.word = "" \/ memo.word \in policy.actions

AllowsMemo(policy, memo) ==
    policy.prefixes = {} \/ memo.word \in policy.prefixes

-----------------------------------------------------------------------------
(* initiateTransfer: the next sequence is taken, the transfer is pending and
   its session waits for the handshake. *)
InitiateOver(asset, amount, receiver, memo, denom) ==
    /\ amount > 0
    /\ nextSequence <= MaxTransfers
    /\ transfers' = [transfers EXCEPT ![nextSequence] =
                        [asset |-> asset, amount |-> amount, receiver |-> receiver,
                         denom |-> denom, memo |-> memo, status |-> "pending"]]
    /\ transportSessions' = [transportSessions EXCEPT
                                ![nextSequence] = "handshake_pending"]
    /\ nextSequence' = nextSequence + 1
    /\ UNCHANGED policyOfRoutes

RouteAllows(asset) == routes[asset] # NoRoute /\ routes[asset].enabled

InitiateTransfer(asset, amount, receiver, memo) ==
    /\ RouteAllows(asset)
    /\ InitiateOver(asset, amount, receiver, memo, routes[asset].denom)

ProfileAllows(id, asset, memo) ==
    LET profile == routeProfiles[id]
    IN  /\ profile # NoRoute
        /\ profile.enabled
        /\ asset \in profile.assets
        /\ AllowsAction(profile, memo)
        /\ AllowsMemo(profile, memo)

InitiateTransferWithProfile(id, asset, amount, receiver, memo) ==
    /\ ProfileAllows(id, asset, memo)
    /\ InitiateOver(asset, amount, receiver, memo, routeProfiles[id].denom)

-----------------------------------------------------------------------------
(* Acknowledgements.  Each needs a pending transfer; the session is set to the
   stage of the same name.  TimeoutTransfer does not look at a height. *)

Settle(i, status, stage) ==
    /\ StatusOf(i) = "pending"
    /\ transfers' = [transfers EXCEPT ![i].status = status]
    /\ transportSessions' = [transportSessions EXCEPT ![i] = stage]
    /\ UNCHANGED <<routes, routeProfiles, nextSequence>>

AcknowledgeSuccess(i) == Settle(i, "completed", "ack_completed")
AcknowledgeFailure(i) == Settle(i, "ack_failed", "ack_failed")
TimeoutTransfer(i) == Settle(i, "timed_out", "timed_out")

(* Mutant: a pending transfer can be refunded. *)
RefundAny(i) ==
    /\ StatusOf(i) \in {"pending", "ack_failed", "timed_out"}
    /\ transfers' = [transfers EXCEPT ![i].status = "refunded"]
    /\ UNCHANGED <<routes, routeProfiles, transportSessions, nextSequence>>

(* MarkRefunded changes the record only: no wallet, and not the session. *)
MarkRefunded(i) ==
    /\ StatusOf(i) \in {"ack_failed", "timed_out"}
    /\ transfers' = [transfers EXCEPT ![i].status = "refunded"]
    /\ UNCHANGED <<routes, routeProfiles, transportSessions, nextSequence>>
=============================================================================
