---------------------------- MODULE AutoDelivery ----------------------------
(***************************************************************************)
(* Automatic delivery: a user who deposits on Ethereum registers an intent   *)
(* with the zone's node, and the public bridge relayer, once the claim is    *)
(* applied, sends the onward transfer and has it relayed to the destination. *)
(* Four parties interleave: the web pages that post intents to the node's    *)
(* HTTP handlers, which rewrite one file without a lock; the coordinator     *)
(* (relayer/internal/autodelivery), which runs after each run of the bridge  *)
(* relayer in its process and may die at any step; the zone, which executes  *)
(* a submitted transaction in a later block whether or not the submitter     *)
(* still waits for it; and the destination chain.                            *)
(*                                                                           *)
(* The coordinator keeps no record of its own.  Whether a deposit still      *)
(* needs its transfer is worked out from the zone's state each time          *)
(* (ResolveBridgeSessionView), by the transfer that the intent names or else *)
(* by one with the claim's asset and the intent's receiver and amount.  An   *)
(* amount is posted as text; the transfer holds the number, written without  *)
(* leading zeros or a sign, so `canonical' says whether the posted text is   *)
(* that of the transfer.  There is one route and one channel: naming another *)
(* channel is like naming no transfer.  CometBFT's pool of transactions and  *)
(* its cache, the external relayer "rly" and the destination chain are       *)
(* modelled as they are used.                                                *)
(***************************************************************************)
EXTENDS IBCRouter

CONSTANTS
    Deposits,      \* numbers, in the order of the source transaction hashes
    Wallets,       \* holders on the zone
    DepositOf,     \* deposit -> [recipient, asset, amount]
    TermChoices,   \* deposit -> the terms posted for it: sender, asset, amount,
                   \* receiver and whether the amount is in canonical form
    PostedIDs,     \* deposit -> the transfers that an intent posted for it may name
    theRoute,
    NoIntent, NoPost, NoTransferID,
    Buffer,             \* autoDeliveryTimeoutHeightBuffer
    ConfiguredTimeout,  \* the timeout height of the configuration, or 0
    DefaultTimeout,     \* that of a relayer without one
    MaxDestHeight,   \* bound: height of the destination
    MaxPosts,        \* bound: intents posted by web pages
    MaxSpends,       \* bound: coins that holders spend elsewhere
    MaxFaults        \* bound: crashes, failed calls, lost answers, refused events

VARIABLES
    applied,        \* deposits whose claim the zone has applied
    wallets,        \* <<holder, asset>> -> balance
    intents,        \* delivery-intents.json: deposit -> intent, or NoIntent
    readable,       \* that file is whole; a crash inside a write empties it
    posting,        \* HTTP handlers between load and save:
                    \*     deposit -> [terms, transfer, file]
    bridgeWorks,    \* the bridge run of the process succeeds, or may succeed again
    pc,             \* where the coordinator is
    todo,           \* the intents RunOnce has not finished
    transferID,     \* the transfer it has to record
    file,           \* the intents its registration has loaded
    timeoutHeight,  \* fixed when the process starts
    mempool,        \* submitted transactions that no block holds yet
    txCache,        \* transactions that CometBFT refuses to take again
    timeoutOf,      \* transfer -> timeout height of its packet
    destHeight,     \* height of the destination
    received,       \* transfers whose packet the destination has received
    posts, spends, faults,
    asked,          \* history: deposit -> the terms posted for it
    unanswered,     \* history: deposits whose transaction outlived its submitter
    overlapped      \* history: the file changed between a load and its save

zoneVars == <<applied, wallets, mempool, txCache, timeoutOf>>
intentVars == <<intents, readable, posting, asked, overlapped>>
runVars == <<pc, todo, transferID, file, timeoutHeight, unanswered>>
destVars == <<destHeight, received>>
autoVars == <<routerVars, zoneVars, intentVars, runVars, destVars, posts, spends,
              faults, bridgeWorks>>

Memo(d) == [word |-> "bridge", deposit |-> d]

(* What RunOnce and the file hold of an intent: the terms and the transfer. *)
IntentWith(terms, id) == [terms |-> terms, transfer |-> id]

Terms(d) == TermChoices[d]

(* decodeInitiateIBCTransferPayload: what a transaction takes from the terms. *)
Payload(terms) == [sender |-> terms.sender, asset |-> terms.asset,
                   amount |-> terms.amount, receiver |-> terms.receiver]
Payloads(d) == {Payload(t) : t \in Terms(d)}
Intents(d) == {IntentWith(t, id) : t \in Terms(d), id \in TransferIDs \cup {NoTransferID}}
File(f) == DOMAIN f = Deposits /\ \A d \in Deposits : f[d] \in Intents(d) \cup {NoIntent}
NoFile == [d \in Deposits |-> NoIntent]
Timeouts == 0 .. MaxDestHeight + Buffer + ConfiguredTimeout + DefaultTimeout

ASSUME AutoAssumption ==
    /\ Deposits \subseteq Nat /\ IsFiniteSet(Deposits)
    /\ theRoute \in RouteIDs
    /\ DepositOf \in [Deposits -> [recipient : Wallets, asset : RouteAssets, amount : Nat]]
    /\ PostedIDs \in [Deposits -> SUBSET (TransferIDs \cup {NoTransferID})]
    /\ \A d \in Deposits :
           /\ Terms(d) \subseteq [sender : Wallets, asset : RouteAssets,
                                   amount : TransferAmounts, receiver : Receivers,
                                   canonical : BOOLEAN]
           /\ Memo(d) \in Memos
           /\ NoIntent \notin Intents(d)
    /\ Buffer \in Nat \ {0} /\ ConfiguredTimeout \in Nat /\ DefaultTimeout \in Nat
    /\ MaxDestHeight \in Nat /\ MaxPosts \in Nat
    /\ MaxSpends \in Nat /\ MaxFaults \in Nat

AutoTypeOK ==
    /\ RouterTypeOK
    /\ applied \subseteq Deposits
    /\ wallets \in [Wallets \X RouteAssets -> Nat]
    /\ File(intents) /\ File(file)
    /\ \A d \in Deposits : posting[d] # NoPost =>
           /\ posting[d].terms \in Terms(d) /\ posting[d].transfer \in PostedIDs[d]
           /\ File(posting[d].file)
    /\ readable \in BOOLEAN /\ bridgeWorks \in BOOLEAN
    /\ pc \in {"down", "idle", "query", "submit", "wait", "load", "save", "flush"}
    /\ \A i \in DOMAIN todo : todo[i].deposit \in Deposits
                                 /\ todo[i].terms \in Terms(todo[i].deposit)
    /\ pc \in {"query", "submit", "wait", "load", "save", "flush"} => todo # <<>>
    /\ transferID \in TransferIDs \cup {NoTransferID}
    /\ timeoutHeight \in Timeouts
    /\ \A tx \in mempool \cup txCache : tx.deposit \in Deposits
                        /\ tx.payload \in Payloads(tx.deposit) /\ tx.timeout \in Timeouts
    /\ mempool \subseteq txCache
    /\ timeoutOf \in [TransferIDs -> Timeouts]
    /\ destHeight \in 0 .. MaxDestHeight
    /\ received \subseteq TransferIDs
    /\ unanswered \subseteq Deposits

AutoInit ==
    /\ routes = [a \in RouteAssets |-> NoRoute]
    /\ routeProfiles \in [RouteIDs -> ProfileChoices]
    /\ transfers = [i \in TransferIDs |-> NoTransfer]
    /\ transportSessions = [i \in TransferIDs |-> "none"]
    /\ nextSequence = 1
    /\ applied = {} /\ wallets = [w \in Wallets \X RouteAssets |-> 0]
    /\ mempool = {} /\ txCache = {} /\ timeoutOf = [i \in TransferIDs |-> 0]
    /\ intents = NoFile /\ posting = [d \in Deposits |-> NoPost]
    /\ asked = [d \in Deposits |-> {}] /\ overlapped = FALSE
    /\ readable = TRUE /\ bridgeWorks = TRUE
    /\ pc = "down" /\ todo = <<>> /\ transferID = NoTransferID
    /\ file = NoFile /\ timeoutHeight = 0 /\ unanswered = {}
    /\ destHeight = 0 /\ received = {}
    /\ posts = 0 /\ spends = 0 /\ faults = 0

(* The run ends, and with it what it held in memory. *)
EndRun(place) == /\ pc' = place /\ todo' = <<>>
                 /\ transferID' = NoTransferID /\ file' = NoFile

-----------------------------------------------------------------------------
(* The users and their zone. *)

ProcessClaim(d) ==
    /\ d \notin applied
    /\ applied' = applied \cup {d}
    /\ wallets' = [wallets EXCEPT ![<<DepositOf[d].recipient, DepositOf[d].asset>>] =
                      @ + DepositOf[d].amount]
    /\ UNCHANGED <<routerVars, mempool, txCache, timeoutOf, intentVars, runVars, destVars>>
    /\ UNCHANGED <<posts, spends, faults, bridgeWorks>>

(* A holder withdraws, or sends a coin by a transaction of their own. *)
Spend(w) ==
    /\ spends < MaxSpends /\ wallets[w] > 0
    /\ wallets' = [wallets EXCEPT ![w] = @ - 1]
    /\ spends' = spends + 1
    /\ UNCHANGED <<routerVars, applied, mempool, txCache, timeoutOf>>
    /\ UNCHANGED <<intentVars, runVars, destVars, posts, faults, bridgeWorks>>

(* RegisterDeliveryIntent loads the file, replaces or adds one intent, and
   writes the file: the transfer that an earlier registration recorded is
   replaced along with it. *)
LoadIntents(d, terms, id) ==
    /\ posting[d] = NoPost /\ posts < MaxPosts /\ readable
    /\ posting' = [posting EXCEPT ![d] =
                      [terms |-> terms, transfer |-> id, file |-> intents]]
    /\ asked' = [asked EXCEPT ![d] = @ \cup {terms}]
    /\ posts' = posts + 1
    /\ UNCHANGED <<routerVars, zoneVars, runVars, destVars>>
    /\ UNCHANGED <<intents, readable, overlapped, spends, faults, bridgeWorks>>

WithIntent(loaded, d, intent) == [loaded EXCEPT ![d] = intent]

SaveIntents(d) ==
    /\ posting[d] # NoPost
    /\ intents' = WithIntent(posting[d].file, d,
                             IntentWith(posting[d].terms, posting[d].transfer))
    /\ overlapped' = (overlapped \/ posting[d].file # intents)
    /\ posting' = [posting EXCEPT ![d] = NoPost]
    /\ UNCHANGED <<routerVars, zoneVars, runVars, destVars, readable, asked>>
    /\ UNCHANGED <<posts, spends, faults, bridgeWorks>>

(* The node dies and is started again.  Its handlers and its pool of
   transactions are gone, a call to it fails, and if it was inside the
   os.WriteFile of saveDeliveryIntents, the file is left cut short and cannot
   be read any more. *)
CrashNode(torn) ==
    /\ faults < MaxFaults
    /\ torn => pc = "save" \/ \E d \in Deposits : posting[d] # NoPost
    /\ readable' = (readable /\ ~torn)
    /\ posting' = [d \in Deposits |-> NoPost]
    /\ mempool' = {} /\ txCache' = {}
    /\ IF pc \in {"query", "submit", "wait", "load", "save"}
       THEN EndRun("down") ELSE UNCHANGED <<pc, todo, transferID, file>>
    /\ faults' = faults + 1
    /\ UNCHANGED <<routerVars, applied, wallets, timeoutOf, intents, asked, overlapped>>
    /\ UNCHANGED <<timeoutHeight, unanswered, destVars, posts, spends, bridgeWorks>>

-----------------------------------------------------------------------------
(* ResolveBridgeSessionView. *)

statusWeight == [completed |-> 4, pending |-> 3, ack_failed |-> 2,
                 timed_out |-> 1, refunded |-> 0]

Existing == {i \in TransferIDs : transfers[i] # NoTransfer}

(* The search compares the claim's asset, whatever asset the intent names, and
   the text of the posted amount.  Without an intent the receiver would be the
   claim's, a holder of the zone. *)
MatchingTransfers(d) ==
    {i \in Existing : /\ intents[d] # NoIntent
                      /\ transfers[i].asset = DepositOf[d].asset
                      /\ transfers[i].receiver = intents[d].terms.receiver
                      /\ intents[d].terms.canonical
                      /\ transfers[i].amount = intents[d].terms.amount}

NamedTransfer(d) ==
    {i \in Existing : intents[d] # NoIntent /\ intents[d].transfer = i}

(* Mutant: only the transfer that the intent names is looked for. *)
FindByName(d) == NamedTransfer(d)

(* findTransferForClaim: the transfer that the intent names, if it exists, or
   else the best and latest of those with the same terms. *)
FindTransferForClaim(d) ==
    LET weight(i) == statusWeight[StatusOf(i)]
        better(i, j) == \/ weight(i) > weight(j)
                        \/ weight(i) = weight(j) /\ i > j
    IN  IF NamedTransfer(d) # {} THEN NamedTransfer(d)
        ELSE {i \in MatchingTransfers(d) :
                 \A j \in MatchingTransfers(d) \ {i} : better(i, j)}

TransfersFor(d) == {i \in Existing : transfers[i].memo = Memo(d)}

(* The destination is searched for a packet with the deposit's memo. *)
Arrived(d) == TransfersFor(d) \cap received # {}

(* Mutant: the claim is not looked for. *)
ViewWithoutClaim(d, found) ==
    LET match == FindTransferForClaim(d)
        status == StatusOf(CHOOSE i \in match : TRUE)
    IN  IF match = {} THEN "aegislink_processing"
        ELSE IF status = "pending"
             THEN IF found THEN "completed" ELSE "osmosis_pending"
             ELSE IF status = "completed" THEN "completed" ELSE "failed"

ResolveBridgeSessionView(d, found) ==
    LET match == FindTransferForClaim(d)
        status == StatusOf(CHOOSE i \in match : TRUE)
    IN  CASE d \notin applied -> "sepolia_confirming"
          [] d \in applied /\ match = {} -> "aegislink_processing"
          [] OTHER -> IF status = "pending"
                      THEN IF found THEN "completed" ELSE "osmosis_pending"
                      ELSE IF status = "completed" THEN "completed" ELSE "failed"

-----------------------------------------------------------------------------
(* The coordinator.  An error anywhere ends the run; unless it is a temporary
   one, it ends the process too, and its successor starts from the first
   intent. *)

CurrentIntent == Head(todo)

NextIntent == /\ todo' = Tail(todo)
              /\ pc' = IF Len(todo) > 1 THEN "query" ELSE "idle"

Quiet == UNCHANGED <<routerVars, zoneVars, intentVars, destVars, posts, spends,
                     bridgeWorks>>

(* loadAutoDeliveryTimeoutHeight: the destination's height and a buffer, unless
   the configured height is beyond that, or if the destination does not answer
   the configured or the default one. *)
SafeTimeout(answers) ==
    CASE answers /\ ConfiguredTimeout < destHeight + Buffer -> destHeight + Buffer
      [] (~answers \/ ConfiguredTimeout >= destHeight + Buffer) /\ ConfiguredTimeout > 0 ->
             ConfiguredTimeout
      [] ~answers /\ ConfiguredTimeout = 0 -> DefaultTimeout

StartProcess(answers) ==
    /\ pc = "down"
    /\ pc' = "idle"
    /\ timeoutHeight' = SafeTimeout(answers)
    /\ faults' = IF answers THEN faults ELSE faults + 1
    /\ faults' <= MaxFaults
    /\ UNCHANGED <<todo, transferID, file, unanswered>>
    /\ Quiet

(* The bridge run meets an event that is refused for ever (RelayerPipeline). *)
BreakBridge ==
    /\ bridgeWorks /\ faults < MaxFaults
    /\ bridgeWorks' = FALSE
    /\ faults' = faults + 1
    /\ UNCHANGED <<routerVars, zoneVars, intentVars, runVars, destVars, posts, spends>>

(* The bridge run fails, so that the intents are not looked at, or the file of
   the intents cannot be read: the error ends the process. *)
EndProcess ==
    /\ \/ pc = "idle" /\ (~bridgeWorks \/ ~readable)
       \/ pc = "query" /\ ~readable /\ CurrentIntent.deposit \in applied
    /\ EndRun("down")
    /\ UNCHANGED <<timeoutHeight, unanswered, faults>>
    /\ Quiet

(* After a bridge run that succeeded.  PendingIntents lists every intent,
   finished or not, in the order of hashes. *)
StartRun ==
    LET registered == {d \in Deposits : intents[d] # NoIntent}
    IN  /\ pc = "idle" /\ bridgeWorks /\ readable /\ registered # {}
        /\ \E order \in [1 .. Cardinality(registered) -> registered] :
               /\ \A i, j \in DOMAIN order : i < j => order[i] < order[j]
               /\ todo' = [i \in DOMAIN order |-> [deposit |-> order[i],
                                                   terms |-> intents[order[i]].terms]]
        /\ pc' = "query"
        /\ UNCHANGED <<transferID, file, timeoutHeight, unanswered, faults>>
        /\ Quiet


(* A search that fails counts as one that found nothing. *)
QueryStatus(found) ==
    /\ pc = "query" /\ (readable \/ CurrentIntent.deposit \notin applied)
    /\ found => Arrived(CurrentIntent.deposit)
    /\ LET status == ResolveBridgeSessionView(CurrentIntent.deposit, found)
       IN  CASE status = "aegislink_processing" -> pc' = "submit" /\ UNCHANGED todo
             [] status = "osmosis_pending" -> pc' = "flush" /\ UNCHANGED todo
             [] OTHER -> NextIntent
    /\ UNCHANGED <<transferID, file, timeoutHeight, unanswered, faults>>
    /\ Quiet

TxOf(item) == [deposit |-> item.deposit, payload |-> Payload(item.terms),
               timeout |-> timeoutHeight]

(* BroadcastTxCommit: the same transaction is not taken twice while CometBFT
   remembers it. *)
Submit ==
    /\ pc = "submit"
    /\ IF TxOf(CurrentIntent) \in txCache
       THEN EndRun("down") /\ UNCHANGED <<mempool, txCache>>
       ELSE /\ pc' = "wait"
            /\ mempool' = mempool \cup {TxOf(CurrentIntent)}
            /\ txCache' = txCache \cup {TxOf(CurrentIntent)}
            /\ UNCHANGED <<todo, transferID, file>>
    /\ UNCHANGED <<timeoutHeight, unanswered, faults>>
    /\ UNCHANGED <<routerVars, applied, wallets, timeoutOf, intentVars, destVars>>
    /\ UNCHANGED <<posts, spends, bridgeWorks>>

Payer(payload) == <<payload.sender, payload.asset>>

CanPay(payload) == payload.amount > 0 /\ wallets[Payer(payload)] >= payload.amount

MayLeave(d, payload) ==
    CanPay(payload) /\ ProfileAllows(theRoute, payload.asset, Memo(d))

Awaited(tx) == pc = "wait" /\ tx = TxOf(CurrentIntent)

(* applyIBCTransferPayload in a block, to its end: debit, initiate, send. *)
ExecuteTx(tx) ==
    /\ tx \in mempool
    /\ CanPay(tx.payload)
    /\ InitiateTransferWithProfile(theRoute, tx.payload.asset, tx.payload.amount,
                                   tx.payload.receiver, Memo(tx.deposit))
    /\ wallets' = [wallets EXCEPT ![Payer(tx.payload)] = @ - tx.payload.amount]
    /\ timeoutOf' = [timeoutOf EXCEPT ![nextSequence] = tx.timeout]
    /\ mempool' = mempool \ {tx}
    /\ pc' = IF Awaited(tx) THEN "load" ELSE pc
    /\ transferID' = IF Awaited(tx) THEN nextSequence ELSE transferID
    /\ UNCHANGED <<applied, txCache, intentVars, destVars, todo, file>>
    /\ UNCHANGED <<timeoutHeight, unanswered, posts, spends, faults, bridgeWorks>>

(* A transaction that fails is forgotten by the cache. *)
Refused(tx) ==
    /\ mempool' = mempool \ {tx}
    /\ txCache' = txCache \ {tx}
    /\ IF Awaited(tx) THEN EndRun("down")
       ELSE UNCHANGED <<pc, todo, transferID, file>>
    /\ UNCHANGED <<applied, wallets, timeoutOf, intentVars, destVars>>
    /\ UNCHANGED <<timeoutHeight, unanswered, posts, spends, bridgeWorks>>

(* The sender cannot pay, or the route does not take the transfer and the debit
   is given back. *)
RefuseTx(tx) ==
    /\ tx \in mempool
    /\ ~MayLeave(tx.deposit, tx.payload)
    /\ Refused(tx)
    /\ UNCHANGED <<routerVars, faults>>

(* The SDK does not take the packet: the debit is given back and the transfer,
   which was initiated, is marked as failed. *)
FailTx(tx) ==
    /\ tx \in mempool /\ faults < MaxFaults /\ nextSequence <= MaxTransfers
    /\ MayLeave(tx.deposit, tx.payload)
    /\ transfers' = [transfers EXCEPT ![nextSequence] =
                        [asset |-> tx.payload.asset, amount |-> tx.payload.amount,
                         receiver |-> tx.payload.receiver,
                         denom |-> routeProfiles[theRoute].denom,
                         memo |-> Memo(tx.deposit), status |-> "ack_failed"]]
    /\ transportSessions' = [transportSessions EXCEPT ![nextSequence] = "ack_failed"]
    /\ nextSequence' = nextSequence + 1
    /\ Refused(tx)
    /\ faults' = faults + 1
    /\ UNCHANGED policyOfRoutes

(* recordIntentTransfer registers the intent once more, with the transfer. *)
LoadForRecord ==
    /\ pc = "load"
    /\ pc' = "save" /\ file' = intents
    /\ UNCHANGED <<todo, transferID, timeoutHeight, unanswered, faults>>
    /\ Quiet

SaveRecord ==
    /\ pc = "save"
    /\ intents' = WithIntent(file, CurrentIntent.deposit,
                             IntentWith(CurrentIntent.terms, transferID))
    /\ overlapped' = (overlapped \/ file # intents)
    /\ pc' = "flush" /\ transferID' = NoTransferID /\ file' = NoFile
    /\ UNCHANGED <<routerVars, zoneVars, destVars, readable, posting, asked>>
    /\ UNCHANGED <<todo, timeoutHeight, unanswered, posts, spends, faults, bridgeWorks>>

(* "rly transact flush" relays every packet of the channel that the destination
   still takes. *)
Deliverable == {i \in Existing : /\ StatusOf(i) = "pending" /\ i \notin received
                                 /\ destHeight < timeoutOf[i]}

Flush ==
    /\ pc = "flush"
    /\ received' = received \cup Deliverable
    /\ NextIntent
    /\ UNCHANGED <<routerVars, zoneVars, intentVars, destHeight>>
    /\ UNCHANGED <<posts, spends, faults, bridgeWorks>>
    /\ UNCHANGED <<transferID, file, timeoutHeight, unanswered>>

(* A crash, a call that fails, or a wait for a block that is too long.  A flush
   may have relayed some packets before it failed. *)
Fail(relayed) ==
    /\ pc # "down" /\ faults < MaxFaults
    /\ IF pc = "flush" THEN relayed \subseteq Deliverable ELSE relayed = {}
    /\ received' = received \cup relayed
    /\ \E place \in {"down", "idle"} : EndRun(place)
    /\ faults' = faults + 1
    /\ unanswered' = unanswered \cup (IF pc = "wait" THEN {CurrentIntent.deposit} ELSE {})
    /\ UNCHANGED <<routerVars, zoneVars, intentVars, destHeight>>
    /\ UNCHANGED <<posts, spends, bridgeWorks, timeoutHeight>>

DestinationAdvances ==
    /\ destHeight < MaxDestHeight
    /\ destHeight' = destHeight + 1
    /\ UNCHANGED <<routerVars, zoneVars, intentVars, runVars, received>>
    /\ UNCHANGED <<posts, spends, faults, bridgeWorks>>

-----------------------------------------------------------------------------

RunCoordinator ==
    \/ StartRun \/ (\E found \in BOOLEAN : QueryStatus(found)) \/ Submit
    \/ LoadForRecord \/ SaveRecord \/ Flush \/ EndProcess

MakeBlock == \E tx \in mempool : ExecuteTx(tx) \/ RefuseTx(tx) \/ FailTx(tx)

AutoNext ==
    \/ \E d \in Deposits : ProcessClaim(d) \/ SaveIntents(d)
    \/ \E d \in Deposits : \E terms \in Terms(d), id \in PostedIDs[d] : LoadIntents(d, terms, id)
    \/ \E w \in Wallets \X RouteAssets : Spend(w)
    \/ BreakBridge
    \/ \E torn \in BOOLEAN : CrashNode(torn)
    \/ \E answers \in BOOLEAN : StartProcess(answers)
    \/ RunCoordinator \/ MakeBlock
    \/ \E relayed \in SUBSET TransferIDs : Fail(relayed)
    \/ DestinationAdvances

(* The process is started again after it ended and polls, and the zone makes
   blocks.  Users, faults and the destination are under no obligation. *)
AutoSpec ==
    /\ AutoInit /\ [][AutoNext]_autoVars
    /\ WF_autoVars(StartProcess(TRUE))
    /\ WF_autoVars(RunCoordinator)
    /\ WF_autoVars(MakeBlock)

-----------------------------------------------------------------------------
(* Properties. *)

LiveTransfers(d) == {i \in TransfersFor(d) : StatusOf(i) # "ack_failed"}

(* The search by terms finds a transfer that was made with these terms. *)
Recognised(d, terms) == terms.canonical /\ terms.asset = DepositOf[d].asset

Regular(d) ==
    /\ d \notin unanswered /\ ~overlapped
    /\ Cardinality(asked[d]) <= 1
    /\ \A terms \in asked[d] : Recognised(d, terms)

(* A deposit has at most one onward transfer that has not failed, although the
   coordinator remembers nothing and may die between the submission and the
   record of it (RunOnce, findTransferForClaim).  Four cases are excepted: the
   transaction was still waiting for a block when its submitter gave up; the
   intent was posted with different terms; it was posted with terms that the
   search does not recognise; and registrations overlapped, so that the intent
   may have vanished from the file while a run held it. *)
OneTransferPerDeposit ==
    \A d \in Deposits : Regular(d) => Cardinality(LiveTransfers(d)) <= 1

(* An onward transfer, and a transaction that may still become one, is for a
   deposit whose claim was applied, and carries an asset, an amount and a
   receiver that were posted for it, whichever posts, crashes and replaced
   intents came in between (ResolveBridgeSessionView, InitiateTransfer,
   recordIntentTransfer). *)
Warranted(d, asset, amount, receiver) ==
    /\ d \in applied
    /\ \E t \in asked[d] : /\ t.asset = asset /\ t.amount = amount
                            /\ t.receiver = receiver

TransfersAreWarranted ==
    /\ \A d \in Deposits : \A i \in TransfersFor(d) :
           Warranted(d, transfers[i].asset, transfers[i].amount, transfers[i].receiver)
    /\ \A tx \in mempool :
           Warranted(tx.deposit, tx.payload.asset, tx.payload.amount, tx.payload.receiver)

(* Why a deposit may wait for ever: the bridge run fails for good; the file of
   intents cannot be read, or its intent was lost in it; its transfer failed or
   its packet expired, and neither is tried again; another deposit's transfer is
   taken for its own, by its terms or by the name that was posted; or its own
   transaction, or that of an intent before it, is refused and every run ends
   there, because it cannot be paid, or because the transfer was made already,
   is not recognised, and CometBFT does not take the same transaction again. *)
IsRefused(d) ==
    /\ intents[d] # NoIntent
    /\ ResolveBridgeSessionView(d, FALSE) = "aegislink_processing"
    /\ ~MayLeave(d, Payload(intents[d].terms)) \/ TransfersFor(d) # {}

IsStuck(d) ==
    \/ ~bridgeWorks \/ ~readable
    \/ intents[d] = NoIntent
    \/ ResolveBridgeSessionView(d, FALSE) = "failed"
    \/ \E i \in TransfersFor(d) : i \notin received /\ destHeight >= timeoutOf[i]
    \/ \E i \in FindTransferForClaim(d) : i \notin TransfersFor(d)
    \/ \E e \in Deposits : e <= d /\ IsRefused(e)

=============================================================================
