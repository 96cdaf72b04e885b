------------------------------ MODULE ZoneNode ------------------------------
(***************************************************************************)
(* The networked node of the zone (chain/aegislink/networked): an ABCI       *)
(* application that drives two machines with one chain of blocks.  The zone  *)
(* application (bridge, wallets, routes) is driven by "demo" transactions,   *)
(* the Cosmos SDK BaseApp (SDK bank, IBC packets) by SDK transactions, and a *)
(* transfer or a funding commits a BaseApp block of its own in the middle of *)
(* the zone's block.  HTTP handlers change the zone between any two steps.   *)
(*                                                                           *)
(* The BaseApp's database is in memory and every launch uses a fresh home    *)
(* directory, so a node that stops is not started again: "halted" is final.  *)
(* The bridge's own grounds for refusing a claim or a withdrawal are those   *)
(* of BridgeKeeper; here a claim is refused if it was applied before and a   *)
(* withdrawal may be refused for any reason.  CometBFT and the BaseApp are   *)
(* external: CometBFT stops when a block's results do not match its          *)
(* transactions or when FinalizeBlock fails, and the BaseApp finalizes only  *)
(* the height that follows the one it committed last.                        *)
(***************************************************************************)
EXTENDS IBCRouter, Totals

CONSTANTS
    Holders,       \* wallets of the zone, which are also accounts of the SDK
    NoSender,      \* the sender of a transfer without one
    NoProfile,     \* the route id of a transfer that names none
    Claims,        \* deposit claims: [recipient, amount, ...]
    BlockChoices,  \* the sequences of transactions that blocks are made of
    MaxBlocks,     \* bound: the last height of CometBFT
    MaxQueue       \* bound: claims in the queue

NodeTxs == UNION {{b[i] : i \in DOMAIN b} : b \in BlockChoices}

(* What a transaction carries, once decodeDemoNodeTx or the SDK has accepted it.
   The bank keeper refuses an amount that is not positive. *)
IsNodeTx(tx) ==
    /\ tx.type \in {"queue_deposit_claim", "execute_withdrawal", "fund_account",
                    "initiate_ibc_transfer", "sdk"}
    /\ tx.type = "queue_deposit_claim" => tx.claim \in Claims
    /\ tx.type = "execute_withdrawal" =>
           tx.owner \in Holders /\ tx.amount \in Nat /\ tx.height \in Nat
    /\ tx.type = "fund_account" => tx.address \in Holders /\ tx.amount \in Nat
    /\ tx.type = "initiate_ibc_transfer" =>
           /\ tx.sender \in Holders \cup {NoSender} /\ tx.amount \in TransferAmounts
           /\ tx.asset \in RouteAssets /\ tx.route \in RouteIDs \cup {NoProfile}
           /\ tx.receiver \in Receivers /\ tx.memo \in Memos
    /\ tx.type = "sdk" => tx.account \in Holders /\ tx.delta \in Int

ASSUME NodeAssumption ==
    /\ NoSender \notin Holders /\ NoProfile \notin RouteIDs
    /\ MaxBlocks \in Nat /\ MaxQueue \in Nat
    /\ IsFiniteSet(Holders)
    /\ \A c \in Claims : c.recipient \in Holders /\ c.amount \in Nat \ {0}
    /\ BlockChoices \subseteq Seq(NodeTxs)
    /\ \A tx \in NodeTxs : IsNodeTx(tx)

VARIABLES
    cometHeight,  \* the height CometBFT committed last
    phase,        \* where the node is in the life of a block
    todo,         \* transactions of the block that FinalizeBlock has not applied
    entryHeight,  \* FinalizeBlock's "current": the zone's height before them
    work,         \* applyIBCTransferPayload, between two of its steps
    registered,   \* the bridged asset is in the registry
    zoneHeight,   \* the bridge keeper's current height
    wallets,      \* bank keeper of the zone: holder -> balance
    queue,        \* pendingDepositClaims
    applied,      \* the claims the bridge has accepted
    sdkHeight,    \* BaseApp.LastBlockHeight
    sdkBank,      \* SDK bank: holder -> balance of the bridged denomination
    sdkOpen,      \* lastFinalizeUsedBaseApp: the BaseApp has a block to commit
    packets,      \* transfers that the SDK has sent a packet for
    withdrawn,    \* history: total of the withdrawals
    backed,       \* history: transfers that a wallet was debited for
    drifted,      \* history: holders whose SDK balance was moved on its own
    crowded,      \* history: a block mixed transactions or committed twice
    excused       \* history: a claim came by HTTP, or a height was overridden

zoneVars == <<registered, zoneHeight, wallets, queue, applied>>
sdkVars == <<sdkHeight, sdkBank, sdkOpen, packets>>
blockVars == <<cometHeight, phase, todo, entryHeight, work>>
nodeHistory == <<withdrawn, backed, drifted, crowded, excused>>
nodeVars == <<routerVars, zoneVars, sdkVars, blockVars, nodeHistory>>

NoWork == [step |-> "none"]

NodeTypeOK ==
    /\ RouterTypeOK
    /\ cometHeight \in Nat /\ entryHeight \in Nat
    /\ zoneHeight \in Nat /\ sdkHeight \in Nat
    /\ phase \in {"idle", "executing", "finalized", "halted"}
    /\ todo \in Seq(NodeTxs)
    /\ wallets \in [Holders -> Nat] /\ sdkBank \in [Holders -> Nat]
    /\ queue \in Seq(Claims)
    /\ applied \subseteq Claims /\ IsFiniteSet(applied)
    /\ packets \subseteq TransferIDs /\ backed \subseteq TransferIDs
    /\ drifted \subseteq Holders
    /\ withdrawn \in Nat
    /\ registered \in BOOLEAN /\ sdkOpen \in BOOLEAN
    /\ crowded \in BOOLEAN /\ excused \in BOOLEAN

(* bootstrapCometState starts CometBFT at the one block that the BaseApp
   commits when it is built. *)
CometInit == cometHeight = 1 /\ phase = "idle" /\ todo = <<>> /\ work = NoWork

BaseAppInit ==
    /\ sdkHeight = 1 /\ sdkBank = [h \in Holders |-> 0]
    /\ sdkOpen = FALSE /\ packets = {}

(* Start: a zone with nothing in it. *)
NodeInit ==
    /\ RouterInit /\ CometInit /\ BaseAppInit
    /\ registered = FALSE /\ zoneHeight = 0 /\ entryHeight = 0
    /\ wallets = [h \in Holders |-> 0] /\ queue = <<>> /\ applied = {}
    /\ withdrawn = 0 /\ backed = {} /\ drifted = {}
    /\ crowded = FALSE /\ excused = FALSE

Height == cometHeight + 1    \* of the block in progress

IsDemo(tx) == tx.type # "sdk"
IsTransfer(tx) == tx.type = "initiate_ibc_transfer"

(* Bound: transfers still to come in the block fit into the router's bound. *)
Room(txs, n) ==
    nextSequence + Len(SelectSeq(txs, IsTransfer)) + n <= MaxTransfers + 1

-----------------------------------------------------------------------------
(* FinalizeBlock. *)

Halt == /\ phase' = "halted"
        /\ UNCHANGED <<cometHeight, todo, entryHeight, work, crowded, drifted>>
        /\ UNCHANGED <<zoneVars, sdkVars>>

(* A mixed block is answered with a single result. *)
RefuseMixedBlock(txs) ==
    /\ \E i, j \in DOMAIN txs : IsDemo(txs[i]) /\ ~IsDemo(txs[j])
    /\ phase' = "halted" /\ crowded' = TRUE
    /\ UNCHANGED <<cometHeight, todo, entryHeight, work, drifted>>
    /\ UNCHANGED <<zoneVars, sdkVars>>

(* BuildDemoFaucetSendTx: the transaction that handleFundAccount broadcasts. *)
FaucetSend(holder, amount) == [type |-> "sdk", account |-> holder, delta |-> amount]

(* The SDK bank after one SDK transaction; one that it cannot pay for fails. *)
AfterSend(bank, tx) ==
    IF bank[tx.account] + tx.delta >= 0
    THEN [bank EXCEPT ![tx.account] = @ + tx.delta] ELSE bank

(* The SDK bank after a block of them. *)
AfterSends(txs) ==
    LET run[n \in 0 .. Len(txs)] ==
            IF n = 0 THEN sdkBank ELSE AfterSend(run[n - 1], txs[n])
    IN  run[Len(txs)]

(* Without demo transactions the block is the BaseApp's alone: the zone takes
   the height, and its queue stays as it is. *)
FinalizeSDKBlock(txs) ==
    /\ \A i \in DOMAIN txs : ~IsDemo(txs[i])
    /\ sdkHeight + 1 = Height
    /\ sdkBank' = AfterSends(txs)
    /\ sdkOpen' = TRUE
    /\ zoneHeight' = Height
    /\ phase' = "finalized"
    /\ drifted' = drifted \cup {txs[i].account : i \in DOMAIN txs}
    /\ UNCHANGED <<cometHeight, todo, entryHeight, work, crowded>>
    /\ UNCHANGED <<registered, wallets, queue, applied, sdkHeight, packets>>

RefuseSDKBlock(txs) ==
    /\ \A i \in DOMAIN txs : ~IsDemo(txs[i])
    /\ sdkHeight + 1 # Height
    /\ Halt

BeginDemoBlock(txs) ==
    /\ txs # <<>> /\ \A i \in DOMAIN txs : IsDemo(txs[i])
    /\ phase' = "executing"
    /\ todo' = txs
    /\ entryHeight' = zoneHeight
    /\ sdkOpen' = FALSE
    /\ UNCHANGED <<cometHeight, work, crowded, drifted>>
    /\ UNCHANGED zoneVars
    /\ UNCHANGED <<sdkHeight, sdkBank, packets>>

FinalizeBlock(txs) ==
    /\ phase = "idle" /\ cometHeight < MaxBlocks
    /\ Room(txs, 0)
    /\ \/ RefuseMixedBlock(txs) \/ FinalizeSDKBlock(txs)
       \/ RefuseSDKBlock(txs) \/ BeginDemoBlock(txs)
    /\ UNCHANGED <<routerVars, withdrawn, backed, excused>>

-----------------------------------------------------------------------------
(* applyDemoNodeTx, one transaction at a time.  The results of transactions
   that fail are recorded and the block goes on. *)

Applying(type) == /\ phase = "executing" /\ work = NoWork
                  /\ todo # <<>> /\ Head(todo).type = type

Applied == /\ todo' = Tail(todo) /\ work' = NoWork
           /\ UNCHANGED <<cometHeight, phase, entryHeight>>

ApplyQueueDepositClaim ==
    /\ Applying("queue_deposit_claim")
    /\ queue' = IF Len(queue) < MaxQueue
                THEN Append(queue, Head(todo).claim) ELSE queue
    /\ Applied
    /\ UNCHANGED <<registered, zoneHeight, wallets, applied>>
    /\ UNCHANGED <<routerVars, sdkVars, nodeHistory>>

(* The height that the payload carries is set before the withdrawal is tried,
   and stays when it fails.  The SDK bank is not told of the withdrawal. *)
ApplyExecuteWithdrawal(accepted) ==
    /\ Applying("execute_withdrawal")
    /\ LET tx == Head(todo)
       IN  /\ zoneHeight' = IF tx.height > 0 THEN tx.height ELSE zoneHeight
           /\ accepted => wallets[tx.owner] >= tx.amount
           /\ wallets' = IF accepted
                         THEN [wallets EXCEPT ![tx.owner] = @ - tx.amount] ELSE wallets
           /\ withdrawn' = IF accepted THEN withdrawn + tx.amount ELSE withdrawn
           /\ drifted' = IF accepted THEN drifted \cup {tx.owner} ELSE drifted
           /\ excused' = (excused \/ tx.height > 0)
    /\ Applied
    /\ UNCHANGED <<registered, queue, applied, backed, crowded>>
    /\ UNCHANGED <<routerVars, sdkVars>>

(* FundAccount and ExecuteLocalhostTransfer finalize and commit a block of the
   BaseApp: the first within the block of CometBFT has its height, a second
   one is ahead of it. *)
CommitBaseAppBlock ==
    /\ sdkHeight' = sdkHeight + 1
    /\ crowded' = (crowded \/ sdkHeight >= Height)

(* ensureTransferSenderBalance mints what is missing. *)
ToppedUp(account, amount) ==
    [sdkBank EXCEPT ![account] = IF @ < amount THEN amount ELSE @]

ApplyFundAccount ==
    /\ Applying("fund_account")
    /\ LET tx == Head(todo)
       IN  /\ sdkBank' = ToppedUp(tx.address, tx.amount)
           /\ drifted' = drifted \cup {tx.address}
    /\ CommitBaseAppBlock
    /\ Applied
    /\ UNCHANGED <<sdkOpen, packets, withdrawn, backed, excused>>
    /\ UNCHANGED <<routerVars, zoneVars>>

-----------------------------------------------------------------------------
(* applyIBCTransferPayload.  With a sender, the SDK account is first set to
   the balance of the wallet, and the wallet is debited; a refused or failed
   transfer is credited back.  Without one, a default account of the SDK is
   topped up and sends. *)

Credited(tx) ==
    IF tx.sender = NoSender THEN wallets
    ELSE [wallets EXCEPT ![tx.sender] = @ + tx.amount]

(* setTransferSenderBalance mints what is missing and burns what is too much. *)
Synced(account, balance) ==
    IF account = NoSender THEN sdkBank ELSE [sdkBank EXCEPT ![account] = balance]

CanDebit(tx) == IF tx.sender = NoSender THEN TRUE
                ELSE wallets[tx.sender] >= tx.amount

DebitSender ==
    /\ Applying("initiate_ibc_transfer")
    /\ LET tx == Head(todo)
           before == IF tx.sender = NoSender THEN 0 ELSE wallets[tx.sender]
       IN  /\ CanDebit(tx)
           /\ sdkBank' = Synced(tx.sender, before)
           /\ drifted' = drifted \ {tx.sender}
           /\ wallets' = IF tx.sender = NoSender THEN wallets
                         ELSE [wallets EXCEPT ![tx.sender] = @ - tx.amount]
           /\ work' = [step |-> "debited", tx |-> tx, before |-> before]
    /\ UNCHANGED <<cometHeight, phase, todo, entryHeight>>
    /\ UNCHANGED <<registered, zoneHeight, queue, applied, sdkHeight, sdkOpen, packets>>
    /\ UNCHANGED <<routerVars, withdrawn, backed, crowded, excused>>

RefuseSender ==
    /\ Applying("initiate_ibc_transfer")
    /\ ~CanDebit(Head(todo))
    /\ Applied
    /\ UNCHANGED <<routerVars, zoneVars, sdkVars, nodeHistory>>

MayInitiate(tx) ==
    /\ tx.amount > 0
    /\ IF tx.route = NoProfile THEN RouteAllows(tx.asset)
       ELSE ProfileAllows(tx.route, tx.asset, tx.memo)

InitiateOverRoute(tx) ==
    IF tx.route = NoProfile
    THEN InitiateTransfer(tx.asset, tx.amount, tx.receiver, tx.memo)
    ELSE InitiateTransferWithProfile(tx.route, tx.asset, tx.amount, tx.receiver, tx.memo)

InitiateDebited ==
    /\ work.step = "debited"
    /\ InitiateOverRoute(work.tx)
    /\ work' = [step |-> "initiated", tx |-> work.tx, before |-> work.before,
                id |-> nextSequence]
    /\ backed' = IF work.tx.sender = NoSender THEN backed
                 ELSE backed \cup {nextSequence}
    /\ UNCHANGED <<cometHeight, phase, todo, entryHeight>>
    /\ UNCHANGED <<zoneVars, sdkVars, withdrawn, drifted, crowded, excused>>

CreditBack ==
    /\ wallets' = Credited(work.tx)
    /\ sdkBank' = Synced(work.tx.sender, work.before)
    /\ Applied
    /\ UNCHANGED <<registered, zoneHeight, queue, applied>>
    /\ UNCHANGED <<sdkHeight, sdkOpen, packets, nodeHistory>>

RefuseDebited ==
    /\ work.step = "debited"
    /\ ~MayInitiate(work.tx)
    /\ CreditBack
    /\ UNCHANGED routerVars

CanSend(tx) == tx.sender # NoSender => sdkBank[tx.sender] >= tx.amount

(* ExecuteLocalhostTransfer sends the packet in a BaseApp block of its own. *)
ExecuteLocalhostTransfer ==
    /\ work.step = "initiated"
    /\ CanSend(work.tx)
    /\ sdkBank' = IF work.tx.sender = NoSender THEN sdkBank
                  ELSE [sdkBank EXCEPT ![work.tx.sender] = @ - work.tx.amount]
    /\ packets' = packets \cup {work.id}
    /\ CommitBaseAppBlock
    /\ Applied
    /\ UNCHANGED <<routerVars, zoneVars, sdkOpen, withdrawn, backed, drifted, excused>>

(* Mutant: a transfer that the SDK refuses stays pending. *)
LeavePending(id) == UNCHANGED routerVars

FailIBCTransfer(id) == AcknowledgeFailure(id)

(* Mutant: the failure is found after the packet's block was committed. *)
FailAfterCommit ==
    /\ work.step = "initiated"
    /\ FailIBCTransfer(work.id)
    /\ wallets' = Credited(work.tx)
    /\ sdkBank' = Synced(work.tx.sender, work.before)
    /\ packets' = packets \cup {work.id}
    /\ CommitBaseAppBlock
    /\ Applied
    /\ UNCHANGED <<registered, zoneHeight, queue, applied>>
    /\ UNCHANGED <<sdkOpen, withdrawn, backed, drifted, excused>>

FailLocalhostTransfer ==
    /\ work.step = "initiated"
    /\ FailIBCTransfer(work.id)
    /\ CreditBack

-----------------------------------------------------------------------------
(* The end of FinalizeBlock, and Commit. *)

(* Mutant: the BaseApp is left out of a block of demo transactions. *)
SkipBaseApp == sdkOpen' = FALSE

(* An empty BaseApp block, unless a transaction has committed this height. *)
FinalizeBaseApp == sdkOpen' = (sdkHeight + 1 = Height)

(* Mutants: the claims of the block itself wait for the next one; the SDK
   accounts of the recipients are not set. *)
MustAdvanceLate == Height > entryHeight + 1 /\ zoneHeight + 1 < Height
SyncNobody(recipients, balances) == sdkBank

(* The zone is advanced only if the height it had before the transactions was
   below the block's, and is still. *)
MustAdvance == Height > entryHeight /\ zoneHeight < Height

SyncedTo(recipients, balances) ==
    [h \in Holders |-> IF h \in recipients THEN balances[h] ELSE sdkBank[h]]

(* AdvanceBlock submits the whole queue: a claim that was applied before, or
   comes before the asset, is refused, and dropped. *)
Advance ==
    LET accepted == IF registered THEN {queue[i] : i \in DOMAIN queue} \ applied ELSE {}
        credit == [c \in accepted |-> c.amount]
        credited == [h \in Holders |-> wallets[h] +
                        Total(credit, {c \in accepted : c.recipient = h})]
        recipients == {c.recipient : c \in accepted}
    IN  /\ zoneHeight' = Height
        /\ queue' = <<>>
        /\ applied' = applied \cup accepted
        /\ wallets' = credited
        /\ sdkBank' = SyncedTo(recipients, credited)
        /\ drifted' = drifted \ recipients

EndDemoBlock ==
    /\ phase = "executing" /\ work = NoWork /\ todo = <<>>
    /\ FinalizeBaseApp
    /\ IF MustAdvance THEN Advance
       ELSE UNCHANGED <<zoneHeight, queue, applied, wallets, sdkBank, drifted>>
    /\ phase' = "finalized"
    /\ UNCHANGED <<cometHeight, todo, entryHeight, work>>
    /\ UNCHANGED <<routerVars, registered, sdkHeight, packets>>
    /\ UNCHANGED <<withdrawn, backed, crowded, excused>>

Commit ==
    /\ phase = "finalized"
    /\ sdkHeight' = IF sdkOpen THEN sdkHeight + 1 ELSE sdkHeight
    /\ sdkOpen' = FALSE
    /\ cometHeight' = cometHeight + 1
    /\ phase' = "idle"
    /\ UNCHANGED <<todo, entryHeight, work, sdkBank, packets>>
    /\ UNCHANGED <<routerVars, zoneVars, nodeHistory>>

-----------------------------------------------------------------------------
(* HTTP handlers, which act on the zone between any two steps of a block. *)

Serving == phase # "halted"

HandleQueueDepositClaim(claim) ==
    /\ Serving /\ Len(queue) < MaxQueue
    /\ queue' = Append(queue, claim)
    /\ excused' = TRUE
    /\ UNCHANGED <<registered, zoneHeight, wallets, applied>>
    /\ UNCHANGED <<withdrawn, backed, drifted, crowded>>
    /\ UNCHANGED <<routerVars, sdkVars, blockVars>>

(* A transfer that is initiated over HTTP debits no wallet and sends no packet. *)
HandleInitiateIBCTransfer(tx) ==
    /\ Serving /\ Room(todo, IF work.step = "debited" THEN 2 ELSE 1)
    /\ InitiateOverRoute(tx)
    /\ UNCHANGED <<zoneVars, sdkVars, blockVars, nodeHistory>>

(* Assets that are registered already are left alone. *)
HandleSeedBridgeAssets ==
    /\ Serving
    /\ registered' = TRUE
    /\ UNCHANGED <<zoneHeight, wallets, queue, applied>>
    /\ UNCHANGED <<routerVars, sdkVars, blockVars, nodeHistory>>

HandleSetRouteProfile(id, profile) ==
    /\ Serving /\ registered
    /\ SetRouteProfile(id, profile)
    /\ UNCHANGED <<zoneVars, sdkVars, blockVars, nodeHistory>>

-----------------------------------------------------------------------------

NodeNext ==
    \/ \E txs \in BlockChoices : FinalizeBlock(txs)
    \/ ApplyQueueDepositClaim \/ ApplyFundAccount
    \/ \E accepted \in BOOLEAN : ApplyExecuteWithdrawal(accepted)
    \/ DebitSender \/ RefuseSender \/ InitiateDebited \/ RefuseDebited
    \/ ExecuteLocalhostTransfer \/ FailLocalhostTransfer
    \/ EndDemoBlock \/ Commit
    \/ HandleSeedBridgeAssets
    \/ \E claim \in Claims : HandleQueueDepositClaim(claim)
    \/ \E txs \in BlockChoices : \E i \in DOMAIN txs :
           IsTransfer(txs[i]) /\ HandleInitiateIBCTransfer(txs[i])
    \/ \E id \in RouteIDs, profile \in ProfileChoices : HandleSetRouteProfile(id, profile)

NodeSpec == NodeInit /\ [][NodeNext]_nodeVars

-----------------------------------------------------------------------------
(* Properties. *)

Owed == {i \in backed : StatusOf(i) # "ack_failed"}

(* What deposits have brought in is in the wallets, was withdrawn, or was
   debited for a transfer that has not failed, between any two steps of a block:
   a transfer that is refused by its route, or by the SDK after it was recorded,
   gives its debit back exactly once (applyIBCTransferPayload, AdvanceBlock). *)
FundsAreAccounted ==
    Total([c \in applied |-> c.amount], applied)
        = Total(wallets, Holders) + withdrawn
          + Total([i \in Owed |-> transfers[i].amount], Owed)
          + (IF work.step = "debited" /\ work.tx.sender # NoSender
             THEN work.tx.amount ELSE 0)

(* Between blocks the SDK bank shows what the wallets hold, except for holders
   whose wallet or account was moved without the other since the last claim or
   transfer of theirs (SyncAccountBalance, advanceAppAndSyncChain). *)
BankFollowsWallets ==
    phase = "idle" =>
        \A h \in Holders \ drifted : sdkBank[h] = wallets[h]

(* Between blocks, a transfer that a wallet paid for has left as a packet or
   has failed, and none has done both. *)
PaidTransfersAreSent ==
    phase = "idle" => \A i \in backed : (i \in packets) # (StatusOf(i) = "ack_failed")

(* The node stops only after a block that mixed the two kinds of transactions
   or in which two of them committed a block of the BaseApp: otherwise the
   heights of CometBFT and of the BaseApp stay together (FinalizeBlock). *)
HaltsAreExplained == phase = "halted" => crowded

(* Between blocks no claim waits in the queue, unless one came by HTTP or a
   withdrawal set the height of the zone: the claims of a block are applied by
   that block (FinalizeBlock, AdvanceBlock). *)
ClaimsDoNotWait == phase = "idle" /\ ~excused => queue = <<>>

(* abci_test.go, TestABCIApplicationKeepsBaseAppHeightInSyncAfterCustomDepositBlock:
   after every block the BaseApp has the height of CometBFT. *)
BaseAppHeightInSync == phase = "idle" => sdkHeight = cometHeight
=============================================================================
