---------------------------- MODULE ZoneCommands ----------------------------
(***************************************************************************)
(* The command line of the zone (chain/aegislink/cmd/aegislinkd) on one home *)
(* directory: the daemon, which loads the state once and saves it at every   *)
(* tick, and short-lived commands, each of which loads the state, runs one   *)
(* operation and saves.  Two runtime modes keep the state differently:       *)
(*   json: one file, replaced as a whole by Save; nothing keeps two          *)
(*         processes from loading the same state;                            *)
(*   sdk:  a database that one process can open at a time; each keeper       *)
(*         commits its own changes while the operation runs; and a file for  *)
(*         the queue, node.json, which Save and Close truncate and write.    *)
(*         Close runs at the end of every process, of queries too.           *)
(* Governance proposals are commands of this kind: a change in one keeper,   *)
(* then the record of the proposal in another.                               *)
(*                                                                           *)
(* A command is a function of the loaded state: its result is the sequence   *)
(* of states that its commits write, the last of them by Save.  Amounts are  *)
(* one coin; the bridge's other grounds for refusal are those of             *)
(* BridgeKeeper, the route's those of IBCRouter.                             *)
(***************************************************************************)
EXTENDS Integers, SequencesExt

CONSTANTS
    Clients,      \* processes that run commands
    daemon,       \* the process of "start --daemon"
    Holders,      \* wallets
    Claims,       \* deposit claims: [recipient, ...]
    Withdrawals,  \* withdrawals that are asked for: [owner, height, ...]
    AssetProposals, LimitProposals, PolicyProposals,
    MaxTransfers, \* bound: transfers initiated
    MaxCommands,  \* bound: commands run
    MaxTicks,     \* bound: blocks of the daemon
    MaxCrashes    \* bound: processes that are killed

ASSUME CommandsAssumption ==
    /\ daemon \notin Clients
    /\ \A w \in Withdrawals : w.height \in Nat
    /\ \A p \in AssetProposals : p.enabled \in BOOLEAN
    /\ \A p \in LimitProposals : p.limit \in Nat
    /\ \A p \in PolicyProposals : p.policy \in {"open", "closed"}
    /\ MaxCommands \in Nat /\ MaxTicks \in Nat /\ MaxCrashes \in Nat

VARIABLES
    mode,        \* runtime mode of the home directory
    disk,        \* the state on disk
    nodeFile,    \* sdk mode: node.json is "whole", or "truncated" and unwritten
    proc,        \* process -> what it does
    commands, ticks, crashes,
    saved,       \* history: commands whose result was saved
    reported,    \* history: commands that reported success
    overwritten, \* history: saved commands that the process which saved last
                 \* did not know of
    torn,        \* history: a process was killed between two commits
    cuts         \* history: proposal -> kills between its change and its record

historyVars == <<saved, reported, overwritten, torn, cuts>>
cmdVars == <<mode, disk, nodeFile, proc, commands, ticks, crashes, historyVars>>

ProposalIDs == {p.id : p \in AssetProposals \cup LimitProposals \cup PolicyProposals}

Processes == Clients \cup {daemon}

Off == [step |-> "off"]

(* A home that was set up with one enabled asset and no route. *)
EmptyHome ==
    [height |-> 0, queue |-> <<>>, claims |-> {}, credited |-> {}, burned |-> {},
     debited |-> {}, assetOn |-> TRUE, limit |-> 0, policy |-> "none",
     transfers |-> <<>>, proposals |-> {},
     dropped |-> {},     \* history: queued claims that a block refused
     effects |-> [id \in ProposalIDs |-> 0]]  \* history: how often each took effect

(* A home in which set-route-profile has been run. *)
RoutedHome == [EmptyHome EXCEPT !.policy = "open"]

Balance(z, h) == Cardinality({c \in z.credited : c.recipient = h})
                    - Cardinality({w \in z.debited : w.owner = h})

Supply(z) == Cardinality(z.claims) - Cardinality(z.burned)

-----------------------------------------------------------------------------
(* Results.  "commits" are the states that the keepers write one after the
   other; without "ok" the command reports an error. *)

Result(ok, commits) == [ok |-> ok, commits |-> commits]
Refused == Result(FALSE, <<>>)

(* Deposit claims: the bridge keeper commits, then the bank keeper. *)
SubmitDepositClaim(z, claim) ==
    IF claim \in z.claims \/ ~z.assetOn THEN Refused
    ELSE LET minted == [z EXCEPT !.claims = @ \cup {claim}]
         IN  Result(TRUE, <<minted, [minted EXCEPT !.credited = @ \cup {claim}]>>)

(* The queue is in memory until Save. *)
QueueDepositClaim(z, claim) == Result(TRUE, <<[z EXCEPT !.queue = Append(@, claim)]>>)

(* A command that succeeds calls Save, which rewrites the queue. *)
ThenSave(result) ==
    IF result.ok THEN [result EXCEPT !.commits = Append(@, Last(@))] ELSE result

(* Mutant: a withdrawal that the wallet cannot pay for stays recorded. *)
KeepBurned(z, w) == <<[z EXCEPT !.burned = @ \cup {w}]>>

(* rollbackWithdrawalState. *)
RolledBack(z, w) == <<[z EXCEPT !.burned = @ \cup {w}], z>>

WalletCovers(z, w) == Balance(z, w.owner) > 0

(* The height that the command names is committed first, and stays when the
   withdrawal is refused; a wallet that cannot pay rolls the bridge back. *)
ExecuteWithdrawal(z, w) ==
    LET raised == IF w.height > 0 THEN <<[z EXCEPT !.height = w.height]>> ELSE <<>>
        start == IF w.height > 0 THEN raised[1] ELSE z
        burnt == [start EXCEPT !.burned = @ \cup {w}]
    IN  IF ~z.assetOn \/ Supply(z) < 1 THEN Result(FALSE, raised)
        ELSE IF ~WalletCovers(z, w) THEN Result(FALSE, raised \o RolledBack(start, w))
        ELSE Result(TRUE, raised \o <<burnt, [burnt EXCEPT !.debited = @ \cup {w}]>>)

(* AdvanceBlock takes the queue and submits each of its claims; those that are
   refused are dropped.  On disk the queue is replaced last, by Save. *)
AdvanceBlock(z) ==
    LET written[n \in 0 .. Len(z.queue)] ==
            IF n = 0 THEN <<[z EXCEPT !.height = @ + 1]>>
            ELSE written[n - 1] \o
                 SubmitDepositClaim(Last(written[n - 1]), z.queue[n]).commits
        states == written[Len(z.queue)]
        refused == Range(z.queue) \ Last(states).claims
        final == [Last(states) EXCEPT !.queue = <<>>, !.dropped = @ \cup refused]
    IN  Result(TRUE, Append(states, final))

-----------------------------------------------------------------------------
(* Routes and transfers, one commit of the route keeper each. *)

SetRouteProfile(z, policy) == Result(TRUE, <<[z EXCEPT !.policy = policy]>>)

InitiateIBCTransfer(z) ==
    IF z.policy # "open" THEN Refused
    ELSE Result(TRUE, <<[z EXCEPT !.transfers = Append(@, "pending")]>>)

SettleTransfer(z, i, from, to) ==
    IF i \notin DOMAIN z.transfers THEN Refused
    ELSE IF z.transfers[i] \notin from THEN Refused
    ELSE Result(TRUE, <<[z EXCEPT !.transfers[i] = to]>>)

CompleteIBCTransfer(z, i) == SettleTransfer(z, i, {"pending"}, "completed")
FailIBCTransfer(z, i) == SettleTransfer(z, i, {"pending"}, "ack_failed")
TimeoutIBCTransfer(z, i) == SettleTransfer(z, i, {"pending"}, "timed_out")
RefundIBCTransfer(z, i) == SettleTransfer(z, i, {"ack_failed", "timed_out"}, "refunded")

-----------------------------------------------------------------------------
(* Governance: the change is committed by its keeper, then the record. *)

(* Mutant: a proposal may come again. *)
AssertNothing(z, p) == TRUE
AssertProposalNotApplied(z, p) == p.id \notin z.proposals

Authorize(p) == p.authorized

Effective(z, p, changed) ==
    LET done == [changed EXCEPT !.effects[p.id] = @ + 1]
    IN  IF ~AssertProposalNotApplied(z, p) \/ ~Authorize(p) THEN Refused
        ELSE Result(TRUE, <<done, [done EXCEPT !.proposals = @ \cup {p.id}]>>)

ApplyAssetStatusProposal(z, p) == Effective(z, p, [z EXCEPT !.assetOn = p.enabled])

ApplyLimitUpdateProposal(z, p) == Effective(z, p, [z EXCEPT !.limit = p.limit])

ApplyRoutePolicyUpdateProposal(z, p) ==
    IF z.policy = "none" THEN Refused
    ELSE Effective(z, p, [z EXCEPT !.policy = p.policy])

-----------------------------------------------------------------------------
(* Processes.  What a command does is settled by the state it loads. *)

(* Mutant: a file that does not parse is read as an empty queue. *)
CanOpenUnparsed == mode = "sdk" => \A p \in Processes : proc[p] = Off

(* LevelDB's lock and a queue that parses; the file of the json mode has no
   lock. *)
CanOpen == mode = "sdk" => nodeFile = "whole" /\ \A p \in Processes : proc[p] = Off

Open(p, command, step, result) ==
    /\ proc[p] = Off /\ p # daemon /\ commands < MaxCommands
    /\ CanOpen
    /\ proc' = [proc EXCEPT ![p] =
                  [step |-> step, command |-> command, known |-> saved \ overwritten,
                   started |-> FALSE, ok |-> result.ok, commits |-> result.commits]]
    /\ commands' = commands + 1
    /\ UNCHANGED <<mode, disk, nodeFile, ticks, crashes>> /\ UNCHANGED historyVars

Named(name, argument) == [name |-> name, argument |-> argument]

(* The keepers commit while the command runs; the queue is in memory until
   Save. *)
RunCommand(p, name, argument, result) ==
    Open(p, Named(name, argument), "run", ThenSave(result))

TxSubmitDepositClaim(p) == \E c \in Claims :
    RunCommand(p, "submit-deposit-claim", c, SubmitDepositClaim(disk, c))

TxQueueDepositClaim(p) == \E c \in Claims :
    Open(p, Named("queue-deposit-claim", c), "run", QueueDepositClaim(disk, c))

(* Every withdrawal that is asked for is a new one. *)
TxExecuteWithdrawal(p) == \E w \in Withdrawals \ disk.burned :
    RunCommand(p, "execute-withdrawal", w, ExecuteWithdrawal(disk, w))

TxSetRouteProfile(p) == \E policy \in {"open", "closed"} :
    RunCommand(p, "set-route-profile", policy, SetRouteProfile(disk, policy))

TxInitiateIBCTransfer(p) ==
    /\ Len(disk.transfers) < MaxTransfers
    /\ RunCommand(p, "initiate-ibc-transfer", Len(disk.transfers) + 1,
                  InitiateIBCTransfer(disk))

TxCompleteIBCTransfer(p) == \E i \in DOMAIN disk.transfers :
    RunCommand(p, "complete-ibc-transfer", i, CompleteIBCTransfer(disk, i))

TxFailIBCTransfer(p) == \E i \in DOMAIN disk.transfers :
    RunCommand(p, "fail-ibc-transfer", i, FailIBCTransfer(disk, i))

TxTimeoutIBCTransfer(p) == \E i \in DOMAIN disk.transfers :
    RunCommand(p, "timeout-ibc-transfer", i, TimeoutIBCTransfer(disk, i))

TxRefundIBCTransfer(p) == \E i \in DOMAIN disk.transfers :
    RunCommand(p, "refund-ibc-transfer", i, RefundIBCTransfer(disk, i))

TxApplyAssetStatusProposal(p) == \E q \in AssetProposals :
    RunCommand(p, "apply-proposal", q.id, ApplyAssetStatusProposal(disk, q))

TxApplyLimitUpdateProposal(p) == \E q \in LimitProposals :
    RunCommand(p, "apply-proposal", q.id, ApplyLimitUpdateProposal(disk, q))

TxApplyRoutePolicyUpdateProposal(p) == \E q \in PolicyProposals :
    RunCommand(p, "apply-proposal", q.id, ApplyRoutePolicyUpdateProposal(disk, q))

(* A query changes nothing, but closing the application rewrites the queue. *)
Query(p) ==
    /\ mode = "sdk"
    /\ Open(p, Named("query", "none"), "close", Result(FALSE, <<disk>>))

-----------------------------------------------------------------------------
(* Writing. *)

(* Commits of keepers are left: all that a refused command makes, and all but
   the last, which is the queue's, of one that succeeds. *)
KeepersLeft(r) == /\ r.step = "run" /\ r.commits # <<>>
                  /\ r.ok => Len(r.commits) > 1

MidCommit(r) == r # Off /\ r.started /\ KeepersLeft(r)

(* sdk mode: the keepers' commits, one at a time, those of a command that is
   refused included. *)
CommitKeeper(p) ==
    /\ mode = "sdk" /\ proc[p] # Off /\ KeepersLeft(proc[p])
    /\ disk' = Head(proc[p].commits)
    /\ proc' = [proc EXCEPT ![p].commits = Tail(@), ![p].started = TRUE]
    /\ UNCHANGED <<mode, nodeFile, commands, ticks, crashes>> /\ UNCHANGED historyVars

(* Then os.WriteFile, for Save and again for Close: the queue is gone until it
   is written. *)
TruncateNodeFile(p) ==
    /\ mode = "sdk" /\ nodeFile = "whole"
    /\ proc[p] # Off /\ proc[p].commits # <<>> /\ ~KeepersLeft(proc[p])
    /\ nodeFile' = "truncated"
    /\ disk' = [disk EXCEPT !.queue = <<>>]
    /\ UNCHANGED <<mode, proc, commands, ticks, crashes>> /\ UNCHANGED historyVars

Commands(p) == IF p = daemon THEN {} ELSE {proc[p].command}

WriteNodeFile(p) ==
    /\ mode = "sdk" /\ nodeFile = "truncated"
    /\ proc[p] # Off /\ proc[p].commits # <<>> /\ ~KeepersLeft(proc[p])
    /\ nodeFile' = "whole"
    /\ disk' = Head(proc[p].commits)
    /\ \/ /\ proc[p].step = "run"
          /\ saved' = saved \cup Commands(p)
          /\ proc' = [proc EXCEPT ![p].commits = <<>>, ![p].known = @ \cup Commands(p)]
       \/ /\ proc[p].step = "close"
          /\ proc' = [proc EXCEPT ![p] = Off]
          /\ UNCHANGED saved
    /\ UNCHANGED <<mode, commands, ticks, crashes, reported, overwritten, torn, cuts>>

(* json mode: Save renames a new file into place, and only a command that
   succeeds saves. *)
Save(p) ==
    /\ mode = "json" /\ proc[p] # Off /\ proc[p].ok /\ proc[p].commits # <<>>
    /\ disk' = Last(proc[p].commits)
    /\ saved' = saved \cup Commands(p)
    /\ overwritten' = saved' \ (proc[p].known \cup Commands(p))
    /\ proc' = [proc EXCEPT ![p].commits = <<>>, ![p].known = @ \cup Commands(p)]
    /\ UNCHANGED <<mode, nodeFile, commands, ticks, crashes, reported, torn, cuts>>

(* The process ends: in sdk mode Close writes the queue once more. *)
Ended(p) == IF mode = "json" THEN Off
            ELSE [proc[p] EXCEPT !.step = "close", !.commits = <<disk>>]

Report(p) ==
    /\ p # daemon /\ proc[p] # Off /\ proc[p].step = "run"
    /\ proc[p].commits = <<>> \/ (mode = "json" /\ ~proc[p].ok)
    /\ reported' = IF proc[p].ok THEN reported \cup Commands(p) ELSE reported
    /\ proc' = [proc EXCEPT ![p] = Ended(p)]
    /\ UNCHANGED <<mode, disk, nodeFile, commands, ticks, crashes>>
    /\ UNCHANGED <<saved, overwritten, torn, cuts>>

(* The proposal whose change is committed and whose record is not. *)
HalfApplied(p) ==
    IF p # daemon /\ MidCommit(proc[p]) /\ proc[p].command.name = "apply-proposal"
    THEN {proc[p].command.argument} ELSE {}

Kill(p) ==
    /\ proc[p] # Off /\ crashes < MaxCrashes
    /\ torn' = (torn \/ MidCommit(proc[p]))
    /\ cuts' = [id \in ProposalIDs |-> IF id \in HalfApplied(p) THEN cuts[id] + 1
                                       ELSE cuts[id]]
    /\ proc' = [proc EXCEPT ![p] = Off]
    /\ crashes' = crashes + 1
    /\ UNCHANGED <<mode, disk, nodeFile, commands, ticks, saved, reported, overwritten>>

-----------------------------------------------------------------------------
(* "start --daemon": the state is loaded once; each tick advances a block in
   memory and saves.  The process ends at the last tick or when it is told to. *)

StartDaemon ==
    /\ proc[daemon] = Off /\ CanOpen /\ ticks < MaxTicks
    /\ proc' = [proc EXCEPT ![daemon] =
                  [step |-> "run", known |-> saved \ overwritten, started |-> FALSE,
                   ok |-> TRUE, memory |-> disk, commits |-> <<>>]]
    /\ UNCHANGED <<mode, disk, nodeFile, commands, ticks, crashes>>
    /\ UNCHANGED historyVars

Tick ==
    /\ proc[daemon] # Off /\ proc[daemon].step = "run" /\ proc[daemon].commits = <<>>
    /\ ticks < MaxTicks
    /\ LET block == AdvanceBlock(proc[daemon].memory)
       IN  proc' = [proc EXCEPT ![daemon].commits = block.commits,
                                ![daemon].memory = Last(block.commits),
                                ![daemon].started = FALSE]
    /\ ticks' = ticks + 1
    /\ UNCHANGED <<mode, disk, nodeFile, commands, crashes>> /\ UNCHANGED historyVars

StopDaemon ==
    /\ proc[daemon] # Off /\ proc[daemon].step = "run" /\ proc[daemon].commits = <<>>
    /\ proc' = [proc EXCEPT ![daemon] = Ended(daemon)]
    /\ UNCHANGED <<mode, disk, nodeFile, commands, ticks, crashes>>
    /\ UNCHANGED historyVars

-----------------------------------------------------------------------------

CommandsTypeOK ==
    /\ mode \in {"json", "sdk"}
    /\ nodeFile \in {"whole", "truncated"}
    /\ DOMAIN proc = Processes
    /\ DOMAIN disk = DOMAIN EmptyHome
    /\ disk.height \in Nat
    /\ disk.claims \subseteq Claims /\ disk.credited \subseteq Claims
    /\ disk.burned \subseteq Withdrawals /\ disk.debited \subseteq Withdrawals
    /\ \A h \in Holders : Balance(disk, h) >= 0
    /\ Supply(disk) >= 0
    /\ commands \in 0 .. MaxCommands /\ ticks \in 0 .. MaxTicks

CommandsInit ==
    /\ mode \in {"json", "sdk"}
    /\ disk \in {EmptyHome, RoutedHome}
    /\ proc = [p \in Processes |-> Off]
    /\ nodeFile = "whole"
    /\ commands = 0 /\ ticks = 0 /\ crashes = 0
    /\ saved = {} /\ reported = {} /\ overwritten = {} /\ torn = FALSE
    /\ cuts = [id \in ProposalIDs |-> 0]

CommandsNext ==
    \/ \E p \in Clients :
          \/ TxSubmitDepositClaim(p) \/ TxQueueDepositClaim(p) \/ TxExecuteWithdrawal(p)
          \/ TxSetRouteProfile(p) \/ TxInitiateIBCTransfer(p)
          \/ TxCompleteIBCTransfer(p) \/ TxFailIBCTransfer(p)
          \/ TxTimeoutIBCTransfer(p) \/ TxRefundIBCTransfer(p)
          \/ TxApplyAssetStatusProposal(p) \/ TxApplyLimitUpdateProposal(p)
          \/ TxApplyRoutePolicyUpdateProposal(p)
          \/ Query(p) \/ Report(p)
    \/ \E p \in Processes :
          \/ CommitKeeper(p) \/ TruncateNodeFile(p) \/ WriteNodeFile(p)
          \/ Save(p) \/ Kill(p)
    \/ StartDaemon \/ Tick \/ StopDaemon

CommandsSpec == CommandsInit /\ [][CommandsNext]_cmdVars

-----------------------------------------------------------------------------
(* Properties. *)

Kept(c, z) ==
    CASE c.name = "submit-deposit-claim" -> c.argument \in z.claims
      [] c.name = "queue-deposit-claim" ->
             \/ c.argument \in z.claims \cup z.dropped
             \/ \E i \in DOMAIN z.queue : z.queue[i] = c.argument
      [] c.name = "execute-withdrawal" -> c.argument \in z.burned
      [] c.name = "set-route-profile" -> z.policy # "none"
      [] c.name = "initiate-ibc-transfer" -> c.argument \in DOMAIN z.transfers
      [] c.name = "apply-proposal" -> c.argument \in z.proposals
      [] OTHER -> c.argument \in DOMAIN z.transfers /\ z.transfers[c.argument] # "pending"

(* What a command has reported as done stays on disk, whatever is killed and
   whatever else runs, but for two cases.  In json mode, a process that had
   loaded its state before the command saved may save over it.  In sdk mode, a
   process killed while it writes node.json loses the queue, and with it the
   queued claims; then no process opens the home again, so none goes on
   without them (Save, persistRuntimeNodeState, LoadWithConfig, runStart). *)
ReportedIsKept ==
    \A c \in reported :
        \/ Kept(c, disk)
        \/ c \in overwritten
        \/ nodeFile = "truncated" /\ c.name = "queue-deposit-claim"

AtRest == \A p \in Processes : ~MidCommit(proc[p])

(* At rest, every claim on disk is credited and every withdrawal debited, from
   a wallet that held the coin, although two keepers write them: even when
   processes of the json mode save over each other, and unless one of the sdk
   mode was killed between two commits (submitDepositClaimLocked,
   ExecuteWithdrawal, Save). *)
LedgerIsWhole ==
    AtRest /\ ~torn =>
        /\ disk.claims = disk.credited /\ disk.burned = disk.debited
        /\ \A h \in Holders : Balance(disk, h) >= 0

(* At rest, the number of times that a proposal took effect is explained: once
   by its record, and once for each process that was killed between its change
   and its record.  No record is without its effect, and nothing but such a
   kill lets a proposal take effect again (assertProposalNotApplied,
   Keeper.persist). *)
EffectsAreExplained ==
    AtRest =>
        \A id \in ProposalIDs :
            disk.effects[id] = cuts[id] + IF id \in disk.proposals THEN 1 ELSE 0
=============================================================================
