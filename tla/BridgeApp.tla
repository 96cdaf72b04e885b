----------------------------- MODULE BridgeApp -----------------------------
(***************************************************************************)
(* The application (chain/aegislink/app) around the keepers: it pairs each *)
(* bridge operation with a movement of the owner's wallet (x/bank), rolls  *)
(* a withdrawal back when the wallet cannot pay for it, and queues deposit *)
(* claims for the next block.  App.mu serialises the operations, but each  *)
(* keeper commits to the store on its own, so in the SDK-store runtime the *)
(* process may die between two commits of one operation.  At such a point  *)
(* memory and store agree except for the queue, which is written by Save:  *)
(* a crash loses the operation in flight and the unsaved queue.  The queue *)
(* is a file of its own, node.json, that os.WriteFile truncates and then   *)
(* writes: a crash between the two leaves a file that does not parse, and  *)
(* the application cannot be loaded any more.                              *)
(*                                                                         *)
(* Credit fails only on an empty address, denomination or amount, which    *)
(* the checks before it exclude, so rollbackDepositClaimState never runs.  *)
(***************************************************************************)
EXTENDS BridgeKeeper

CONSTANTS MaxQueue,     \* bound: deposit claims waiting for the next block
          MaxCrashes    \* bound: crashes of the process

ASSUME AppAssumption == /\ IsFiniteSet(Accounts)
                        /\ MaxQueue \in Nat /\ MaxCrashes \in Nat

VARIABLES
    balances,       \* bank: <<account, denom>> -> amount; absent means zero
    op,             \* the operation in flight, between two of its commits
    pending,        \* pendingDepositClaims
    draining,       \* the claims that AdvanceBlock has still to submit
    saved,          \* the queue as node.json has it
    nodeFile,       \* node.json is "whole", "truncated" by a save that has
                    \* still to write it, or was left "unreadable" by a crash
    crashes,        \* number of crashes so far
    uncredited,     \* history: denom -> minted, but not credited at a crash
    undebited,      \* history: denom -> burned, but not debited at a crash
    acknowledged,   \* history: the claims that Save has seen in the queue
    handled         \* history: the queued claims that were submitted

walletVars == <<balances, op>>
queueVars == <<pending, draining, saved, nodeFile, acknowledged, handled>>
crashVars == <<crashes, uncredited, undebited>>
appVars == <<keeperVars, walletVars, queueVars, crashVars>>

QueuedDepositClaim == [claim : Claims, attestation : Attestations]

Idle == [step |-> "idle"]

Snapshot == [usage : [AssetIDs -> WindowUsage], supply : [Denoms -> Nat],
             withdrawals : Seq(WithdrawalRecord), nextNonce : Nat \ {0}]

Transfer == [step : {"credit"}, account : Accounts, denom : Denoms,
             amount : Nat \ {0}]
               \cup
            [step : {"debit", "restore"}, account : Accounts, denom : Denoms,
             amount : Nat \ {0}, before : Snapshot]

AppTypeOK ==
    /\ TypeOK
    /\ balances \in [Accounts \X Denoms -> Nat]
    /\ op \in Transfer \cup {Idle}
    /\ pending \in Seq(QueuedDepositClaim)
    /\ draining \in Seq(QueuedDepositClaim)
    /\ saved \in Seq(QueuedDepositClaim)
    /\ nodeFile \in {"whole", "truncated", "unreadable"}
    /\ crashes \in 0 .. MaxCrashes
    /\ uncredited \in [Denoms -> Nat]
    /\ undebited \in [Denoms -> Nat]
    /\ acknowledged \subseteq QueuedDepositClaim
    /\ handled \subseteq QueuedDepositClaim

AppInit ==
    /\ Init
    /\ balances = [w \in Accounts \X Denoms |-> 0]
    /\ op = Idle
    /\ pending = <<>> /\ draining = <<>> /\ saved = <<>>
    /\ nodeFile = "whole"
    /\ crashes = 0
    /\ uncredited = [d \in Denoms |-> 0]
    /\ undebited = [d \in Denoms |-> 0]
    /\ acknowledged = {} /\ handled = {}

(* The application runs and App.mu is free. *)
Unlocked == op = Idle /\ draining = <<>> /\ nodeFile = "whole"

-----------------------------------------------------------------------------
(* submitDepositClaimLocked: the bridge keeper accepts the claim, then the
   wallet is credited.  When the breaker opens the claim is reported as
   rejected and nothing is credited. *)
AcceptThenCredit(claim, att) ==
    /\ ExecuteDepositClaim(claim, att)
    /\ op' = IF tripped' THEN Idle
             ELSE [step |-> "credit", account |-> claim.recipient,
                   denom |-> DenomOf[claim.assetID], amount |-> claim.amount]

SubmitDepositClaim(claim, att) ==
    /\ Unlocked
    /\ AcceptThenCredit(claim, att)
    /\ UNCHANGED balances
    /\ UNCHANGED queueVars
    /\ UNCHANGED crashVars

Credit ==
    /\ op.step = "credit"
    /\ balances' = [balances EXCEPT ![<<op.account, op.denom>>] = @ + op.amount]
    /\ op' = Idle
    /\ UNCHANGED keeperVars
    /\ UNCHANGED queueVars
    /\ UNCHANGED crashVars

(* App.ExecuteWithdrawal: the states of the keepers are exported, the bridge
   keeper burns and records, then the owner's wallet is debited. *)
SubmitWithdrawal(owner, a, amount, recipient, deadline) ==
    /\ Unlocked
    /\ ExecuteWithdrawal(a, amount, recipient, deadline)
    /\ op' = IF tripped' THEN Idle
             ELSE [step |-> "debit", account |-> owner, denom |-> DenomOf[a],
                   amount |-> amount,
                   before |-> [usage |-> usage, supply |-> supply,
                               withdrawals |-> withdrawals,
                               nextNonce |-> nextNonce]]
    /\ UNCHANGED balances
    /\ UNCHANGED queueVars
    /\ UNCHANGED crashVars

(* The keeper's own error is returned as it is: nothing is rolled back. *)
RefuseWithdrawal(a, amount) ==
    /\ Unlocked
    /\ RejectWithdrawalForSupply(a, amount)
    /\ UNCHANGED walletVars
    /\ UNCHANGED queueVars
    /\ UNCHANGED crashVars

Debit ==
    /\ op.step = "debit"
    /\ balances[<<op.account, op.denom>>] >= op.amount
    /\ balances' = [balances EXCEPT ![<<op.account, op.denom>>] = @ - op.amount]
    /\ op' = Idle
    /\ UNCHANGED keeperVars
    /\ UNCHANGED queueVars
    /\ UNCHANGED crashVars

(* rollbackWithdrawalState after ErrInsufficientBalance: importing the limits
   commits them; the bridge keeper is imported in memory and reaches the store
   with the flush that follows. *)
RestoreLimits ==
    /\ op.step = "debit"
    /\ balances[<<op.account, op.denom>>] < op.amount
    /\ usage' = op.before.usage
    /\ op' = [op EXCEPT !.step = "restore"]
    /\ UNCHANGED <<limits, balances>>
    /\ UNCHANGED policyVars
    /\ UNCHANGED ledgerVars
    /\ UNCHANGED queueVars
    /\ UNCHANGED crashVars

(* Mutants: the rollback forgets the supply, the withdrawal or the nonce. *)
RestoreOnly(restoreSupply, restoreRecords, restoreNonce) ==
    /\ op.step = "restore"
    /\ supply' = IF restoreSupply THEN op.before.supply ELSE supply
    /\ withdrawals' = IF restoreRecords THEN op.before.withdrawals ELSE withdrawals
    /\ nextNonce' = IF restoreNonce THEN op.before.nextNonce ELSE nextNonce
    /\ op' = Idle
    /\ UNCHANGED <<balances, processedClaims, acceptedUnder, tripped>>
    /\ UNCHANGED limitsVars
    /\ UNCHANGED policyVars
    /\ UNCHANGED queueVars
    /\ UNCHANGED crashVars

RestoreWithoutSupply == RestoreOnly(FALSE, TRUE, TRUE)
RestoreWithoutRecords == RestoreOnly(TRUE, FALSE, TRUE)
RestoreWithoutNonce == RestoreOnly(TRUE, TRUE, FALSE)

RestoreBridge ==
    /\ op.step = "restore"
    /\ supply' = op.before.supply
    /\ withdrawals' = op.before.withdrawals
    /\ nextNonce' = op.before.nextNonce
    /\ op' = Idle
    /\ UNCHANGED <<balances, processedClaims, acceptedUnder, tripped>>
    /\ UNCHANGED limitsVars
    /\ UNCHANGED policyVars
    /\ UNCHANGED queueVars
    /\ UNCHANGED crashVars

-----------------------------------------------------------------------------
(* The queue of deposit claims. *)

QueueDepositClaim(claim, att) ==
    /\ Unlocked
    /\ Len(pending) < MaxQueue
    /\ pending' = Append(pending, [claim |-> claim, attestation |-> att])
    /\ UNCHANGED <<draining, saved, nodeFile, acknowledged, handled>>
    /\ UNCHANGED keeperVars
    /\ UNCHANGED walletVars
    /\ UNCHANGED crashVars

(* AdvanceBlock sets the next height, takes the whole queue and submits its
   claims in order; a claim that is rejected is not put back. *)
AdvanceBlock ==
    /\ Unlocked
    /\ height < MaxHeight
    /\ SetCurrentHeight(height + 1)
    /\ draining' = pending
    /\ pending' = <<>>
    /\ UNCHANGED <<saved, nodeFile, acknowledged, handled>>
    /\ UNCHANGED walletVars
    /\ UNCHANGED crashVars

DrainHead(accepted) ==
    /\ op = Idle /\ draining # <<>>
    /\ LET head == Head(draining)
       IN  /\ IF accepted
              THEN AcceptThenCredit(head.claim, head.attestation)
              ELSE /\ ~CanExecuteDepositClaim(head.claim, head.attestation)
                   /\ UNCHANGED <<keeperVars, op>>
           /\ handled' = handled \cup {head}
    /\ draining' = Tail(draining)
    /\ UNCHANGED <<balances, pending, saved, nodeFile, acknowledged>>
    /\ UNCHANGED crashVars

(* Save and Close flush the keepers, which changes nothing, and write the
   queue, in two steps: the file is truncated, then written. *)
TruncateNodeFile ==
    /\ Unlocked
    /\ nodeFile' = "truncated"
    /\ saved' = <<>>
    /\ UNCHANGED <<pending, draining, acknowledged, handled>>
    /\ UNCHANGED keeperVars
    /\ UNCHANGED walletVars
    /\ UNCHANGED crashVars

WriteNodeFile ==
    /\ nodeFile = "truncated"
    /\ nodeFile' = "whole"
    /\ saved' = pending
    /\ acknowledged' = acknowledged \cup {pending[i] : i \in DOMAIN pending}
    /\ UNCHANGED <<pending, draining, handled>>
    /\ UNCHANGED keeperVars
    /\ UNCHANGED walletVars
    /\ UNCHANGED crashVars

-----------------------------------------------------------------------------
(* Crashes.  LoadWithConfig reads back the stores and the saved queue, and
   fails on a file that does not parse. *)

(* Mutant: a truncated file is read as an empty queue. *)
RestartWithoutParsing ==
    /\ nodeFile # "unreadable"
    /\ crashes < MaxCrashes
    /\ crashes' = crashes + 1
    /\ op' = Idle
    /\ pending' = saved
    /\ draining' = <<>>
    /\ nodeFile' = "whole"
    /\ UNCHANGED <<balances, saved, acknowledged, handled>>

Restart ==
    /\ nodeFile # "unreadable"
    /\ crashes < MaxCrashes
    /\ crashes' = crashes + 1
    /\ op' = Idle
    /\ pending' = saved
    /\ draining' = <<>>
    /\ nodeFile' = IF nodeFile = "truncated" THEN "unreadable" ELSE nodeFile
    /\ UNCHANGED <<balances, saved, acknowledged, handled>>

(* Every further start returns the error of LoadWithConfig. *)
FailToLoad == nodeFile = "unreadable" /\ UNCHANGED appVars

InFlight(steps, d) ==
    IF op.step \in steps /\ op.denom = d THEN op.amount ELSE 0

Crash ==
    /\ Restart
    /\ uncredited' = [d \in Denoms |-> uncredited[d] + InFlight({"credit"}, d)]
    /\ undebited' = [d \in Denoms |->
                        undebited[d] + InFlight({"debit", "restore"}, d)]
    /\ UNCHANGED keeperVars

(* Between the commit of the usage and that of the claim or withdrawal. *)
CrashAfterUsage(a, amount) ==
    /\ op = Idle /\ nodeFile = "whole"
    /\ \/ CanExecuteWithdrawal(a, amount) /\ draining = <<>>
       \/ \E claim \in Claims, att \in Attestations :
              /\ claim.assetID = a /\ claim.amount = amount
              /\ CanExecuteDepositClaim(claim, att)
              /\ draining # <<>> =>
                     Head(draining) = [claim |-> claim, attestation |-> att]
    /\ RecordTransferAtHeight(a, amount, height)
    /\ Restart
    /\ UNCHANGED <<uncredited, undebited>>
    /\ UNCHANGED policyVars
    /\ UNCHANGED ledgerVars

-----------------------------------------------------------------------------

AppPolicy == /\ Unlocked /\ Policy
             /\ UNCHANGED walletVars
             /\ UNCHANGED queueVars
             /\ UNCHANGED crashVars

AppNext ==
    \/ \E claim \in Claims, att \in Attestations :
           SubmitDepositClaim(claim, att) \/ QueueDepositClaim(claim, att)
    \/ \E owner \in Accounts, a \in AssetIDs, amount \in WithdrawalAmounts,
          recipient \in EthAccounts, deadline \in Deadlines :
           SubmitWithdrawal(owner, a, amount, recipient, deadline)
    \/ \E a \in AssetIDs, amount \in WithdrawalAmounts :
           RefuseWithdrawal(a, amount) \/ CrashAfterUsage(a, amount)
    \/ Credit \/ Debit \/ RestoreLimits \/ RestoreBridge
    \/ AdvanceBlock \/ TruncateNodeFile \/ WriteNodeFile
    \/ Crash \/ FailToLoad
    \/ \E accepted \in BOOLEAN : DrainHead(accepted)
    \/ AppPolicy

AppSpec == AppInit /\ [][AppNext]_appVars

-----------------------------------------------------------------------------
(* Properties. *)

WalletTotal(d) == Total(balances, Accounts \X {d})

(* At every moment, in the middle of an operation and after any number of
   crashes, the wallets and the bridge supply of a denomination differ by
   exactly the movements still in flight and those a crash cut short: a
   rollback leaves nothing behind and a retry moves nothing twice
   (App.submitDepositClaimLocked, App.ExecuteWithdrawal and their rollback). *)
WalletsMatchSupply ==
    \A d \in Denoms :
        WalletTotal(d) + uncredited[d] + InFlight({"credit"}, d)
            = supply[d] + undebited[d] + InFlight({"debit", "restore"}, d)

(* As long as the application runs, a claim whose place in the queue has been
   written by Save is submitted, or is still in the queue in memory or on disk,
   whatever crashes and blocks come in between.  A crash inside the write of
   node.json does lose the queue, and then no application runs any more: one
   that goes on without the saved claims is never loaded (AdvanceBlock,
   persistRuntimeNodeState, LoadWithConfig). *)
SavedClaimsSurvive ==
    nodeFile # "unreadable" =>
        \A q \in acknowledged :
            \/ q \in handled
            \/ \E i \in DOMAIN saved : saved[i] = q
            \/ \E i \in DOMAIN pending : pending[i] = q
            \/ \E i \in DOMAIN draining : draining[i] = q

(* docs/security-model.md: "every public redeem burns the bridged
   representation before release".  Once an operation is over, the wallets
   hold no more of a denomination than the bridge still backs. *)
RedeemsBurnWallets ==
    op = Idle => \A d \in Denoms : WalletTotal(d) <= supply[d]
=============================================================================
