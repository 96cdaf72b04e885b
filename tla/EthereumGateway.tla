-------------------------- MODULE EthereumGateway --------------------------
(***************************************************************************)
(* The Ethereum side of the bridge (contracts/ethereum): BridgeGateway     *)
(* holds ETH and ERC-20 tokens for the supply of the zone, and releases    *)
(* them against proofs that its verifier checks and consumes: a            *)
(* ThresholdBridgeVerifier, or a BridgeVerifier with a single attester.    *)
(*                                                                         *)
(* A transaction is one step, except that a release of ETH runs the code   *)
(* of the recipient before it ends: that call may enter the gateway again, *)
(* and when the release reverts, all that happened since it began is       *)
(* undone.  A transaction that reverts otherwise is no step at all.        *)
(***************************************************************************)
EXTENDS Totals, Sequences

CONSTANTS
    ETH,               \* address(0), the asset id of native deposits
    Tokens,            \* ERC-20 contracts
    MessageIDs,        \* message ids of releases
    Requests,          \* the releases that may be asked for
    Withdrawals,       \* those that a withdrawal of the zone backs
    Proofs,            \* the proofs that may come with them
    Signers,           \* attester addresses
    Faulty,            \* attesters that may sign a release nothing backs
    InitialSignerSet,  \* the constructor's signer set, version 1
    InitialAttester,   \* the single attester of a BridgeVerifier
    SignerSetChoices,  \* signer sets that may be rotated in
    DepositAmounts,    \* amounts that are deposited
    Expiries,          \* expiries of deposits
    MaxTime,           \* bound: block timestamps
    MaxDeposits,       \* bound: deposits
    MaxRotations       \* bound: signer set rotations

Assets == {ETH} \cup Tokens

ReleaseRequest == [messageID : MessageIDs, asset : Assets,
                   amount : Nat \ {0}, expiry : Nat]

(* The signatures of a proof, each by the attester it recovers to. *)
Proof == [version : Nat, signatures : Seq(Signers)]

(* _storeSignerSet: at least one signer, all different, and a threshold that
   they can meet. *)
SignerSet == {set \in [signers : SUBSET Signers, threshold : Nat \ {0}] :
                  set.threshold <= Cardinality(set.signers)}

ASSUME GatewayAssumption ==
    /\ ETH \notin Tokens
    /\ Requests \subseteq ReleaseRequest
    /\ Withdrawals \subseteq Requests
    /\ \A r, s \in Withdrawals : r.messageID = s.messageID => r = s
    /\ Proofs \subseteq Proof
    /\ IsFiniteSet(Signers) /\ Faulty \subseteq Signers
    /\ InitialSignerSet \in SignerSet /\ InitialAttester \in Signers
    /\ SignerSetChoices \subseteq SignerSet
    /\ DepositAmounts \subseteq Nat \ {0}
    /\ Expiries \subseteq Nat
    /\ MaxTime \in Nat /\ MaxDeposits \in Nat /\ MaxRotations \in Nat

VARIABLES
    now,         \* block.timestamp
    paused,      \* gateway: paused
    supported,   \* gateway: the tokens that are supported
    custody,     \* asset -> balance of the gateway
    deposits,    \* DepositInitiated events; the nonce is the index
    releases,    \* WithdrawalReleased events, with the signer set of the time
    verifier,    \* which of the two verifiers the gateway was built with
    bound,       \* verifier: its gateway is this one
    signerSets,  \* verifier: the signer sets, the last one active
    usedProofs,  \* verifier: message ids consumed
    frames       \* the ETH releases under way, with the state to go back to

ownerVars == <<verifier, paused, supported, bound, signerSets>>
gatewayVars == <<now, paused, supported, custody, deposits, releases, verifier,
                 bound, signerSets, usedProofs, frames>>

DepositEvent == [asset : Assets, amount : Nat \ {0}, expiry : Nat]

ReleaseEvent == [request : Requests, amount : Nat \ {0}, under : SignerSet]

Frame == [request : Requests, custody : [Assets -> Nat],
          deposits : Seq(DepositEvent), releases : Seq(ReleaseEvent),
          usedProofs : SUBSET MessageIDs]

TypeOK ==
    /\ now \in Nat
    /\ paused \in BOOLEAN
    /\ supported \subseteq Tokens
    /\ custody \in [Assets -> Nat]
    /\ deposits \in Seq(DepositEvent)
    /\ releases \in Seq(ReleaseEvent)
    /\ verifier \in {"threshold", "single"} /\ bound \in BOOLEAN
    /\ signerSets \in Seq(SignerSet) /\ signerSets # <<>>
    /\ usedProofs \subseteq MessageIDs
    /\ frames \in Seq(Frame) /\ Len(frames) <= 1

(* A BridgeVerifier is a set of one, whose version is always 1. *)
Attester(signer) == [signers |-> {signer}, threshold |-> 1]

Init ==
    /\ now = 0
    /\ paused = FALSE
    /\ supported = {}
    /\ custody = [a \in Assets |-> 0]
    /\ deposits = <<>>
    /\ releases = <<>>
    /\ bound = FALSE
    /\ \/ verifier = "threshold" /\ signerSets = <<InitialSignerSet>>
       \/ verifier = "single" /\ signerSets = <<Attester(InitialAttester)>>
    /\ usedProofs = {}
    /\ frames = <<>>

(* releaseEntered, the flag of nonReentrantRelease. *)
ReleaseEntered == frames # <<>>

(* The innermost release under way, and those around it. *)
Top == frames[Len(frames)]
Return == SubSeq(frames, 1, Len(frames) - 1)

-----------------------------------------------------------------------------
(* Operations of the owner and the passing of time, between transactions. *)

SetSupportedAsset(token, flag) ==
    /\ ~ReleaseEntered
    /\ supported' = IF flag THEN supported \cup {token} ELSE supported \ {token}
    /\ UNCHANGED <<now, paused, verifier, bound, signerSets, custody, deposits,
                   releases, usedProofs, frames>>

SetPaused(flag) ==
    /\ ~ReleaseEntered
    /\ paused' = flag
    /\ UNCHANGED <<now, supported, verifier, bound, signerSets, custody, deposits,
                   releases, usedProofs, frames>>

SetGateway(this) ==
    /\ ~ReleaseEntered
    /\ bound' = this
    /\ UNCHANGED <<now, paused, supported, verifier, signerSets, custody, deposits,
                   releases, usedProofs, frames>>

RotateSignerSet(set) ==
    /\ verifier = "threshold" /\ ~ReleaseEntered
    /\ Len(signerSets) <= MaxRotations
    /\ signerSets' = Append(signerSets, set)
    /\ UNCHANGED <<now, paused, supported, verifier, bound, custody, deposits,
                   releases, usedProofs, frames>>

(* A former attester who is set again vouches again for what it signed before. *)
SetAttester(signer) ==
    /\ verifier = "single" /\ ~ReleaseEntered
    /\ signerSets' = <<Attester(signer)>>
    /\ UNCHANGED <<now, paused, supported, verifier, bound, custody, deposits,
                   releases, usedProofs, frames>>

PassTime ==
    /\ ~ReleaseEntered
    /\ now < MaxTime
    /\ now' = now + 1
    /\ UNCHANGED <<ownerVars, custody, deposits, releases, usedProofs, frames>>

-----------------------------------------------------------------------------
(* Deposits, also by the recipient of a release under way. *)

(* Mutant: what the token moved is not compared with the amount. *)
IgnoreReceived(amount, received) == TRUE

(* A token may move another amount than it was asked to, by taking a fee for
   instance; the balances before and after tell. *)
IsCanonical(amount, received) == received = amount

TakeIn(asset, amount, received, expiry) ==
    /\ Len(deposits) < MaxDeposits
    /\ ~paused
    /\ expiry > now
    /\ custody' = [custody EXCEPT ![asset] = @ + received]
    /\ deposits' = Append(deposits, [asset |-> asset, amount |-> amount,
                                     expiry |-> expiry])
    /\ UNCHANGED <<now, ownerVars, releases, usedProofs, frames>>

Deposit(token, amount, received, expiry) ==
    /\ token \in supported
    /\ IsCanonical(amount, received)
    /\ TakeIn(token, amount, received, expiry)

DepositETH(amount, expiry) == TakeIn(ETH, amount, amount, expiry)

-----------------------------------------------------------------------------
(* Releases. *)

(* A signature recovers to its signer if that signer made it for this very
   request; otherwise it recovers to some other address. *)
Recovers(request, signer) == signer \in Faulty \/ request \in Withdrawals

(* What both verifiers look at first. *)
CanConsume(request) ==
    /\ bound
    /\ now <= request.expiry
    /\ request.messageID \notin usedProofs

(* Mutant: one signer may sign for several. *)
VerifyDuplicates(request, proof) ==
    LET set == signerSets[proof.version]
    IN  /\ CanConsume(request)
        /\ proof.version = Len(signerSets)
        /\ \A i \in DOMAIN proof.signatures :
               /\ proof.signatures[i] \in set.signers
               /\ Recovers(request, proof.signatures[i])
        /\ Len(proof.signatures) >= set.threshold

(* verifyAndConsume, up to the consumption: the proof names the active
   version, and all its signatures are of different members of that set. *)
VerifyAndConsume(request, proof) ==
    LET set == signerSets[proof.version]
    IN  /\ CanConsume(request)
        /\ proof.version = Len(signerSets)
        /\ \A i \in DOMAIN proof.signatures :
               /\ proof.signatures[i] \in set.signers
               /\ Recovers(request, proof.signatures[i])
               /\ \A j \in 1 .. i - 1 : proof.signatures[j] # proof.signatures[i]
        /\ Len(proof.signatures) >= set.threshold

(* The proof for a BridgeVerifier is one signature, of the attester. *)
VerifyAttester(request, proof) ==
    /\ CanConsume(request)
    /\ proof.version = 1 /\ Len(proof.signatures) = 1
    /\ proof.signatures[1] \in signerSets[1].signers
    /\ Recovers(request, proof.signatures[1])

Verifies(request, proof) ==
    IF verifier = "single" THEN VerifyAttester(request, proof)
    ELSE VerifyAndConsume(request, proof)

(* Mutant: a release may be made inside another. *)
CanReleaseInside(request, proof) ==
    /\ ~paused
    /\ request.asset = ETH \/ request.asset \in supported
    /\ Verifies(request, proof)
    /\ custody[request.asset] >= request.amount

CanRelease(request, proof) ==
    /\ ~paused
    /\ ~ReleaseEntered
    /\ request.asset = ETH \/ request.asset \in supported
    /\ Verifies(request, proof)
    /\ custody[request.asset] >= request.amount

Released(request) == [request |-> request, amount |-> request.amount,
                      under |-> signerSets[Len(signerSets)]]

(* Tokens are released in one step: the gateway loses the amount and the
   recipient gains it, or the release reverts. *)
ReleaseToken(request, proof, taken, received) ==
    /\ request.asset # ETH
    /\ CanRelease(request, proof)
    /\ taken <= custody[request.asset]
    /\ IsCanonical(request.amount, taken)
    /\ IsCanonical(request.amount, received)
    /\ usedProofs' = usedProofs \cup {request.messageID}
    /\ custody' = [custody EXCEPT ![request.asset] = @ - taken]
    /\ releases' = Append(releases, Released(request))
    /\ UNCHANGED <<now, ownerVars, deposits, frames>>

(* The proof is consumed and the ETH leaves before the recipient runs. *)
BeginReleaseETH(request, proof) ==
    /\ request.asset = ETH
    /\ CanRelease(request, proof)
    /\ frames' = Append(frames,
           [request |-> request, custody |-> custody, deposits |-> deposits,
            releases |-> releases, usedProofs |-> usedProofs])
    /\ usedProofs' = usedProofs \cup {request.messageID}
    /\ custody' = [custody EXCEPT ![ETH] = @ - request.amount]
    /\ UNCHANGED <<now, ownerVars, deposits, releases>>

(* _assertCanonicalETHRelease: the balance fell by the amount, and by nothing
   else. *)
BalanceFellByAmount(frame) ==
    custody[ETH] + frame.request.amount = frame.custody[ETH]

EndReleaseETH ==
    /\ ReleaseEntered
    /\ BalanceFellByAmount(Top)
    /\ releases' = Append(releases, Released(Top.request))
    /\ frames' = Return
    /\ UNCHANGED <<now, ownerVars, custody, deposits, usedProofs>>

(* Mutant: the consumed proof is not given back. *)
KeepProof ==
    /\ ReleaseEntered
    /\ custody' = Top.custody
    /\ deposits' = Top.deposits
    /\ releases' = Top.releases
    /\ frames' = Return
    /\ UNCHANGED <<now, ownerVars, usedProofs>>

(* The recipient fails, or the balance is not the expected one: the whole
   transaction is undone, with the deposits made in it. *)
RevertReleaseETH ==
    /\ ReleaseEntered
    /\ custody' = Top.custody
    /\ deposits' = Top.deposits
    /\ releases' = Top.releases
    /\ usedProofs' = Top.usedProofs
    /\ frames' = Return
    /\ UNCHANGED <<now, ownerVars>>

-----------------------------------------------------------------------------

(* What a token moves when it is asked to move an amount. *)
Moved(amount) == {amount - 1, amount}

Next ==
    \/ \E token \in Tokens, flag \in BOOLEAN : SetSupportedAsset(token, flag)
    \/ \E flag \in BOOLEAN : SetPaused(flag) \/ SetGateway(flag)
    \/ \E set \in SignerSetChoices : RotateSignerSet(set)
    \/ \E signer \in Signers : SetAttester(signer)
    \/ PassTime
    \/ \E token \in Tokens, amount \in DepositAmounts, expiry \in Expiries :
           \E received \in Moved(amount) : Deposit(token, amount, received, expiry)
    \/ \E amount \in DepositAmounts, expiry \in Expiries : DepositETH(amount, expiry)
    \/ \E request \in Requests, proof \in Proofs :
           \/ \E taken, received \in Moved(request.amount) :
                  ReleaseToken(request, proof, taken, received)
           \/ BeginReleaseETH(request, proof)
    \/ EndReleaseETH
    \/ RevertReleaseETH

Spec == Init /\ [][Next]_gatewayVars

-----------------------------------------------------------------------------
(* Properties. *)

DepositedOf(a) ==
    Total(Amounts(deposits), {i \in DOMAIN deposits : deposits[i].asset = a})

ReleasedOf(a) ==
    Total(Amounts(releases), {i \in DOMAIN releases : releases[i].request.asset = a})

(* Between transactions the gateway holds of every asset what was deposited of
   it less what was released of it, whatever the tokens and the recipients do
   (the balance checks of deposit and release). *)
CustodyIsExact ==
    ~ReleaseEntered =>
        \A a \in Assets : custody[a] + ReleasedOf(a) = DepositedOf(a)

(* Each message id is released once, and one that no withdrawal of the zone
   backs only if a threshold of the signers active at that time was faulty
   (verifyAndConsume, rotateSignerSet, setAttester). *)
ReleasesAreGenuine ==
    \A i \in DOMAIN releases :
        /\ \/ releases[i].request \in Withdrawals
           \/ Cardinality(releases[i].under.signers \cap Faulty)
                  >= releases[i].under.threshold
        /\ \A j \in DOMAIN releases :
               releases[i].request.messageID = releases[j].request.messageID => i = j

(* Between transactions a proof is used up if and only if its release was paid
   out: a release that reverts can be made again. *)
UsedProofsArePaid ==
    ~ReleaseEntered =>
        usedProofs = {releases[i].request.messageID : i \in DOMAIN releases}
=============================================================================
