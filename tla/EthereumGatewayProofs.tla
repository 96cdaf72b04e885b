----------------------- MODULE EthereumGatewayProofs -----------------------
(***************************************************************************)
(* What the gateway and its verifier keep for every set of tokens, of      *)
(* attesters and of proofs, whatever the recipient of a release does while *)
(* the release is under way.                                               *)
(***************************************************************************)
EXTENDS EthereumGateway, TotalsProofs, SequenceTheorems

-----------------------------------------------------------------------------
(* Types. *)

(* The single attester is a signer set, of one. *)
LEMMA AttesterIsSignerSet ==
    ASSUME NEW signer \in Signers
    PROVE  Attester(signer) \in SignerSet
<1>1. Cardinality({signer}) = 1
  BY FS_Singleton
<1> QED
  BY <1>1 DEF Attester, SignerSet

(* There is at most one release under way, so the end of it leaves none. *)
LEMMA ReturnLeavesNone ==
    ASSUME TypeOK, ReleaseEntered
    PROVE  Len(frames) = 1 /\ Top \in Frame /\ Top = frames[1] /\ Return = <<>>
<1>1. Len(frames) = 1 /\ frames \in Seq(Frame)
  <2>1. frames \in Seq(Frame) /\ Len(frames) <= 1 /\ frames # <<>>
    BY DEF TypeOK, ReleaseEntered
  <2>2. Len(frames) \in Nat /\ Len(frames) # 0
    BY <2>1, EmptySeq, LenProperties
  <2>3. Len(frames) <= 1
    BY <2>1
  <2>4. \A n \in Nat : n # 0 /\ n <= 1 => n = 1
    OBVIOUS
  <2> QED
    BY <2>1, <2>2, <2>3, <2>4, Zenon
<1>2. frames[1] \in Frame
  BY <1>1, ElementOfSeq
<1>3. SubSeq(frames, 1, 0) = <<>>
  BY <1>1, SubSeqEmpty
<1> QED
  BY <1>1, <1>2, <1>3 DEF Top, Return

(* A release that begins is the only one. *)
LEMMA BeginIsFirst ==
    ASSUME TypeOK, NEW request \in Requests, NEW proof,
           BeginReleaseETH(request, proof)
    PROVE  /\ frames = <<>> /\ ReleaseEntered' /\ Len(frames') = 1
           /\ Top' = [request |-> request, custody |-> custody,
                      deposits |-> deposits, releases |-> releases,
                      usedProofs |-> usedProofs]
           /\ frames' \in Seq(Frame)
<1> DEFINE F == [request |-> request, custody |-> custody,
                 deposits |-> deposits, releases |-> releases,
                 usedProofs |-> usedProofs]
<1>1. frames = <<>> /\ frames' = Append(frames, F)
  BY DEF BeginReleaseETH, CanRelease, ReleaseEntered
<1>2. F \in Frame
  BY DEF TypeOK, Frame
<1> HIDE DEF F
<1>3. frames' = <<F>>
  BY <1>1
<1>4. Len(frames') = 1 /\ frames'[1] = F /\ frames' # <<>>
  BY <1>3
<1>5. frames' \in Seq(Frame)
  BY <1>2, <1>3
<1> QED
  BY <1>1, <1>4, <1>5 DEF Top, ReleaseEntered, F

(* Every step keeps the types. *)
LEMMA TypeStep == TypeOK /\ [Next]_gatewayVars => TypeOK'
<1> SUFFICES ASSUME TypeOK, [Next]_gatewayVars PROVE TypeOK'
  OBVIOUS
<1> USE GatewayAssumption
<1>0. \A request \in Requests :
          request \in ReleaseRequest /\ Released(request) \in ReleaseEvent
  <2> SUFFICES ASSUME NEW request \in Requests
               PROVE  request \in ReleaseRequest /\ Released(request) \in ReleaseEvent
    OBVIOUS
  <2>1. signerSets[Len(signerSets)] \in SignerSet
    BY DEF TypeOK
  <2>2. request \in ReleaseRequest /\ request.amount \in Nat \ {0}
    BY DEF ReleaseRequest
  <2> QED
    BY <2>1, <2>2 DEF Released, ReleaseEvent
<1>1. ASSUME NEW token \in Tokens, NEW flag \in BOOLEAN,
             SetSupportedAsset(token, flag)
      PROVE  TypeOK'
  BY <1>1 DEF SetSupportedAsset, TypeOK
<1>2. ASSUME NEW flag \in BOOLEAN, SetPaused(flag) \/ SetGateway(flag)
      PROVE  TypeOK'
  BY <1>2 DEF SetPaused, SetGateway, TypeOK
<1>3. ASSUME NEW set \in SignerSetChoices, RotateSignerSet(set)
      PROVE  TypeOK'
  <2>1. signerSets' \in Seq(SignerSet) /\ signerSets' # <<>>
    BY <1>3 DEF RotateSignerSet, TypeOK
  <2> QED
    BY <1>3, <2>1 DEF RotateSignerSet, TypeOK
<1>4. ASSUME NEW signer \in Signers, SetAttester(signer)
      PROVE  TypeOK'
  <2>1. signerSets' \in Seq(SignerSet) /\ signerSets' # <<>>
    BY <1>4, AttesterIsSignerSet DEF SetAttester
  <2> QED
    BY <1>4, <2>1 DEF SetAttester, TypeOK
<1>5. CASE PassTime
  BY <1>5 DEF PassTime, TypeOK, ownerVars
<1>6. ASSUME NEW asset \in Assets, NEW amount \in DepositAmounts,
             NEW expiry \in Expiries, TakeIn(asset, amount, amount, expiry)
      PROVE  TypeOK'
  <2>1. [asset |-> asset, amount |-> amount, expiry |-> expiry] \in DepositEvent
    BY DEF DepositEvent
  <2>2. deposits' \in Seq(DepositEvent)
    BY <1>6, <2>1 DEF TakeIn, TypeOK
  <2>3. custody' \in [Assets -> Nat]
    BY <1>6 DEF TakeIn, TypeOK
  <2> QED
    BY <1>6, <2>2, <2>3 DEF TakeIn, TypeOK, ownerVars
<1>7. ASSUME NEW request \in Requests, NEW proof \in Proofs, NEW taken, NEW received,
             ReleaseToken(request, proof, taken, received)
      PROVE  TypeOK'
  <2>1. releases' \in Seq(ReleaseEvent)
    BY <1>0, <1>7 DEF ReleaseToken, TypeOK
  <2>2. request.asset \in Assets /\ request.messageID \in MessageIDs
        /\ taken = request.amount /\ taken \in Nat
    BY <1>0, <1>7 DEF ReleaseToken, IsCanonical, ReleaseRequest
  <2>3. custody' \in [Assets -> Nat]
    BY <1>7, <2>2 DEF ReleaseToken, TypeOK
  <2> QED
    BY <1>7, <2>1, <2>2, <2>3 DEF ReleaseToken, TypeOK, ownerVars
<1>8. ASSUME NEW request \in Requests, NEW proof \in Proofs,
             BeginReleaseETH(request, proof)
      PROVE  TypeOK'
  <2>1. request.asset = ETH /\ request.messageID \in MessageIDs /\ request.amount \in Nat
    BY <1>0, <1>8 DEF BeginReleaseETH, ReleaseRequest
  <2>2. custody[ETH] >= request.amount /\ ETH \in Assets
    BY <1>8 DEF BeginReleaseETH, CanRelease, Assets
  <2>3. custody' \in [Assets -> Nat]
    BY <1>8, <2>1, <2>2 DEF BeginReleaseETH, TypeOK
  <2>4. frames' \in Seq(Frame) /\ Len(frames') = 1
    BY <1>8, BeginIsFirst
  <2> QED
    BY <1>8, <2>1, <2>3, <2>4 DEF BeginReleaseETH, TypeOK, ownerVars
<1>9. CASE EndReleaseETH
  <2>1. Return = <<>> /\ Top.request \in Requests
    BY <1>9, ReturnLeavesNone DEF EndReleaseETH, Frame
  <2>2. releases' \in Seq(ReleaseEvent)
    BY <1>0, <1>9, <2>1 DEF EndReleaseETH, TypeOK
  <2>3. frames' \in Seq(Frame) /\ Len(frames') <= 1
    BY <1>9, <2>1 DEF EndReleaseETH
  <2> QED
    BY <1>9, <2>2, <2>3 DEF EndReleaseETH, TypeOK, ownerVars
<1>10. CASE RevertReleaseETH
  <2>1. Return = <<>> /\ Top \in Frame
    BY <1>10, ReturnLeavesNone DEF RevertReleaseETH
  <2>2. frames' \in Seq(Frame) /\ Len(frames') <= 1
    BY <1>10, <2>1 DEF RevertReleaseETH
  <2>3. /\ custody' \in [Assets -> Nat] /\ deposits' \in Seq(DepositEvent)
        /\ releases' \in Seq(ReleaseEvent) /\ usedProofs' \subseteq MessageIDs
    BY <1>10, <2>1 DEF RevertReleaseETH, Frame
  <2> QED
    BY <1>10, <2>2, <2>3 DEF RevertReleaseETH, TypeOK, ownerVars
<1>11. CASE UNCHANGED gatewayVars
  BY <1>11 DEF gatewayVars, TypeOK
<1>12. ASSUME NEW token \in Tokens, NEW amount \in DepositAmounts,
              NEW expiry \in Expiries, NEW received,
              Deposit(token, amount, received, expiry)
       PROVE  TypeOK'
  BY <1>12, <1>6 DEF Deposit, IsCanonical, Assets
<1>13. ASSUME NEW amount \in DepositAmounts, NEW expiry \in Expiries,
              DepositETH(amount, expiry)
       PROVE  TypeOK'
  BY <1>13, <1>6 DEF DepositETH, Assets
<1> QED
  BY <1>1, <1>2, <1>3, <1>4, <1>5, <1>7, <1>8, <1>9, <1>10, <1>11, <1>12, <1>13
  DEF Next

LEMMA TypeInit == Init => TypeOK
<1> SUFFICES ASSUME Init PROVE TypeOK
  OBVIOUS
<1> DEFINE A == Attester(InitialAttester)
<1>1. A \in SignerSet /\ InitialSignerSet \in SignerSet
  BY GatewayAssumption, AttesterIsSignerSet
<1>2. signerSets = <<InitialSignerSet>> \/ signerSets = <<A>>
  BY DEF Init
<1> HIDE DEF A
<1>3. signerSets \in Seq(SignerSet) /\ signerSets # <<>>
  <2>1. CASE signerSets = <<InitialSignerSet>>
    BY <1>1, <2>1
  <2>2. CASE signerSets = <<A>>
    BY <1>1, <2>2
  <2> QED
    BY <1>2, <2>1, <2>2
<1>4. custody \in [Assets -> Nat]
  BY DEF Init
<1>5. deposits = <<>> /\ releases = <<>> /\ frames = <<>>
  BY DEF Init
<1>6. /\ deposits \in Seq(DepositEvent) /\ releases \in Seq(ReleaseEvent)
      /\ frames \in Seq(Frame) /\ Len(frames) <= 1
  BY <1>5
<1> QED
  BY <1>3, <1>4, <1>6 DEF Init, TypeOK

(* Every variable of the gateway and its verifier keeps its type: balances
   never go below zero, message ids are consumed only as such, and no release
   of ETH is entered inside another (nonReentrantRelease). *)
THEOREM GatewayTypeCorrect == Spec => []TypeOK
<1> QED
  BY TypeInit, TypeStep, PTL DEF Spec

-----------------------------------------------------------------------------
(* The invariant.  Inside a release of ETH none of the three properties     *)
(* holds as it stands: the proof is consumed and the ETH is gone, and the    *)
(* release is not recorded yet.  The invariant says what the frame makes up  *)
(* for: adding the amount back balances the books of the deposits the        *)
(* recipient has made since, and the state a revert goes back to balances.   *)

Balanced(c, d, r) ==
    \A a \in Assets :
        c[a] + Total(Amounts(r), {i \in DOMAIN r : r[i].request.asset = a})
            = Total(Amounts(d), {i \in DOMAIN d : d[i].asset = a})

Paid(r) == {r[i].request.messageID : i \in DOMAIN r}

(* A withdrawal backs the request, or a threshold of the set was faulty. *)
Genuine(request, set) ==
    request \in Withdrawals \/ Cardinality(set.signers \cap Faulty) >= set.threshold

Active == signerSets[Len(signerSets)]

LedgerPart ==
    /\ ~ReleaseEntered => Balanced(custody, deposits, releases)
    /\ ReleaseEntered =>
           /\ Balanced(Top.custody, Top.deposits, Top.releases)
           /\ Balanced([custody EXCEPT ![ETH] = @ + Top.request.amount],
                       deposits, releases)

FramePart ==
    ReleaseEntered =>
        /\ Top.request.asset = ETH
        /\ Top.releases = releases
        /\ Top.request.messageID \notin Top.usedProofs
        /\ Genuine(Top.request, Active)

ProofsPart ==
    /\ ~ReleaseEntered => usedProofs = Paid(releases)
    /\ ReleaseEntered =>
           /\ Top.usedProofs = Paid(releases)
           /\ usedProofs = Top.usedProofs \cup {Top.request.messageID}

(* A BridgeVerifier has one attester at a time. *)
VerifierPart ==
    verifier = "single" => \E signer \in Signers : signerSets = <<Attester(signer)>>

GatewayInv ==
    /\ TypeOK
    /\ LedgerPart
    /\ FramePart
    /\ ProofsPart
    /\ VerifierPart
    /\ ReleasesAreGenuine

(* An event appended to a log adds its amount to the sets it belongs to. *)
LEMMA TotalWithEvent ==
    ASSUME NEW E, \A e \in E : e.amount \in Nat, NEW log \in Seq(E), NEW e \in E,
           NEW S \in SUBSET DOMAIN log
    PROVE  /\ DOMAIN Append(log, e) = DOMAIN log \cup {Len(log) + 1}
           /\ \A i \in DOMAIN log : Append(log, e)[i] = log[i]
           /\ Append(log, e)[Len(log) + 1] = e
           /\ Len(log) + 1 \notin DOMAIN log
           /\ Total(Amounts(Append(log, e)), S) = Total(Amounts(log), S)
           /\ Total(Amounts(Append(log, e)), S \cup {Len(log) + 1})
                 = Total(Amounts(log), S) + e.amount
           /\ Total(Amounts(log), S) \in Nat
<1> DEFINE new == Append(log, e)
           n == Len(log) + 1
<1>1. Len(log) \in Nat /\ DOMAIN log = 1 .. Len(log)
  BY LenProperties
<1>2. /\ DOMAIN new = 1 .. n
      /\ \A i \in 1 .. Len(log) : new[i] = log[i]
      /\ new[n] = e
  BY <1>1, AppendProperties
<1>3. DOMAIN new = DOMAIN log \cup {n} /\ n \notin DOMAIN log
  BY <1>1, <1>2
<1>4. IsFiniteSet(DOMAIN log)
  BY <1>1, FS_Interval
<1>5. \A i \in DOMAIN log : log[i].amount \in Nat /\ new[i] = log[i]
  BY <1>1, <1>2, ElementOfSeq
<1> HIDE DEF new, n
<1> DEFINE f == Amounts(log)
           g == Amounts(new)
<1>6. /\ \A i \in DOMAIN log : f[i] = log[i].amount /\ g[i] = new[i].amount
      /\ g[n] = e.amount
  BY <1>2, <1>3 DEF Amounts
<1>7. /\ \A i \in S : f[i] = g[i] /\ f[i] \in Nat
      /\ \A i \in S \cup {n} : g[i] \in Nat
      /\ n \notin S
  BY <1>3, <1>5, <1>6
<1>8. IsFiniteSet(S)
  BY <1>4, FS_Subset
<1> HIDE DEF f, g
<1>9. Total(g, S) = Total(f, S) /\ Total(f, S) \in Nat
  BY <1>7, <1>8, TotalSame, TotalIsNat
<1>10. Total(g, S \cup {n}) = Total(g, S) + g[n]
  BY <1>7, <1>8, TotalAdd
<1> QED
  BY <1>2, <1>3, <1>5, <1>6, <1>9, <1>10 DEF new, n, f, g

(* A deposit that brings in its amount keeps the books balanced. *)
LEMMA BalancedDeposit ==
    ASSUME NEW c \in [Assets -> Int], NEW d \in Seq(DepositEvent), NEW r,
           NEW e \in DepositEvent, Balanced(c, d, r),
           \A a \in Assets :
               Total(Amounts(r), {i \in DOMAIN r : r[i].request.asset = a}) \in Nat
    PROVE  Balanced([c EXCEPT ![e.asset] = @ + e.amount], Append(d, e), r)
<1> DEFINE new == Append(d, e)
           n == Len(d) + 1
           Of(log, a) == {i \in DOMAIN log : log[i].asset = a}
           Out(a) == Total(Amounts(r), {i \in DOMAIN r : r[i].request.asset = a})
           c2 == [c EXCEPT ![e.asset] = @ + e.amount]
<1> SUFFICES ASSUME NEW a \in Assets
             PROVE  c2[a] + Out(a) = Total(Amounts(new), Of(new, a))
  BY DEF Balanced
<1>1. \A x \in DepositEvent : x.amount \in Nat
  BY DEF DepositEvent
<1>2. Of(d, a) \in SUBSET DOMAIN d
  OBVIOUS
<1>3. /\ DOMAIN new = DOMAIN d \cup {n}
      /\ \A i \in DOMAIN d : new[i] = d[i]
      /\ new[n] = e
      /\ n \notin DOMAIN d
      /\ Total(Amounts(new), Of(d, a)) = Total(Amounts(d), Of(d, a))
      /\ Total(Amounts(new), Of(d, a) \cup {n}) = Total(Amounts(d), Of(d, a)) + e.amount
      /\ Total(Amounts(d), Of(d, a)) \in Nat
  <2> HIDE DEF Of
  <2> QED BY <1>1, <1>2, TotalWithEvent
<1>4. c[a] + Out(a) = Total(Amounts(d), Of(d, a)) /\ c[a] \in Int /\ Out(a) \in Nat
      /\ e.amount \in Nat
  BY <1>1 DEF Balanced
<1>5. CASE e.asset = a
  <2>1. Of(new, a) = Of(d, a) \cup {n}
    <3> HIDE DEF new, n
    <3> QED BY <1>3, <1>5
  <2>2. c2[a] = c[a] + e.amount
    BY <1>5
  <2> HIDE DEF new, n, Of, Out, c2
  <2> QED
    BY <1>3, <1>4, <2>1, <2>2
<1>6. CASE e.asset # a
  <2>1. Of(new, a) = Of(d, a)
    <3> HIDE DEF new, n
    <3> QED BY <1>3, <1>6
  <2>2. c2[a] = c[a]
    BY <1>6
  <2> HIDE DEF new, n, Of, Out, c2
  <2> QED
    BY <1>3, <1>4, <2>1, <2>2
<1> QED
  BY <1>5, <1>6

(* What a log has paid out of an asset is a natural number. *)
LEMMA ReleasedIsNat ==
    ASSUME NEW r \in Seq(ReleaseEvent), NEW a
    PROVE  Total(Amounts(r), {i \in DOMAIN r : r[i].request.asset = a}) \in Nat
<1> DEFINE S == {i \in DOMAIN r : r[i].request.asset = a}
<1>1. Len(r) \in Nat /\ DOMAIN r = 1 .. Len(r)
  BY LenProperties
<1>2. IsFiniteSet(DOMAIN r)
  BY <1>1, FS_Interval
<1>3. IsFiniteSet(S)
  BY <1>2, FS_Subset
<1>4. \A i \in S : Amounts(r)[i] \in Nat
  <2>1. \A i \in DOMAIN r : r[i] \in ReleaseEvent
    BY <1>1, ElementOfSeq
  <2>2. \A e \in ReleaseEvent : e.amount \in Nat
    BY DEF ReleaseEvent
  <2>3. \A i \in DOMAIN r : Amounts(r)[i] = r[i].amount
    BY DEF Amounts
  <2> QED
    BY <2>1, <2>2, <2>3
<1> HIDE DEF S
<1>5. Total(Amounts(r), S) \in Nat
  BY <1>3, <1>4, TotalIsNat
<1> QED
  BY <1>5 DEF S

(* A release that takes out its amount keeps the books balanced. *)
LEMMA BalancedRelease ==
    ASSUME NEW c \in [Assets -> Int], NEW d, NEW r \in Seq(ReleaseEvent),
           NEW e \in ReleaseEvent, Balanced(c, d, r)
    PROVE  Balanced([c EXCEPT ![e.request.asset] = @ - e.amount], d, Append(r, e))
<1> DEFINE new == Append(r, e)
           n == Len(r) + 1
           Of(log, a) == {i \in DOMAIN log : log[i].request.asset = a}
           In(a) == Total(Amounts(d), {i \in DOMAIN d : d[i].asset = a})
           c2 == [c EXCEPT ![e.request.asset] = @ - e.amount]
<1> SUFFICES ASSUME NEW a \in Assets
             PROVE  c2[a] + Total(Amounts(new), Of(new, a)) = In(a)
  BY DEF Balanced
<1>1. \A x \in ReleaseEvent : x.amount \in Nat
  BY DEF ReleaseEvent
<1>2. Of(r, a) \in SUBSET DOMAIN r
  OBVIOUS
<1>3. /\ DOMAIN new = DOMAIN r \cup {n}
      /\ \A i \in DOMAIN r : new[i] = r[i]
      /\ new[n] = e
      /\ n \notin DOMAIN r
      /\ Total(Amounts(new), Of(r, a)) = Total(Amounts(r), Of(r, a))
      /\ Total(Amounts(new), Of(r, a) \cup {n}) = Total(Amounts(r), Of(r, a)) + e.amount
      /\ Total(Amounts(r), Of(r, a)) \in Nat
  <2> HIDE DEF Of
  <2> QED BY <1>1, <1>2, TotalWithEvent
<1>4. c[a] + Total(Amounts(r), Of(r, a)) = In(a) /\ c[a] \in Int /\ e.amount \in Nat
  BY <1>1 DEF Balanced
<1>5. CASE e.request.asset = a
  <2>1. Of(new, a) = Of(r, a) \cup {n}
    <3> HIDE DEF new, n
    <3> QED BY <1>3, <1>5
  <2>2. c2[a] = c[a] - e.amount
    BY <1>5
  <2> HIDE DEF new, n, Of, In, c2
  <2> QED
    BY <1>3, <1>4, <2>1, <2>2
<1>6. CASE e.request.asset # a
  <2>1. Of(new, a) = Of(r, a)
    <3> HIDE DEF new, n
    <3> QED BY <1>3, <1>6
  <2>2. c2[a] = c[a]
    BY <1>6
  <2> HIDE DEF new, n, Of, In, c2
  <2> QED
    BY <1>3, <1>4, <2>1, <2>2
<1> QED
  BY <1>5, <1>6

-----------------------------------------------------------------------------
(* What a verified proof says.  Signatures that the threshold verifier       *)
(* accepts are of different members of the active set, so there are no more  *)
(* of them than faulty members unless a withdrawal backs the request.        *)
LEMMA VerifiedIsGenuine ==
    ASSUME TypeOK, VerifierPart, NEW request, NEW proof \in Proofs,
           Verifies(request, proof)
    PROVE  Genuine(request, Active)
<1> SUFFICES ASSUME request \notin Withdrawals
             PROVE  Cardinality(Active.signers \cap Faulty) >= Active.threshold
  BY DEF Genuine
<1> DEFINE sigs == proof.signatures
           B == Active.signers \cap Faulty
<1>1. sigs \in Seq(Signers) /\ Len(sigs) \in Nat /\ DOMAIN sigs = 1 .. Len(sigs)
  BY GatewayAssumption, LenProperties DEF Proof
<1>2. IsFiniteSet(B)
  <2>1. IsFiniteSet(Faulty)
    BY GatewayAssumption, FS_Subset
  <2> QED
    BY <2>1, FS_Subset
<1>3. CASE verifier = "single"
  <2>1. PICK signer \in Signers : signerSets = <<Attester(signer)>>
    BY <1>3 DEF VerifierPart
  <2>2. Active = Attester(signer) /\ signerSets[1] = Attester(signer)
    BY <2>1 DEF Active
  <2>3. Active.signers = {signer} /\ Active.threshold = 1
        /\ signerSets[1].signers = {signer}
    BY <2>2 DEF Attester
  <2>4. VerifyAttester(request, proof)
    BY <1>3 DEF Verifies
  <2>5. sigs[1] \in {signer} /\ sigs[1] \in Faulty
    BY <2>3, <2>4 DEF VerifyAttester, Recovers
  <2>6. B = {signer}
    BY <2>3, <2>5
  <2>7. Cardinality(B) = 1
    BY <2>6, FS_Singleton
  <2> QED
    BY <2>3, <2>7
<1>4. CASE verifier # "single"
  <2>1. VerifyAndConsume(request, proof)
    BY <1>4 DEF Verifies
  <2>2. /\ \A i \in DOMAIN sigs :
               /\ sigs[i] \in B
               /\ \A j \in 1 .. i - 1 : sigs[j] # sigs[i]
        /\ Len(sigs) >= Active.threshold
    BY <2>1 DEF VerifyAndConsume, Recovers, Active
  <2>3. sigs \in [1 .. Len(sigs) -> B]
    BY <1>1, <2>2
  <2>4. \A i, j \in 1 .. Len(sigs) : sigs[i] = sigs[j] => i = j
    BY <1>1, <2>2
  <2>5. sigs \in Injection(1 .. Len(sigs), B)
    BY <2>3, <2>4 DEF Injection, IsInjective
  <2>6. Cardinality(1 .. Len(sigs)) <= Cardinality(B)
    <3> HIDE DEF sigs, B
    <3> QED BY <1>2, <2>5, FS_Injection
  <2>7. Cardinality(1 .. Len(sigs)) = Len(sigs)
    BY <1>1, FS_Interval
  <2>8. Cardinality(B) \in Nat
    BY <1>2, FS_CardinalityType
  <2>9. Active.threshold \in Nat
    BY DEF TypeOK, Active, SignerSet
  <2> HIDE DEF sigs, B
  <2>10. Cardinality(B) >= Active.threshold
    BY <1>1, <2>2, <2>6, <2>7, <2>8, <2>9
  <2> QED
    BY <2>10 DEF B
<1> QED
  BY <1>3, <1>4

(* One more release that is genuine and of a message id not paid yet. *)
LEMMA ReleasesStayGenuine ==
    ASSUME TypeOK, ReleasesAreGenuine, NEW request \in Requests,
           Genuine(request, Active), request.messageID \notin Paid(releases),
           releases' = Append(releases, Released(request))
    PROVE  /\ ReleasesAreGenuine'
           /\ Paid(releases') = Paid(releases) \cup {request.messageID}
<1> DEFINE e == Released(request)
           n == Len(releases) + 1
<1>1. releases \in Seq(ReleaseEvent) /\ Len(releases) \in Nat
      /\ DOMAIN releases = 1 .. Len(releases)
  BY LenProperties DEF TypeOK
<1>2. e.request = request /\ e.under = Active
  BY DEF Released, Active
<1>3. /\ DOMAIN releases' = DOMAIN releases \cup {n}
      /\ \A i \in DOMAIN releases : releases'[i] = releases[i]
      /\ releases'[n] = e
      /\ n \notin DOMAIN releases
  <2> HIDE DEF e
  <2>1. releases' = Append(releases, e)
    BY DEF e
  <2> QED BY <1>1, <2>1, AppendProperties
<1> HIDE DEF e, n
<1>4. Paid(releases') = Paid(releases) \cup {request.messageID}
  BY <1>2, <1>3 DEF Paid
<1>5. \A i \in DOMAIN releases : releases[i].request.messageID # request.messageID
  BY DEF Paid
<1>6. ReleasesAreGenuine'
  <2>1. ASSUME NEW i \in DOMAIN releases'
        PROVE  Genuine(releases'[i].request, releases'[i].under)
    BY <1>2, <1>3 DEF ReleasesAreGenuine, Genuine
  <2>2. ASSUME NEW i \in DOMAIN releases', NEW j \in DOMAIN releases',
               releases'[i].request.messageID = releases'[j].request.messageID
        PROVE  i = j
    <3>1. CASE i = n \/ j = n
      BY <1>2, <1>3, <1>5, <2>2, <3>1
    <3>2. CASE i \in DOMAIN releases /\ j \in DOMAIN releases
      BY <1>3, <2>2, <3>2 DEF ReleasesAreGenuine
    <3> QED
      BY <1>3, <3>1, <3>2
  <2> QED
    BY <2>1, <2>2 DEF ReleasesAreGenuine, Genuine
<1> QED
  BY <1>4, <1>6

-----------------------------------------------------------------------------
(* The steps. *)

Plus(f, x, n) == [f EXCEPT ![x] = @ + n]
Minus(f, x, n) == [f EXCEPT ![x] = @ - n]

(* What is taken out and put back, or put in and taken out, leaves no trace. *)
LEMMA PlusAndMinus ==
    ASSUME NEW f \in [Assets -> Int], NEW x \in Assets, NEW n \in Int
    PROVE  /\ Plus(Minus(f, x, n), x, n) = f /\ Minus(Plus(f, x, n), x, n) = f
           /\ Plus(f, x, n) \in [Assets -> Int]
<1> DEFINE g == Plus(Minus(f, x, n), x, n)
           h == Minus(Plus(f, x, n), x, n)
<1>1. g \in [Assets -> Int] /\ h \in [Assets -> Int] /\ Plus(f, x, n) \in [Assets -> Int]
  BY DEF Plus, Minus
<1>2. \A a \in Assets : g[a] = f[a] /\ h[a] = f[a]
  BY DEF Plus, Minus
<1> HIDE DEF g, h
<1>3. g = f /\ h = f
  BY <1>1, <1>2
<1> QED
  BY <1>1, <1>3 DEF g, h

(* Two amounts may be added to balances in either order. *)
LEMMA AddingCommutes ==
    ASSUME NEW f \in [Assets -> Int], NEW x \in Assets, NEW y \in Assets,
           NEW m \in Int, NEW n \in Int
    PROVE  Plus(Plus(f, x, m), y, n) = Plus(Plus(f, y, n), x, m)
<1> DEFINE g == Plus(Plus(f, x, m), y, n)
           h == Plus(Plus(f, y, n), x, m)
<1>1. g \in [Assets -> Int] /\ h \in [Assets -> Int]
  BY DEF Plus
<1>2. ASSUME NEW a \in Assets PROVE g[a] = h[a]
  <2>1. CASE x = y
    BY <2>1 DEF Plus
  <2>2. CASE x # y
    BY <2>2 DEF Plus
  <2> QED
    BY <2>1, <2>2
<1> HIDE DEF g, h
<1>3. g = h
  BY <1>1, <1>2
<1> QED
  BY <1>3 DEF g, h

(* Outside a release, a step that moves no money and consumes no proof. *)
LEMMA OwnerStep ==
    ASSUME GatewayInv, ~ReleaseEntered,
           UNCHANGED <<custody, deposits, releases, usedProofs, frames>>
    PROVE  /\ LedgerPart' /\ FramePart' /\ ProofsPart' /\ ReleasesAreGenuine'
           /\ ~ReleaseEntered'
<1>1. ~ReleaseEntered'
  BY DEF ReleaseEntered
<1>2. Balanced(custody', deposits', releases')
  BY DEF GatewayInv, LedgerPart
<1>3. usedProofs' = Paid(releases')
  BY DEF GatewayInv, ProofsPart
<1>4. ReleasesAreGenuine'
  BY DEF GatewayInv, ReleasesAreGenuine
<1> QED
  BY <1>1, <1>2, <1>3, <1>4 DEF LedgerPart, FramePart, ProofsPart

(* A deposit, outside a release or by the recipient of one. *)
LEMMA TakeInStep ==
    ASSUME GatewayInv, NEW asset \in Assets, NEW amount \in DepositAmounts,
           NEW expiry \in Expiries, TakeIn(asset, amount, amount, expiry)
    PROVE  /\ LedgerPart' /\ FramePart' /\ ProofsPart' /\ ReleasesAreGenuine'
<1> DEFINE e == [asset |-> asset, amount |-> amount, expiry |-> expiry]
<1>1. TypeOK
  BY DEF GatewayInv
<1>2. e \in DepositEvent /\ e.asset = asset /\ e.amount = amount /\ amount \in Nat
  BY GatewayAssumption DEF DepositEvent
<1>3. /\ custody' = [custody EXCEPT ![asset] = @ + amount]
      /\ deposits' = Append(deposits, e)
      /\ UNCHANGED <<releases, usedProofs, frames, signerSets>>
  BY DEF TakeIn, ownerVars
<1> HIDE DEF e
<1>4. (ReleaseEntered' <=> ReleaseEntered) /\ Top' = Top /\ Active' = Active
  BY <1>3 DEF ReleaseEntered, Top, Active
<1>5. /\ custody \in [Assets -> Nat] /\ deposits \in Seq(DepositEvent)
      /\ \A a \in Assets :
             Total(Amounts(releases), {i \in DOMAIN releases :
                                           releases[i].request.asset = a}) \in Nat
  BY <1>1, ReleasedIsNat DEF TypeOK
<1>6. ASSUME NEW c \in [Assets -> Int], Balanced(c, deposits, releases)
      PROVE  Balanced([c EXCEPT ![asset] = @ + amount], deposits', releases')
  <2>1. Balanced([c EXCEPT ![e.asset] = @ + e.amount], Append(deposits, e), releases)
    BY <1>2, <1>5, <1>6, BalancedDeposit
  <2> QED
    BY <1>2, <1>3, <2>1
<1>7. LedgerPart'
  <2>1. CASE ~ReleaseEntered
    <3>1. Balanced(custody, deposits, releases)
      BY <2>1 DEF GatewayInv, LedgerPart
    <3>2. custody \in [Assets -> Int]
      BY <1>5
    <3>3. Balanced(custody', deposits', releases')
      BY <1>3, <1>6, <3>1, <3>2
    <3> QED
      BY <1>4, <2>1, <3>3 DEF LedgerPart
  <2>2. CASE ReleaseEntered
    <3> DEFINE c == [custody EXCEPT ![ETH] = @ + Top.request.amount]
               n == Top.request.amount
    <3>1. Balanced(c, deposits, releases) /\ Balanced(Top.custody, Top.deposits, Top.releases)
      BY <2>2 DEF GatewayInv, LedgerPart
    <3>2. ETH \in Assets
      BY DEF Assets
    <3>3. n \in Nat
      <4>1. Top.request \in Requests
        BY <1>1, <2>2, ReturnLeavesNone DEF Frame
      <4> QED
        BY <4>1, GatewayAssumption DEF ReleaseRequest
    <3>4. c \in [Assets -> Int]
      <4> HIDE DEF n
      <4>1. c = [custody EXCEPT ![ETH] = @ + n]
        BY DEF n
      <4> QED
        BY <1>5, <3>2, <3>3, <4>1
    <3>5. Balanced([c EXCEPT ![asset] = @ + amount], deposits', releases')
      <4> HIDE DEF c
      <4> QED BY <1>6, <3>1, <3>4
    <3>6. [c EXCEPT ![asset] = @ + amount] = [custody' EXCEPT ![ETH] = @ + n]
      <4> HIDE DEF n
      <4>1. c = [custody EXCEPT ![ETH] = @ + n]
        BY DEF n
      <4>2. custody \in [Assets -> Int] /\ amount \in Int /\ n \in Int
        BY <1>2, <1>5, <3>3
      <4>3. Plus(Plus(custody, ETH, n), asset, amount)
               = Plus(Plus(custody, asset, amount), ETH, n)
        BY <3>2, <4>2, AddingCommutes
      <4>4. c = Plus(custody, ETH, n) /\ custody' = Plus(custody, asset, amount)
        BY <1>3, <4>1 DEF Plus
      <4> HIDE DEF c
      <4>5. Plus(c, asset, amount) = Plus(custody', ETH, n)
        BY <4>3, <4>4
      <4> QED
        BY <4>5 DEF Plus
    <3>7. Balanced([custody' EXCEPT ![ETH] = @ + n], deposits', releases')
      <4> HIDE DEF c, n
      <4> QED BY <3>5, <3>6
    <3> HIDE DEF c
    <3> QED
      BY <1>4, <2>2, <3>1, <3>7 DEF LedgerPart
  <2> QED
    BY <2>1, <2>2
<1>8. FramePart'
  BY <1>3, <1>4 DEF GatewayInv, FramePart
<1>9. ProofsPart'
  BY <1>3, <1>4 DEF GatewayInv, ProofsPart
<1>10. ReleasesAreGenuine'
  BY <1>3 DEF GatewayInv, ReleasesAreGenuine
<1> QED
  BY <1>7, <1>8, <1>9, <1>10

(* What the guards of a release give. *)
LEMMA ReleaseIsNew ==
    ASSUME GatewayInv, NEW request \in Requests, NEW proof \in Proofs,
           CanRelease(request, proof)
    PROVE  /\ ~ReleaseEntered
           /\ request.messageID \notin usedProofs
           /\ usedProofs = Paid(releases)
           /\ Genuine(request, Active)
           /\ Balanced(custody, deposits, releases)
           /\ request.amount \in Nat \ {0} /\ request.asset \in Assets
           /\ custody \in [Assets -> Nat]
           /\ custody[request.asset] >= request.amount
           /\ Released(request) \in ReleaseEvent
<1>1. ~ReleaseEntered /\ Verifies(request, proof)
      /\ custody[request.asset] >= request.amount
  BY DEF CanRelease
<1>2. request.messageID \notin usedProofs
  BY <1>1 DEF Verifies, VerifyAttester, VerifyAndConsume, CanConsume
<1>3. Genuine(request, Active)
  BY <1>1, VerifiedIsGenuine DEF GatewayInv
<1>4. usedProofs = Paid(releases) /\ Balanced(custody, deposits, releases)
  BY <1>1 DEF GatewayInv, ProofsPart, LedgerPart
<1>5. request.amount \in Nat \ {0} /\ request.asset \in Assets
  BY GatewayAssumption DEF ReleaseRequest
<1>6. custody \in [Assets -> Nat] /\ Active \in SignerSet
  BY DEF GatewayInv, TypeOK, Active
<1>7. Released(request) \in ReleaseEvent
  BY <1>5, <1>6 DEF Released, ReleaseEvent, Active
<1> QED
  BY <1>1, <1>2, <1>3, <1>4, <1>5, <1>6, <1>7

LEMMA ReleaseTokenStep ==
    ASSUME GatewayInv, NEW request \in Requests, NEW proof \in Proofs,
           NEW taken, NEW received,
           ReleaseToken(request, proof, taken, received)
    PROVE  /\ LedgerPart' /\ FramePart' /\ ProofsPart' /\ ReleasesAreGenuine'
<1> DEFINE e == Released(request)
<1>1. CanRelease(request, proof) /\ taken = request.amount
  BY DEF ReleaseToken, IsCanonical
<1>2. /\ usedProofs' = usedProofs \cup {request.messageID}
      /\ custody' = [custody EXCEPT ![request.asset] = @ - taken]
      /\ releases' = Append(releases, Released(request))
      /\ deposits' = deposits /\ frames' = frames
  BY DEF ReleaseToken
<1>3. /\ ~ReleaseEntered
      /\ request.messageID \notin usedProofs
      /\ usedProofs = Paid(releases)
      /\ Genuine(request, Active)
      /\ Balanced(custody, deposits, releases)
      /\ custody \in [Assets -> Int]
      /\ e \in ReleaseEvent
  BY <1>1, ReleaseIsNew
<1>4. releases \in Seq(ReleaseEvent) /\ TypeOK /\ ReleasesAreGenuine
  BY DEF GatewayInv, TypeOK
<1>5. e.request = request /\ e.amount = request.amount
  BY DEF Released
<1>6. Balanced(custody', deposits', releases')
  <2> HIDE DEF e
  <2>1. Balanced([custody EXCEPT ![e.request.asset] = @ - e.amount],
                 deposits, Append(releases, e))
    BY <1>3, <1>4, BalancedRelease
  <2> QED
    BY <1>1, <1>2, <1>5, <2>1 DEF e
<1>7. ReleasesAreGenuine' /\ Paid(releases') = Paid(releases) \cup {request.messageID}
  BY <1>2, <1>3, <1>4, ReleasesStayGenuine
<1>8. ~ReleaseEntered'
  BY <1>2, <1>3 DEF ReleaseEntered
<1>9. usedProofs' = Paid(releases')
  BY <1>2, <1>3, <1>7
<1> QED
  BY <1>6, <1>7, <1>8, <1>9 DEF LedgerPart, FramePart, ProofsPart

LEMMA BeginStep ==
    ASSUME GatewayInv, NEW request \in Requests, NEW proof \in Proofs,
           BeginReleaseETH(request, proof)
    PROVE  /\ LedgerPart' /\ FramePart' /\ ProofsPart' /\ ReleasesAreGenuine'
<1>1. CanRelease(request, proof) /\ request.asset = ETH
  BY DEF BeginReleaseETH
<1>2. /\ usedProofs' = usedProofs \cup {request.messageID}
      /\ custody' = [custody EXCEPT ![ETH] = @ - request.amount]
      /\ UNCHANGED <<deposits, releases, signerSets>>
  BY DEF BeginReleaseETH, ownerVars
<1>3. /\ request.messageID \notin usedProofs
      /\ usedProofs = Paid(releases)
      /\ Genuine(request, Active)
      /\ Balanced(custody, deposits, releases)
      /\ custody \in [Assets -> Nat]
      /\ request.amount \in Nat
      /\ ETH \in Assets
  BY <1>1, ReleaseIsNew
<1>4. /\ ReleaseEntered'
      /\ Top'.request = request /\ Top'.custody = custody
      /\ Top'.deposits = deposits /\ Top'.releases = releases
      /\ Top'.usedProofs = usedProofs
  <2>1. TypeOK
    BY DEF GatewayInv
  <2>2. /\ ReleaseEntered'
        /\ Top' = [request |-> request, custody |-> custody,
                   deposits |-> deposits, releases |-> releases,
                   usedProofs |-> usedProofs]
    BY <2>1, BeginIsFirst
  <2> QED
    BY <2>2
<1>5. [custody' EXCEPT ![ETH] = @ + request.amount] = custody
  <2>1. custody \in [Assets -> Int] /\ request.amount \in Int
    BY <1>3
  <2>2. Plus(Minus(custody, ETH, request.amount), ETH, request.amount) = custody
    BY <1>3, <2>1, PlusAndMinus
  <2> QED
    BY <1>2, <2>2 DEF Plus, Minus
<1>6. LedgerPart'
  <2>1. Balanced(Top'.custody, Top'.deposits, Top'.releases)
    BY <1>3, <1>4
  <2>2. Balanced([custody' EXCEPT ![ETH] = @ + Top'.request.amount], deposits', releases')
    BY <1>2, <1>3, <1>4, <1>5
  <2> QED
    BY <1>4, <2>1, <2>2 DEF LedgerPart
<1>7. FramePart'
  <2>1. Active' = Active
    BY <1>2 DEF Active
  <2> QED
    BY <1>1, <1>2, <1>3, <1>4, <2>1 DEF FramePart
<1>8. ProofsPart'
  BY <1>2, <1>3, <1>4 DEF ProofsPart
<1>9. ReleasesAreGenuine'
  BY <1>2 DEF GatewayInv, ReleasesAreGenuine
<1> QED
  BY <1>6, <1>7, <1>8, <1>9

LEMMA EndStep ==
    ASSUME GatewayInv, EndReleaseETH
    PROVE  /\ LedgerPart' /\ FramePart' /\ ProofsPart' /\ ReleasesAreGenuine'
<1> DEFINE request == Top.request
           e == Released(request)
           c == [custody EXCEPT ![ETH] = @ + request.amount]
<1>1. TypeOK /\ ReleaseEntered /\ ReleasesAreGenuine
  BY DEF GatewayInv, EndReleaseETH
<1>2. Top \in Frame /\ Return = <<>>
  BY <1>1, ReturnLeavesNone
<1>3. request \in Requests /\ request.amount \in Nat \ {0}
  BY <1>2, GatewayAssumption DEF Frame, ReleaseRequest
<1>4. /\ releases' = Append(releases, e)
      /\ frames' = <<>>
      /\ UNCHANGED <<custody, deposits, usedProofs>>
  BY <1>2 DEF EndReleaseETH
<1>5. /\ request.asset = ETH
      /\ Genuine(request, Active)
      /\ request.messageID \notin Paid(releases)
      /\ usedProofs = Paid(releases) \cup {request.messageID}
      /\ Balanced(c, deposits, releases)
  BY <1>1 DEF GatewayInv, FramePart, ProofsPart, LedgerPart
<1>6. /\ custody \in [Assets -> Nat] /\ Active \in SignerSet
      /\ releases \in Seq(ReleaseEvent) /\ ETH \in Assets
  BY <1>1 DEF TypeOK, Active, Assets
<1>7. e \in ReleaseEvent /\ e.request = request /\ e.amount = request.amount
  <2> HIDE DEF request
  <2> QED BY <1>3, <1>6 DEF Released, ReleaseEvent, Active
<1> HIDE DEF request, e
<1>8. c \in [Assets -> Int] /\ [c EXCEPT ![ETH] = @ - request.amount] = custody
  <2>1. custody \in [Assets -> Int] /\ request.amount \in Int
    BY <1>3, <1>6
  <2>2. /\ Minus(Plus(custody, ETH, request.amount), ETH, request.amount) = custody
        /\ Plus(custody, ETH, request.amount) \in [Assets -> Int]
    BY <1>6, <2>1, PlusAndMinus
  <2> QED
    BY <2>2 DEF Plus, Minus
<1>9. Balanced(custody', deposits', releases')
  <2> HIDE DEF c
  <2>1. Balanced([c EXCEPT ![e.request.asset] = @ - e.amount],
                 deposits, Append(releases, e))
    BY <1>5, <1>6, <1>7, <1>8, BalancedRelease
  <2> QED
    BY <1>4, <1>5, <1>7, <1>8, <2>1
<1>10. ReleasesAreGenuine' /\ Paid(releases') = Paid(releases) \cup {request.messageID}
  BY <1>1, <1>3, <1>4, <1>5, ReleasesStayGenuine DEF e
<1>11. ~ReleaseEntered'
  BY <1>4 DEF ReleaseEntered
<1>12. usedProofs' = Paid(releases')
  BY <1>4, <1>5, <1>10
<1> QED
  BY <1>9, <1>10, <1>11, <1>12 DEF LedgerPart, FramePart, ProofsPart

LEMMA RevertStep ==
    ASSUME GatewayInv, RevertReleaseETH
    PROVE  /\ LedgerPart' /\ FramePart' /\ ProofsPart' /\ ReleasesAreGenuine'
<1>1. TypeOK /\ ReleaseEntered
  BY DEF GatewayInv, RevertReleaseETH
<1>2. Return = <<>>
  BY <1>1, ReturnLeavesNone
<1>3. ~ReleaseEntered'
  BY <1>2 DEF RevertReleaseETH, ReleaseEntered
<1>4. /\ custody' = Top.custody /\ deposits' = Top.deposits
      /\ releases' = Top.releases /\ usedProofs' = Top.usedProofs
  BY DEF RevertReleaseETH
<1>5. /\ Balanced(Top.custody, Top.deposits, Top.releases)
      /\ Top.releases = releases
      /\ Top.usedProofs = Paid(releases)
  BY <1>1 DEF GatewayInv, LedgerPart, FramePart, ProofsPart
<1>6. Balanced(custody', deposits', releases') /\ usedProofs' = Paid(releases')
  BY <1>4, <1>5
<1>7. ReleasesAreGenuine'
  BY <1>4, <1>5 DEF GatewayInv, ReleasesAreGenuine
<1> QED
  BY <1>3, <1>6, <1>7 DEF LedgerPart, FramePart, ProofsPart

-----------------------------------------------------------------------------

LEMMA GatewayInit == Init => GatewayInv
<1> SUFFICES ASSUME Init PROVE GatewayInv
  OBVIOUS
<1>1. TypeOK
  BY TypeInit
<1>2. ~ReleaseEntered /\ releases = <<>> /\ deposits = <<>>
  BY DEF Init, ReleaseEntered
<1>3. LedgerPart
  <2>1. \A a : /\ {i \in DOMAIN releases : releases[i].request.asset = a} = {}
               /\ {i \in DOMAIN deposits : deposits[i].asset = a} = {}
    BY <1>2
  <2>2. \A a \in Assets : custody[a] = 0
    BY DEF Init
  <2>3. Balanced(custody, deposits, releases)
    BY <2>1, <2>2, TotalOfNone DEF Balanced
  <2> QED
    BY <1>2, <2>3 DEF LedgerPart
<1>4. FramePart
  BY <1>2 DEF FramePart
<1>5. ProofsPart
  BY <1>2 DEF Init, ProofsPart, Paid
<1>6. VerifierPart
  BY GatewayAssumption DEF Init, VerifierPart
<1>7. ReleasesAreGenuine
  BY <1>2 DEF ReleasesAreGenuine
<1> QED
  BY <1>1, <1>3, <1>4, <1>5, <1>6, <1>7 DEF GatewayInv

LEMMA GatewayStep == GatewayInv /\ [Next]_gatewayVars => GatewayInv'
<1> SUFFICES ASSUME GatewayInv, [Next]_gatewayVars PROVE GatewayInv'
  OBVIOUS
<1> DEFINE Parts == LedgerPart /\ FramePart /\ ProofsPart /\ ReleasesAreGenuine
<1>0. TypeOK' /\ VerifierPart
  BY TypeStep DEF GatewayInv
<1> SUFFICES Parts' /\ VerifierPart'
  BY <1>0 DEF GatewayInv
<1>1. ASSUME NEW token \in Tokens, NEW flag \in BOOLEAN,
             SetSupportedAsset(token, flag)
      PROVE  Parts' /\ VerifierPart'
  BY <1>0, <1>1, OwnerStep DEF SetSupportedAsset, VerifierPart
<1>2. ASSUME NEW flag \in BOOLEAN, SetPaused(flag) \/ SetGateway(flag)
      PROVE  Parts' /\ VerifierPart'
  BY <1>0, <1>2, OwnerStep DEF SetPaused, SetGateway, VerifierPart
<1>3. ASSUME NEW set \in SignerSetChoices, RotateSignerSet(set)
      PROVE  Parts' /\ VerifierPart'
  <2>1. VerifierPart'
    BY <1>3 DEF RotateSignerSet, VerifierPart
  <2> QED
    BY <1>3, <2>1, OwnerStep DEF RotateSignerSet
<1>4. ASSUME NEW signer \in Signers, SetAttester(signer)
      PROVE  Parts' /\ VerifierPart'
  <2>1. VerifierPart'
    BY <1>4 DEF SetAttester, VerifierPart
  <2> QED
    BY <1>4, <2>1, OwnerStep DEF SetAttester
<1>5. CASE PassTime
  BY <1>0, <1>5, OwnerStep DEF PassTime, VerifierPart, ownerVars
<1>6. ASSUME NEW token \in Tokens, NEW amount \in DepositAmounts,
             NEW expiry \in Expiries, NEW received,
             Deposit(token, amount, received, expiry)
      PROVE  Parts' /\ VerifierPart'
  <2>1. TakeIn(token, amount, amount, expiry) /\ token \in Assets
    BY <1>6 DEF Deposit, IsCanonical, Assets
  <2>2. VerifierPart'
    BY <1>0, <2>1 DEF TakeIn, VerifierPart, ownerVars
  <2> QED
    BY <2>1, <2>2, TakeInStep
<1>7. ASSUME NEW amount \in DepositAmounts, NEW expiry \in Expiries,
             DepositETH(amount, expiry)
      PROVE  Parts' /\ VerifierPart'
  <2>1. TakeIn(ETH, amount, amount, expiry) /\ ETH \in Assets
    BY <1>7 DEF DepositETH, Assets
  <2>2. VerifierPart'
    BY <1>0, <2>1 DEF TakeIn, VerifierPart, ownerVars
  <2> QED
    BY <2>1, <2>2, TakeInStep
<1>8. ASSUME NEW request \in Requests, NEW proof \in Proofs, NEW taken, NEW received,
             ReleaseToken(request, proof, taken, received)
      PROVE  Parts' /\ VerifierPart'
  <2>1. VerifierPart'
    BY <1>0, <1>8 DEF ReleaseToken, VerifierPart, ownerVars
  <2> QED
    BY <1>8, <2>1, ReleaseTokenStep
<1>9. ASSUME NEW request \in Requests, NEW proof \in Proofs,
             BeginReleaseETH(request, proof)
      PROVE  Parts' /\ VerifierPart'
  <2>1. VerifierPart'
    BY <1>0, <1>9 DEF BeginReleaseETH, VerifierPart, ownerVars
  <2> QED
    BY <1>9, <2>1, BeginStep
<1>10. CASE EndReleaseETH
  <2>1. VerifierPart'
    BY <1>0, <1>10 DEF EndReleaseETH, VerifierPart, ownerVars
  <2> QED
    BY <1>10, <2>1, EndStep
<1>11. CASE RevertReleaseETH
  <2>1. VerifierPart'
    BY <1>0, <1>11 DEF RevertReleaseETH, VerifierPart, ownerVars
  <2> QED
    BY <1>11, <2>1, RevertStep
<1>12. CASE UNCHANGED gatewayVars
  <2>1. (ReleaseEntered' <=> ReleaseEntered) /\ Top' = Top /\ Active' = Active
    BY <1>12 DEF gatewayVars, ReleaseEntered, Top, Active
  <2> QED
    BY <1>12, <2>1 DEF gatewayVars, GatewayInv, LedgerPart, FramePart, ProofsPart,
                       ReleasesAreGenuine, VerifierPart
<1> HIDE DEF Parts
<1> QED
  BY <1>1, <1>2, <1>3, <1>4, <1>5, <1>6, <1>7, <1>8, <1>9, <1>10, <1>11, <1>12
  DEF Next

(* Whatever the tokens move, whatever the recipients of ETH do inside a
   release, and however often a release is reverted, the gateway holds of every
   asset exactly what was deposited less what was released. *)
THEOREM CustodyHolds == Spec => []CustodyIsExact
<1>1. GatewayInv => CustodyIsExact
  BY DEF GatewayInv, LedgerPart, Balanced, CustodyIsExact, DepositedOf, ReleasedOf
<1> QED
  BY GatewayInit, GatewayStep, <1>1, PTL DEF Spec

(* No message id is released twice, under whatever sequence of signer sets and
   attesters, and a release that no withdrawal of the zone backs takes a
   threshold of faulty signers in the set that was active. *)
THEOREM ReleasesHold == Spec => []ReleasesAreGenuine
<1>1. GatewayInv => ReleasesAreGenuine
  BY DEF GatewayInv
<1> QED
  BY GatewayInit, GatewayStep, <1>1, PTL DEF Spec

(* A proof is used up exactly when its release was paid: no release that
   reverted leaves its proof consumed, and none that was paid leaves it usable. *)
THEOREM UsedProofsHold == Spec => []UsedProofsArePaid
<1>1. GatewayInv => UsedProofsArePaid
  BY DEF GatewayInv, ProofsPart, Paid, UsedProofsArePaid
<1> QED
  BY GatewayInit, GatewayStep, <1>1, PTL DEF Spec
=============================================================================
