--------------------------- MODULE RoutingProofs ---------------------------
(***************************************************************************)
(* The transfers that leave the zone.  First routed transfers: what the      *)
(* route keeper, the relayer and the destination keep together, for any      *)
(* number of transfers, any routes and memos, any pool, and however often    *)
(* the relayer stops.  Then automatic delivery: what its intents and its     *)
(* onward transfers keep, for any deposits and terms, however often the      *)
(* coordinator dies and whatever the web pages register meanwhile.           *)
(***************************************************************************)
EXTENDS RouteDelivery, AutoDelivery, TotalsProofs, SequenceTheorems

-----------------------------------------------------------------------------
(* Types. *)

Denoms == {r.denom : r \in RouteChoices \cup ProfileChoices}

TransferRecord ==
    [asset : RouteAssets, amount : TransferAmounts \ {0}, receiver : Receivers,
     denom : Denoms, memo : Memos, status : TransferStatus]

Packet ==
    [id : TransferIDs, amount : TransferAmounts \ {0}, denom : Denoms,
     receiver : Receivers, memo : Memos, state : PacketStates, ack : AckStatuses]

ExecutionRecord ==
    [id : TransferIDs, result : Results, denom : Denoms \cup {SwapDenom},
     amount : Nat, recipient : Receivers \cup {m.recipient : m \in Memos}]

AckRecord == [id : TransferIDs, status : AckStatuses \ {"pending"}]

Pool == [in : Nat \ {0}, out : Nat \ {0}]

(* The state of the destination, as the file keeps it. *)
TargetState ==
    [packets : Seq(Packet), executions : Seq(ExecutionRecord),
     credited : [Recipients \X TargetDenoms -> Nat], pool : Pool]

RouterTypes ==
    /\ routes \in [RouteAssets -> RouteChoices \cup {NoRoute}]
    /\ routeProfiles \in [RouteIDs -> ProfileChoices \cup {NoRoute}]
    /\ transfers \in [TransferIDs -> TransferRecord \cup {NoTransfer}]
    /\ nextSequence \in 1 .. MaxTransfers + 1
    /\ \A i \in TransferIDs : i >= nextSequence => transfers[i] = NoTransfer

RelayerTypes ==
    /\ relayer \in {"start", "acks", "confirm", "submit", "stopped"}
    /\ acks \in Seq(AckRecord)
    /\ batch \subseteq TransferIDs
    /\ judged \subseteq TransferIDs

-----------------------------------------------------------------------------
(* The invariant.  The part about the destination is stated of a state of    *)
(* the destination and of the transfers judged by hand, so that it can be     *)
(* followed through the loop that executes the packets.                       *)

ExecutedIn(s) == {s.executions[k].id : k \in DOMAIN s.executions}

SucceededIn(s, i) ==
    \E k \in DOMAIN s.executions :
        s.executions[k].id = i /\ s.executions[k].result \in Succeeded

(* A received packet waits for its execution, and its transfer is pending. *)
PacketIsSound(s, p, J) ==
    /\ StatusOf(p.id) # "none"
    /\ p.state = "received" => StatusOf(p.id) = "pending" /\ p.id \notin ExecutedIn(s)
    /\ p.ack = "pending" <=> p.state \in {"received", "executed"}
    /\ p.state = "executed" => p.id \in ExecutedIn(s)
    /\ p.ack = "completed" => p.id \in ExecutedIn(s) \/ p.id \in J
    /\ p.id \notin J =>
           /\ p.ack = "completed" => SucceededIn(s, p.id)
           /\ p.ack \in {"failed", "timed_out"} /\ mode # "fail" => ~SucceededIn(s, p.id)

PacketsPart(s, J) ==
    /\ \A k \in DOMAIN s.packets : PacketIsSound(s, s.packets[k], J)
    /\ \A j, k \in DOMAIN s.packets : s.packets[j].id = s.packets[k].id => j = k

ExecutionsPart(s) ==
    /\ \A j, k \in DOMAIN s.executions :
           s.executions[j].id = s.executions[k].id => j = k
    /\ \A i \in ExecutedIn(s) : \E k \in DOMAIN s.packets : s.packets[k].id = i

Swapped(s) == {k \in DOMAIN s.executions : s.executions[k].result = "swap_success"}

PoolPart(s) ==
    /\ s.pool.in * s.pool.out >= ReserveIn * ReserveOut
    /\ s.pool.out + Total(Amounts(s.executions), Swapped(s)) = ReserveOut

StatusPart(s, J) ==
    \A i \in TransferIDs :
        i \notin J =>
            /\ StatusOf(i) = "completed" => SucceededIn(s, i)
            /\ StatusOf(i) \in {"ack_failed", "timed_out", "refunded"} /\ mode # "fail"
                   => ~SucceededIn(s, i)

TargetInv(s, J) ==
    /\ s \in TargetState
    /\ PacketsPart(s, J)
    /\ ExecutionsPart(s)
    /\ PoolPart(s)
    /\ StatusPart(s, J)

(* An acknowledgement the relayer holds is the one its packet still carries,
   unless the operator has given another since. *)
Carries(p, a, J) ==
    /\ p.id = a.id
    /\ p.ack = a.status \/ (a.id \in J /\ p.ack # "pending")

(* What the relayer holds for delivery is still pending. *)
RelayerPart ==
    /\ \A n \in DOMAIN acks :
           \E k \in DOMAIN packets : Carries(packets[k], acks[n], judged)
    /\ relayer \notin {"acks", "confirm"} => acks = <<>>
    /\ relayer = "confirm" => acks # <<>>
    /\ relayer # "submit" => batch = {}
    /\ \A i \in batch : StatusOf(i) = "pending"

RouteInv ==
    /\ RouterTypes
    /\ RelayerTypes
    /\ mode \in {"success", "fail", "timeout", "manual"}
    /\ TargetInv(Current, judged)
    /\ RelayerPart

-----------------------------------------------------------------------------
(* The pool. *)

LEMMA DivisionRoundsDown ==
    ASSUME NEW x \in Nat, NEW d \in Nat \ {0}
    PROVE  x \div d \in Nat /\ (x \div d) * d <= x
OBVIOUS

(* Rounding the output down keeps the product of the reserves. *)
LEMMA SwapKeepsProduct ==
    ASSUME NEW r \in Pool, NEW in \in Nat, in > 0, SwapOutput(r, in) < r.out
    PROVE  /\ SwapOutput(r, in) \in Nat
           /\ r.out - SwapOutput(r, in) \in Nat \ {0}
           /\ (r.in + in) * (r.out - SwapOutput(r, in)) >= r.in * r.out
<1> DEFINE a == r.in
           b == r.out
           q == SwapOutput(r, in)
<1>1. a \in Nat \ {0} /\ b \in Nat \ {0}
  BY DEF Pool
<1>2. q = (b * in) \div (a + in)
  BY DEF SwapOutput
<1> HIDE DEF a, b
<1>3. b * in \in Nat /\ a + in \in Nat \ {0}
  BY <1>1
<1>4. q \in Nat /\ q * (a + in) <= b * in
  BY <1>2, <1>3, DivisionRoundsDown
<1> HIDE DEF q
<1>5. (a + in) * (b - q) = (a * b + b * in) - q * (a + in)
  BY <1>1, <1>4
<1>6. a * b \in Nat /\ q * (a + in) \in Nat
  BY <1>1, <1>3, <1>4
<1>7. (a + in) * (b - q) >= a * b
  BY <1>3, <1>4, <1>5, <1>6
<1>8. q < b
  BY DEF q, b
<1>9. b - q \in Nat \ {0}
  BY <1>1, <1>4, <1>8
<1> QED
  BY <1>4, <1>7, <1>9 DEF a, b, q

LEMMA EffectiveInputIsNat ==
    ASSUME NEW n \in Nat
    PROVE  EffectiveInput(n) \in Nat
<1>1. n * (10000 - FeeBPS) \in Nat
  BY PoolAssumption
<1> QED
  BY <1>1, DivisionRoundsDown DEF EffectiveInput

(* What executing a packet gives. *)
LEMMA ExecutionType ==
    ASSUME NEW p \in Packet, NEW r \in Pool
    PROVE  /\ Execution(p, r) \in ExecutionRecord
           /\ Execution(p, r).id = p.id
           /\ ReservesAfter(p, r, Execution(p, r)) \in Pool
           /\ ReservesAfter(p, r, Execution(p, r)).in
                * ReservesAfter(p, r, Execution(p, r)).out >= r.in * r.out
           /\ ReservesAfter(p, r, Execution(p, r)).out =
                IF Execution(p, r).result = "swap_success"
                THEN r.out - Execution(p, r).amount ELSE r.out
<1> DEFINE in == EffectiveInput(p.amount)
           out == SwapOutput(r, in)
           e == Execution(p, r)
           to == ExecutionRecipient(p)
           after == ReservesAfter(p, r, e)
           made(result, denom, amount) ==
               [id |-> p.id, result |-> result, denom |-> denom,
                amount |-> amount, recipient |-> to]
<1>1. /\ p.id \in TransferIDs /\ p.amount \in Nat /\ p.denom \in Denoms
      /\ p.memo \in Memos /\ p.receiver \in Receivers
  BY RouterAssumption DEF Packet
<1>2. in \in Nat
  BY <1>1, EffectiveInputIsNat
<1>3. to \in Receivers \cup {m.recipient : m \in Memos}
  BY <1>1 DEF ExecutionRecipient
<1>4. \/ e = made("swap_success", SwapDenom, out) /\ in > 0 /\ out < r.out
      \/ e = made("swap_failed", p.denom, 0)
      \/ e = made("invalid_action", p.denom, 0)
      \/ e = made("stake_success", p.denom, p.amount)
      \/ e = made("stake_failed", p.denom, 0)
      \/ e = made("credit", p.denom, p.amount)
  BY DEF Execution, SwapAllowed
<1>5. CASE e = made("swap_success", SwapDenom, out) /\ in > 0 /\ out < r.out
  <2>1. /\ out \in Nat /\ r.out - out \in Nat \ {0}
        /\ (r.in + in) * (r.out - out) >= r.in * r.out
    <3> HIDE DEF in
    <3> QED BY <1>2, <1>5, SwapKeepsProduct
  <2>2. e.result = "swap_success" /\ e.amount = out /\ e.id = p.id
    BY <1>5
  <2>3. e \in ExecutionRecord
    <3> HIDE DEF out, to
    <3> QED BY <1>1, <1>3, <1>5, <2>1 DEF ExecutionRecord, Results
  <2> HIDE DEF e, out, in
  <2>4. after = [in |-> r.in + in, out |-> r.out - out]
    BY <2>2 DEF ReservesAfter, in
  <2>5. r.in + in \in Nat \ {0}
    BY <1>2 DEF Pool
  <2>6. after \in Pool /\ after.in = r.in + in /\ after.out = r.out - out
    <3> HIDE DEF after
    <3> QED BY <2>1, <2>4, <2>5 DEF Pool
  <2> HIDE DEF after
  <2>7. after.in * after.out >= r.in * r.out
    BY <2>1, <2>6
  <2> QED
    BY <2>2, <2>3, <2>6, <2>7 DEF e, after
<1>6. CASE \/ e = made("swap_failed", p.denom, 0)
           \/ e = made("invalid_action", p.denom, 0)
           \/ e = made("stake_success", p.denom, p.amount)
           \/ e = made("stake_failed", p.denom, 0)
           \/ e = made("credit", p.denom, p.amount)
  <2>1. e.result # "swap_success" /\ e.id = p.id
    <3> HIDE DEF e
    <3> QED BY <1>6
  <2>2. e \in ExecutionRecord
    <3> HIDE DEF e, to
    <3> QED BY <1>1, <1>3, <1>6 DEF ExecutionRecord, Results
  <2> HIDE DEF e
  <2>3. after = r
    BY <2>1 DEF ReservesAfter
  <2>4. r.in * r.out \in Int
    BY DEF Pool
  <2> QED
    BY <2>1, <2>2, <2>3, <2>4 DEF e
<1> QED
  BY <1>4, <1>5, <1>6

-----------------------------------------------------------------------------
(* Executing one packet. *)

Modes == {"success", "fail", "timeout", "manual"}

LEMMA AckedType ==
    ASSUME NEW p \in Packet, NEW a \in AckStatuses
    PROVE  /\ Acked(p, a) \in Packet /\ Acked(p, a).id = p.id /\ Acked(p, a).ack = a
           /\ Acked(p, a).state = IF a = "pending" THEN "executed" ELSE "ack_ready"
BY DEF Acked, Packet, PacketStates

LEMMA AckForType ==
    ASSUME mode \in Modes, NEW result
    PROVE  /\ AckFor(result) \in AckStatuses
           /\ AckFor(result) = "completed" => result \in Succeeded
           /\ AckFor(result) = "failed" /\ mode # "fail" => result \notin Succeeded
           /\ AckFor(result) = "timed_out" => mode = "timeout"
<1>1. CASE result \notin Succeeded
  <2>1. AckFor(result) = "failed"
    BY <1>1 DEF AckFor
  <2> QED
    BY <1>1, <2>1 DEF AckStatuses
<1>2. CASE result \in Succeeded
  <2>1. CASE mode = "success"
    BY <1>2, <2>1 DEF AckFor, AckStateForMode, AckStatuses
  <2>2. CASE mode = "fail"
    BY <1>2, <2>2 DEF AckFor, AckStateForMode, AckStatuses
  <2>3. CASE mode = "timeout"
    BY <1>2, <2>3 DEF AckFor, AckStateForMode, AckStatuses
  <2>4. CASE mode = "manual"
    BY <1>2, <2>4 DEF AckFor, AckStateForMode, AckStatuses
  <2> QED
    BY <2>1, <2>2, <2>3, <2>4 DEF Modes
<1> QED
  BY <1>1, <1>2

LEMMA CreditsType ==
    ASSUME NEW c \in [Recipients \X TargetDenoms -> Nat], NEW e \in ExecutionRecord
    PROVE  CreditsAfter(c, e) \in [Recipients \X TargetDenoms -> Nat]
<1>1. e.amount \in Nat
  BY DEF ExecutionRecord
<1> DEFINE D == Recipients \X TargetDenoms
           w == <<e.recipient, e.denom>>
<1>2. [c EXCEPT ![w] = @ + e.amount] \in [D -> Nat]
  <2>1. c \in [D -> Nat]
    OBVIOUS
  <2> HIDE DEF D, w
  <2>2. ASSUME NEW x \in D
        PROVE  [c EXCEPT ![w] = @ + e.amount][x] \in Nat
    BY <1>1, <2>1
  <2> QED
    BY <2>1, <2>2
<1> QED
  BY <1>2 DEF CreditsAfter

(* The state that executing a received packet leads to, field by field. *)
LEMMA ExecuteFields ==
    ASSUME NEW s \in TargetState, NEW k \in DOMAIN s.packets, mode \in Modes,
           s.packets[k].state = "received"
    PROVE  LET p == s.packets[k]
               e == Execution(p, s.pool)
               t == Execute(k, s)
           IN  /\ p \in Packet /\ e \in ExecutionRecord /\ e.id = p.id
               /\ t \in TargetState
               /\ t.packets = [s.packets EXCEPT ![k] = Acked(p, AckFor(e.result))]
               /\ t.executions = Append(s.executions, e)
               /\ t.pool = ReservesAfter(p, s.pool, e)
<1> DEFINE p == s.packets[k]
           e == Execution(p, s.pool)
           t == Execute(k, s)
           q == Acked(p, AckFor(e.result))
<1>1. /\ s.packets \in Seq(Packet) /\ s.executions \in Seq(ExecutionRecord)
      /\ s.credited \in [Recipients \X TargetDenoms -> Nat] /\ s.pool \in Pool
  BY DEF TargetState
<1>2. p \in Packet
  BY <1>1
<1>3. /\ e \in ExecutionRecord /\ e.id = p.id
      /\ ReservesAfter(p, s.pool, e) \in Pool
  <2> HIDE DEF p
  <2> QED BY <1>1, <1>2, ExecutionType
<1>4. q \in Packet
  <2> HIDE DEF p, e
  <2> QED BY <1>2, AckForType, AckedType
<1>5. t = [packets |-> [s.packets EXCEPT ![k] = q],
           executions |-> Append(s.executions, e),
           credited |-> CreditsAfter(s.credited, e),
           pool |-> ReservesAfter(p, s.pool, e)]
  BY DEF Execute
<1> HIDE DEF p, e, q, t
<1>6. [s.packets EXCEPT ![k] = q] \in Seq(Packet)
  BY <1>1, <1>4
<1>7. Append(s.executions, e) \in Seq(ExecutionRecord)
  BY <1>1, <1>3
<1>8. CreditsAfter(s.credited, e) \in [Recipients \X TargetDenoms -> Nat]
  BY <1>1, <1>3, CreditsType
<1>9. t \in TargetState
  BY <1>3, <1>5, <1>6, <1>7, <1>8 DEF TargetState
<1>10. /\ t.packets = [s.packets EXCEPT ![k] = q]
       /\ t.executions = Append(s.executions, e)
       /\ t.pool = ReservesAfter(p, s.pool, e)
  BY <1>5
<1> QED
  BY <1>2, <1>3, <1>9, <1>10 DEF p, e, q, t

(* How an execution changes what was executed and what succeeded. *)
LEMMA ExecutionsGrow ==
    ASSUME NEW s \in TargetState, NEW t \in TargetState, NEW e \in ExecutionRecord,
           t.executions = Append(s.executions, e)
    PROVE  /\ ExecutedIn(t) = ExecutedIn(s) \cup {e.id}
           /\ \A i : SucceededIn(t, i) <=>
                         SucceededIn(s, i) \/ (i = e.id /\ e.result \in Succeeded)
           /\ e.id \notin ExecutedIn(s) => ~SucceededIn(s, e.id)
           /\ (e.id \notin ExecutedIn(s) /\
               \A j, k \in DOMAIN s.executions :
                   s.executions[j].id = s.executions[k].id => j = k)
              => \A j, k \in DOMAIN t.executions :
                     t.executions[j].id = t.executions[k].id => j = k
<1> DEFINE n == Len(s.executions) + 1
           old == s.executions
           new == t.executions
<1>1. old \in Seq(ExecutionRecord) /\ Len(old) \in Nat /\ DOMAIN old = 1 .. Len(old)
  BY LenProperties DEF TargetState
<1>2. /\ DOMAIN new = DOMAIN old \cup {n} /\ n \notin DOMAIN old
      /\ \A k \in DOMAIN old : new[k] = old[k]
      /\ new[n] = e
  BY <1>1, AppendProperties
<1> HIDE DEF n, old, new
<1>3. ExecutedIn(t) = ExecutedIn(s) \cup {e.id}
  BY <1>2 DEF ExecutedIn, old, new
<1>4. ASSUME NEW i
      PROVE  SucceededIn(t, i) <=>
                 SucceededIn(s, i) \/ (i = e.id /\ e.result \in Succeeded)
  BY <1>2 DEF SucceededIn, old, new
<1>5. e.id \notin ExecutedIn(s) => ~SucceededIn(s, e.id)
  BY DEF ExecutedIn, SucceededIn
<1>6. ASSUME e.id \notin ExecutedIn(s),
             \A j, k \in DOMAIN old : old[j].id = old[k].id => j = k,
             NEW j \in DOMAIN new, NEW k \in DOMAIN new, new[j].id = new[k].id
      PROVE  j = k
  <2>1. \A m \in DOMAIN old : old[m].id # e.id
    BY <1>6 DEF ExecutedIn, old
  <2>2. CASE j \in DOMAIN old /\ k \in DOMAIN old
    BY <1>2, <1>6, <2>2
  <2>3. CASE j = n \/ k = n
    BY <1>2, <1>6, <2>1, <2>3
  <2> QED
    BY <1>2, <2>2, <2>3
<1> QED
  BY <1>3, <1>4, <1>5, <1>6 DEF old, new

(* An execution takes from the pool what it pays out. *)
LEMMA PoolFollows ==
    ASSUME NEW s \in TargetState, NEW t \in TargetState, NEW p \in Packet,
           PoolPart(s),
           t.executions = Append(s.executions, Execution(p, s.pool)),
           t.pool = ReservesAfter(p, s.pool, Execution(p, s.pool))
    PROVE  PoolPart(t)
<1> DEFINE e == Execution(p, s.pool)
           old == s.executions
           new == t.executions
           n == Len(old) + 1
<1>1. s.pool \in Pool /\ t.pool \in Pool /\ old \in Seq(ExecutionRecord)
  BY DEF TargetState
<1>2. /\ e \in ExecutionRecord
      /\ t.pool.in * t.pool.out >= s.pool.in * s.pool.out
      /\ t.pool.out = IF e.result = "swap_success"
                      THEN s.pool.out - e.amount ELSE s.pool.out
  BY <1>1, ExecutionType
<1>3. new = Append(old, e)
  OBVIOUS
<1>4. Len(old) \in Nat /\ DOMAIN old = 1 .. Len(old)
  BY <1>1, LenProperties
<1> HIDE DEF e, old, new
<1>5. /\ DOMAIN new = DOMAIN old \cup {n} /\ n \notin DOMAIN old
      /\ \A k \in DOMAIN old : new[k] = old[k]
      /\ new[n] = e
  BY <1>1, <1>2, <1>3, <1>4, AppendProperties
<1> HIDE DEF n
<1> DEFINE S == Swapped(s)
           f == Amounts(old)
           g == Amounts(new)
<1>6. S \in SUBSET DOMAIN old /\ IsFiniteSet(S) /\ n \notin S
  <2>1. IsFiniteSet(DOMAIN old)
    BY <1>4, FS_Interval
  <2>2. S \in SUBSET DOMAIN old
    BY DEF Swapped, old
  <2> QED
    BY <1>5, <2>1, <2>2, FS_Subset
<1>7. Swapped(t) = IF e.result = "swap_success" THEN S \cup {n} ELSE S
  BY <1>5 DEF Swapped, old, new
<1>8. /\ \A k \in S : f[k] = g[k] /\ f[k] \in Nat
      /\ \A k \in S \cup {n} : g[k] \in Nat
      /\ g[n] = e.amount /\ e.amount \in Nat
  <2>1. \A k \in DOMAIN old : old[k].amount \in Nat
    <3>1. \A k \in DOMAIN old : old[k] \in ExecutionRecord
      BY <1>1, <1>4, ElementOfSeq
    <3>2. \A x \in ExecutionRecord : x.amount \in Nat
      BY DEF ExecutionRecord
    <3> QED
      BY <3>1, <3>2
  <2>2. e.amount \in Nat
    BY <1>2 DEF ExecutionRecord
  <2>3. /\ \A k \in DOMAIN old : f[k] = old[k].amount /\ g[k] = old[k].amount
        /\ g[n] = e.amount
    BY <1>5 DEF Amounts
  <2> HIDE DEF f, g, S
  <2> QED
    BY <1>6, <2>1, <2>2, <2>3
<1> HIDE DEF f, g, S
<1>9. Total(g, S) = Total(f, S) /\ Total(f, S) \in Nat
  BY <1>6, <1>8, TotalSame, TotalIsNat
<1>10. Total(g, S \cup {n}) = Total(g, S) + g[n]
  BY <1>6, <1>8, TotalAdd
<1>11. s.pool.out + Total(f, S) = ReserveOut /\ s.pool.out \in Nat /\ t.pool.out \in Nat
  BY <1>1 DEF PoolPart, f, S, old, Pool
<1>12. t.pool.out + Total(g, Swapped(t)) = ReserveOut
  <2>1. CASE e.result = "swap_success"
    BY <1>2, <1>7, <1>8, <1>9, <1>10, <1>11, <2>1
  <2>2. CASE e.result # "swap_success"
    BY <1>2, <1>7, <1>9, <1>11, <2>2
  <2> QED
    BY <2>1, <2>2
<1>13. t.pool.in * t.pool.out >= ReserveIn * ReserveOut
  <2> DEFINE x == t.pool.in * t.pool.out
             y == s.pool.in * s.pool.out
             z == ReserveIn * ReserveOut
  <2>1. x \in Int /\ y \in Int /\ z \in Int
    BY <1>1, PoolAssumption DEF Pool
  <2>2. x >= y /\ y >= z
    BY <1>2 DEF PoolPart
  <2> HIDE DEF x, y, z
  <2>3. x >= z
    BY <2>1, <2>2
  <2> QED
    BY <2>3 DEF x, z
<1> QED
  BY <1>12, <1>13 DEF PoolPart, g, new

(* Executing one packet keeps the invariant of the destination.  The packet
   is executed only if it was received, and then its transfer is pending. *)
LEMMA ExecuteKeeps ==
    ASSUME NEW J, NEW s, TargetInv(s, J), NEW k \in DOMAIN s.packets,
           mode \in Modes, mode # "timeout" \/ s.packets[k].id \in J
    PROVE  /\ TargetInv(Execute(k, s), J)
           /\ DOMAIN Execute(k, s).packets = DOMAIN s.packets
           /\ \A j \in DOMAIN s.packets :
                  /\ Execute(k, s).packets[j].id = s.packets[j].id
                  /\ j # k => Execute(k, s).packets[j] = s.packets[j]
           /\ Execute(k, s).packets[k].state # "received"
           /\ s.packets[k].state # "received" => Execute(k, s) = s
           /\ s.packets[k].state = "received" =>
                  ExecutedIn(Execute(k, s)) = ExecutedIn(s) \cup {s.packets[k].id}
<1> DEFINE p == s.packets[k]
           e == Execution(p, s.pool)
           t == Execute(k, s)
           q == Acked(p, AckFor(e.result))
<1>0. s \in TargetState /\ PacketsPart(s, J) /\ ExecutionsPart(s) /\ PoolPart(s)
      /\ StatusPart(s, J)
  BY DEF TargetInv
<1>1. CASE p.state # "received"
  <2>1. t = s
    BY <1>1 DEF Execute
  <2> HIDE DEF t
  <2>2. t.packets[k].state # "received"
    BY <1>1, <2>1
  <2> QED
    BY <1>1, <2>1, <2>2 DEF t
<1>2. CASE p.state = "received"
  <2>1. /\ p \in Packet /\ e \in ExecutionRecord /\ e.id = p.id
        /\ t \in TargetState
        /\ t.packets = [s.packets EXCEPT ![k] = q]
        /\ t.executions = Append(s.executions, e)
        /\ t.pool = ReservesAfter(p, s.pool, e)
    BY <1>0, <1>2, ExecuteFields
  <2>2. PoolPart(t)
    <3> HIDE DEF p, t
    <3> QED BY <1>0, <2>1, PoolFollows
  <2> HIDE DEF e, t
  <2>3. /\ AckFor(e.result) \in AckStatuses
        /\ AckFor(e.result) = "completed" => e.result \in Succeeded
        /\ AckFor(e.result) = "failed" /\ mode # "fail" => e.result \notin Succeeded
        /\ AckFor(e.result) = "timed_out" => mode = "timeout"
    BY AckForType
  <2>4. /\ q.id = p.id /\ q.ack = AckFor(e.result)
        /\ q.state = IF q.ack = "pending" THEN "executed" ELSE "ack_ready"
    <3> HIDE DEF p
    <3> QED BY <2>1, <2>3, AckedType
  <2> HIDE DEF q, p
  <2>5. /\ DOMAIN t.packets = DOMAIN s.packets
        /\ t.packets[k] = q
        /\ \A j \in DOMAIN s.packets : j # k => t.packets[j] = s.packets[j]
    BY <2>1
  <2>6. \A j \in DOMAIN s.packets : t.packets[j].id = s.packets[j].id
    BY <2>4, <2>5 DEF p
  <2>7. PacketIsSound(s, p, J) /\ StatusOf(p.id) = "pending" /\ p.id \notin ExecutedIn(s)
    BY <1>0, <1>2 DEF PacketsPart, PacketIsSound, p
  <2>8. /\ ExecutedIn(t) = ExecutedIn(s) \cup {p.id}
        /\ \A i : SucceededIn(t, i) <=>
                      SucceededIn(s, i) \/ (i = p.id /\ e.result \in Succeeded)
        /\ ~SucceededIn(s, p.id)
        /\ \A m, n \in DOMAIN t.executions :
               t.executions[m].id = t.executions[n].id => m = n
    BY <1>0, <2>1, <2>7, ExecutionsGrow DEF ExecutionsPart
  <2>9. PacketsPart(t, J)
    <3>1. \A m, n \in DOMAIN t.packets : t.packets[m].id = t.packets[n].id => m = n
      BY <1>0, <2>5, <2>6 DEF PacketsPart
    <3>2. ASSUME NEW j \in DOMAIN t.packets, j # k
          PROVE  PacketIsSound(t, t.packets[j], J)
      <4>1. t.packets[j] = s.packets[j] /\ s.packets[j].id # p.id
        BY <1>0, <2>5, <3>2 DEF PacketsPart, p
      <4>2. PacketIsSound(s, s.packets[j], J)
        BY <1>0, <2>5 DEF PacketsPart
      <4> QED
        BY <2>8, <4>1, <4>2 DEF PacketIsSound
    <3>3. PacketIsSound(t, q, J)
      <4>1. p.id \in ExecutedIn(t)
        BY <2>8
      <4>2. q.ack = "completed" => SucceededIn(t, p.id)
        BY <2>3, <2>4, <2>8
      <4>3. p.id \notin J /\ q.ack \in {"failed", "timed_out"} /\ mode # "fail"
               => ~SucceededIn(t, p.id)
        BY <2>3, <2>4, <2>8 DEF p
      <4>4. q.ack = "pending" <=> q.state \in {"received", "executed"}
        BY <2>4
      <4>5. q.state # "received"
        BY <2>4
      <4> QED
        BY <2>4, <2>7, <4>1, <4>2, <4>3, <4>4, <4>5 DEF PacketIsSound
    <3> QED
      BY <2>5, <3>1, <3>2, <3>3 DEF PacketsPart
  <2>10. ExecutionsPart(t)
    <3>1. ASSUME NEW i \in ExecutedIn(t)
          PROVE  \E j \in DOMAIN t.packets : t.packets[j].id = i
      BY <1>0, <2>4, <2>5, <2>6, <2>8 DEF ExecutionsPart
    <3> QED
      BY <2>8, <3>1 DEF ExecutionsPart
  <2>11. StatusPart(t, J)
    <3> SUFFICES ASSUME NEW i \in TransferIDs, i \notin J
                 PROVE  /\ StatusOf(i) = "completed" => SucceededIn(t, i)
                        /\ StatusOf(i) \in {"ack_failed", "timed_out", "refunded"}
                              /\ mode # "fail" => ~SucceededIn(t, i)
      BY DEF StatusPart
    <3> QED
      BY <1>0, <2>7, <2>8 DEF StatusPart
  <2>12. TargetInv(t, J)
    BY <2>1, <2>2, <2>9, <2>10, <2>11 DEF TargetInv
  <2>13. t.packets[k].state # "received"
    BY <2>4, <2>5
  <2> QED
    BY <1>2, <2>5, <2>6, <2>8, <2>12, <2>13 DEF t, p
<1> QED
  BY <1>1, <1>2

-----------------------------------------------------------------------------
(* Executing all of them: the loop of advanceReceivedPacketsLocked. *)

(* The states that the loop may pass through from the current one. *)
Reachable ==
    {s \in TargetState :
        /\ TargetInv(s, judged)
        /\ DOMAIN s.packets = DOMAIN packets
        /\ ExecutedIn(Current) \subseteq ExecutedIn(s)
        /\ \A i \in ExecutedIn(s) \ ExecutedIn(Current) : StatusOf(i) = "pending"}

LEMMA StepIsReachable ==
    ASSUME mode \in Modes, mode # "timeout", NEW s \in Reachable, NEW k \in DOMAIN packets
    PROVE  Execute(k, s) \in Reachable
<1> DEFINE t == Execute(k, s)
<1>1. /\ s \in TargetState /\ TargetInv(s, judged) /\ DOMAIN s.packets = DOMAIN packets
      /\ ExecutedIn(Current) \subseteq ExecutedIn(s)
      /\ \A i \in ExecutedIn(s) \ ExecutedIn(Current) : StatusOf(i) = "pending"
  BY DEF Reachable
<1>2. /\ TargetInv(t, judged)
      /\ DOMAIN t.packets = DOMAIN s.packets
      /\ s.packets[k].state # "received" => t = s
      /\ s.packets[k].state = "received" =>
             ExecutedIn(t) = ExecutedIn(s) \cup {s.packets[k].id}
  BY <1>1, ExecuteKeeps
<1> HIDE DEF t
<1>3. t \in TargetState
  BY <1>2 DEF TargetInv
<1>4. CASE s.packets[k].state # "received"
  BY <1>2, <1>4 DEF t
<1>5. CASE s.packets[k].state = "received"
  <2>1. StatusOf(s.packets[k].id) = "pending"
    BY <1>1, <1>5 DEF TargetInv, PacketsPart, PacketIsSound
  <2> QED
    BY <1>1, <1>2, <1>3, <1>5, <2>1 DEF Reachable, t
<1> QED
  BY <1>4, <1>5

LEMMA LoopStaysSound ==
    ASSUME mode \in Modes, mode # "timeout", TargetInv(Current, judged)
    PROVE  ExecutedUpTo[Len(packets)] \in Reachable
<1> DEFINE N == Len(packets)
           S == Reachable
           step == [n \in 1 .. N |-> [s \in S |-> Execute(n, s)]]
           f == ExecutedUpTo
<1>1. packets \in Seq(Packet) /\ N \in Nat /\ DOMAIN packets = 1 .. N
  BY LenProperties DEF TargetInv, TargetState, Current
<1>2. Current \in S
  BY DEF TargetInv, Reachable, Current
<1>3. \A n \in 1 .. N : \A s \in S : Execute(n, s) \in S
  BY <1>1, StepIsReachable
<1>4. \A n \in 1 .. N : \A s \in S : step[n][s] = Execute(n, s) /\ step[n][s] \in S
  <2> HIDE DEF S, N
  <2> QED BY <1>3
<1>5. \E h : IsRun(h, S, step, N, Current)
  <2>1. StaysIn(S, step, N)
    <3> HIDE DEF S, N, step
    <3> QED BY <1>4 DEF StaysIn
  <2>2. N \in Nat
    BY <1>1
  <2> HIDE DEF S, N, step
  <2> QED BY <1>2, <2>1, <2>2, LoopHasRun
<1>6. PICK h \in [0 .. N -> S] :
          h[0] = Current /\ \A n \in 1 .. N : h[n] = step[n][h[n - 1]]
  <2> HIDE DEF S, N, step
  <2> QED BY <1>5 DEF IsRun
<1>7. h = [n \in 0 .. N |-> IF n = 0 THEN Current ELSE Execute(n, h[n - 1])]
  <2>1. ASSUME NEW n \in 0 .. N
        PROVE  h[n] = IF n = 0 THEN Current ELSE Execute(n, h[n - 1])
    <3>1. CASE n = 0
      BY <1>6, <3>1
    <3>2. CASE n # 0
      <4>1. n \in 1 .. N /\ n - 1 \in 0 .. N
        BY <1>1, <3>2
      <4>2. h[n - 1] \in S
        BY <4>1
      <4> QED
        BY <1>4, <1>6, <3>2, <4>1, <4>2
    <3> QED
      BY <3>1, <3>2
  <2> QED
    BY <2>1
<1>8. f = [n \in 0 .. N |-> IF n = 0 THEN Current ELSE Execute(n, f[n - 1])]
  BY <1>7 DEF ExecutedUpTo
<1> HIDE DEF f, S
<1>9. f[0] = Current /\ \A n \in 1 .. N : f[n] = Execute(n, f[n - 1])
  BY <1>1, <1>8
<1> DEFINE T == {n \in 0 .. N : f[n] \in S}
<1>10. 0 \in T
  BY <1>1, <1>2, <1>9
<1>11. ASSUME NEW n \in 1 .. N, n - 1 \in T PROVE n \in T
  BY <1>3, <1>9, <1>11
<1> HIDE DEF T
<1>12. N \in T
  <2>1. N \in Nat /\ \A n \in 1 .. N : n - 1 \in T => n \in T
    BY <1>1, <1>11
  <2> HIDE DEF N
  <2>2. \A n \in 0 .. N : n \in T
    BY <1>10, <2>1, InductionUpTo
  <2> QED
    BY <2>1, <2>2
<1> QED
  BY <1>12 DEF T, f, S

(* The acknowledgements that packets offer. *)
Offered(ps) ==
    {[id |-> ps[k].id, status |-> ps[k].ack] :
        k \in {m \in DOMAIN ps : ps[m].state = "ack_ready"}}

(* What the relayer reads is a sequence of them. *)
LEMMA ReadyAcksAreOffered ==
    ASSUME NEW ps \in Seq(Packet)
    PROVE  ReadyAcks(ps) \in Seq(Offered(ps))
<1> DEFINE N == Len(ps)
           A == Offered(ps)
           S == Seq(A)
           ack(n) == [id |-> ps[n].id, status |-> ps[n].ack]
           Next1(n, s) == IF ps[n].state = "ack_ready" THEN Append(s, ack(n)) ELSE s
           step == [n \in 1 .. N |-> [s \in S |-> Next1(n, s)]]
           f == CHOOSE g : g = [n \in 0 .. Len(ps) |->
                    IF n = 0 THEN <<>>
                    ELSE IF ps[n].state = "ack_ready"
                         THEN Append(g[n - 1], [id |-> ps[n].id, status |-> ps[n].ack])
                         ELSE g[n - 1]]
<1>1. N \in Nat /\ DOMAIN ps = 1 .. N
  BY LenProperties
<1>2. <<>> \in S
  OBVIOUS
<1>3. \A n \in 1 .. N : \A s \in S : Next1(n, s) \in S
  <2> SUFFICES ASSUME NEW n \in 1 .. N, NEW s \in S PROVE Next1(n, s) \in S
    OBVIOUS
  <2>1. ps[n].state = "ack_ready" => ack(n) \in A
    BY <1>1 DEF Offered
  <2> HIDE DEF ack, A
  <2> QED
    BY <2>1
<1> HIDE DEF Next1
<1>4. \A n \in 1 .. N : \A s \in S : step[n][s] = Next1(n, s) /\ step[n][s] \in S
  <2> HIDE DEF S, N
  <2> QED BY <1>3
<1>5. \E h : IsRun(h, S, step, N, <<>>)
  <2>1. StaysIn(S, step, N)
    <3> HIDE DEF S, N, step
    <3> QED BY <1>4 DEF StaysIn
  <2>2. N \in Nat
    BY <1>1
  <2> HIDE DEF S, N, step
  <2> QED BY <1>2, <2>1, <2>2, LoopHasRun
<1>6. PICK h \in [0 .. N -> S] :
          h[0] = <<>> /\ \A n \in 1 .. N : h[n] = step[n][h[n - 1]]
  <2> HIDE DEF S, N, step
  <2> QED BY <1>5 DEF IsRun
<1>7. h = [n \in 0 .. N |-> IF n = 0 THEN <<>> ELSE Next1(n, h[n - 1])]
  <2>1. ASSUME NEW n \in 0 .. N
        PROVE  h[n] = IF n = 0 THEN <<>> ELSE Next1(n, h[n - 1])
    <3>1. CASE n = 0
      BY <1>6, <3>1
    <3>2. CASE n # 0
      <4>1. n \in 1 .. N /\ n - 1 \in 0 .. N
        BY <1>1, <3>2
      <4>2. h[n - 1] \in S
        BY <4>1
      <4> QED
        BY <1>4, <1>6, <3>2, <4>1, <4>2
    <3> QED
      BY <3>1, <3>2
  <2> QED
    BY <2>1
<1>8. f = [n \in 0 .. N |-> IF n = 0 THEN <<>> ELSE Next1(n, f[n - 1])]
  BY <1>7 DEF Next1
<1>9. ReadyAcks(ps) = f[N]
  BY DEF ReadyAcks
<1> HIDE DEF f, S
<1>10. f[0] = <<>> /\ \A n \in 1 .. N : f[n] = Next1(n, f[n - 1])
  BY <1>1, <1>8
<1> DEFINE T == {n \in 0 .. N : f[n] \in S}
<1>11. 0 \in T
  BY <1>1, <1>2, <1>10
<1>12. ASSUME NEW n \in 1 .. N, n - 1 \in T PROVE n \in T
  BY <1>3, <1>10, <1>12
<1> HIDE DEF T
<1>13. N \in T
  <2>1. N \in Nat /\ \A n \in 1 .. N : n - 1 \in T => n \in T
    BY <1>1, <1>12
  <2> HIDE DEF N
  <2>2. \A n \in 0 .. N : n \in T
    BY <1>11, <2>1, InductionUpTo
  <2> QED
    BY <2>1, <2>2
<1> QED
  BY <1>9, <1>13 DEF T, S

-----------------------------------------------------------------------------
(* Other changes of the packets. *)

(* Packets that are sound replace others with the same identifiers. *)
LEMMA ReplacePackets ==
    ASSUME NEW J, NEW s, TargetInv(s, J), NEW u, NEW ps \in Seq(Packet),
           u = [s EXCEPT !.packets = ps], DOMAIN ps = DOMAIN s.packets,
           \A k \in DOMAIN ps : ps[k].id = s.packets[k].id /\ PacketIsSound(s, ps[k], J)
    PROVE  TargetInv(u, J) /\ u.packets = ps /\ ExecutedIn(u) = ExecutedIn(s)
<1>0. s \in TargetState /\ PacketsPart(s, J) /\ ExecutionsPart(s) /\ PoolPart(s)
      /\ StatusPart(s, J)
  BY DEF TargetInv
<1>1. u \in TargetState /\ u.packets = ps /\ u.executions = s.executions
      /\ u.pool = s.pool
  BY <1>0 DEF TargetState
<1>2. ExecutedIn(u) = ExecutedIn(s) /\ \A i : SucceededIn(u, i) <=> SucceededIn(s, i)
  BY <1>1 DEF ExecutedIn, SucceededIn
<1>3. PacketsPart(u, J)
  BY <1>0, <1>1, <1>2 DEF PacketsPart, PacketIsSound
<1>4. ExecutionsPart(u)
  BY <1>0, <1>1, <1>2 DEF ExecutionsPart
<1>5. PoolPart(u)
  BY <1>0, <1>1 DEF PoolPart, Swapped
<1>6. StatusPart(u, J)
  BY <1>0, <1>2 DEF StatusPart
<1> QED
  BY <1>1, <1>2, <1>3, <1>4, <1>5, <1>6 DEF TargetInv

(* An acknowledgement given by hand, to a packet of a judged transfer. *)
WithVerdict(t, k, v) == [t EXCEPT !.packets[k] = Acked(@, v)]

LEMMA VerdictKeeps ==
    ASSUME NEW J, NEW t, TargetInv(t, J), NEW k \in DOMAIN t.packets,
           NEW v \in {"completed", "failed", "timed_out"}, t.packets[k].id \in J,
           NEW u, u = WithVerdict(t, k, v)
    PROVE  /\ TargetInv(u, J) /\ ExecutedIn(u) = ExecutedIn(t)
           /\ DOMAIN u.packets = DOMAIN t.packets
           /\ \A j \in DOMAIN t.packets :
                  /\ u.packets[j].id = t.packets[j].id
                  /\ j # k => u.packets[j] = t.packets[j]
           /\ u.packets[k].ack = v
<1> DEFINE p == t.packets[k]
           q == Acked(p, v)
           ps == [t.packets EXCEPT ![k] = q]
<1>1. t \in TargetState /\ t.packets \in Seq(Packet) /\ PacketsPart(t, J)
  BY DEF TargetInv, TargetState
<1>2. p \in Packet /\ PacketIsSound(t, p, J)
  BY <1>1 DEF PacketsPart
<1>3. v \in AckStatuses
  BY DEF AckStatuses
<1>4. q \in Packet /\ q.id = p.id /\ q.ack = v /\ q.state = "ack_ready"
  <2> HIDE DEF p
  <2>1. v # "pending"
    OBVIOUS
  <2> QED BY <1>2, <1>3, <2>1, AckedType
<1>5. u = [t EXCEPT !.packets = ps]
  BY <1>1 DEF TargetState, WithVerdict
<1>6. PacketIsSound(t, q, J)
  <2> HIDE DEF q
  <2> QED BY <1>2, <1>4 DEF PacketIsSound
<1> HIDE DEF q
<1>7. ps \in Seq(Packet) /\ DOMAIN ps = DOMAIN t.packets
  BY <1>1, <1>4
<1>8. \A j \in DOMAIN ps :
          /\ ps[j].id = t.packets[j].id
          /\ PacketIsSound(t, ps[j], J)
          /\ j # k => ps[j] = t.packets[j]
  BY <1>1, <1>4, <1>6, <1>7 DEF PacketsPart
<1>10. ps[k].ack = v
  BY <1>1, <1>4
<1>9. TargetInv(u, J) /\ u.packets = ps /\ ExecutedIn(u) = ExecutedIn(t)
  <2> HIDE DEF ps
  <2> QED BY <1>5, <1>7, <1>8, ReplacePackets
<1> QED
  BY <1>7, <1>8, <1>9, <1>10

(* In mode "timeout" the packets are answered and not executed. *)
LEMMA TimeoutKeeps ==
    ASSUME mode = "timeout", TargetInv(Current, judged)
    PROVE  /\ TargetInv(Advanced, judged)
           /\ ExecutedIn(Advanced) = ExecutedIn(Current)
<1> DEFINE ps == [k \in DOMAIN packets |-> IF packets[k].state = "received"
                                           THEN Acked(packets[k], "timed_out")
                                           ELSE packets[k]]
<1>1. packets \in Seq(Packet) /\ Current.packets = packets /\ PacketsPart(Current, judged)
      /\ ExecutionsPart(Current)
  BY DEF TargetInv, TargetState, Current
<1>2. Advanced = [Current EXCEPT !.packets = ps]
  BY DEF Advanced
<1>3. ASSUME NEW k \in DOMAIN packets
      PROVE  /\ ps[k] \in Packet /\ ps[k].id = packets[k].id
             /\ PacketIsSound(Current, ps[k], judged)
  <2>1. packets[k] \in Packet /\ PacketIsSound(Current, packets[k], judged)
    BY <1>1 DEF PacketsPart
  <2>2. CASE packets[k].state = "received"
    <3> DEFINE q == Acked(packets[k], "timed_out")
    <3>1. ps[k] = q
      BY <2>2
    <3>2. q \in Packet /\ q.id = packets[k].id /\ q.ack = "timed_out" /\ q.state = "ack_ready"
      BY <2>1, AckedType DEF AckStatuses
    <3> HIDE DEF q
    <3>3. ~SucceededIn(Current, q.id)
      BY <2>1, <2>2, <3>2 DEF PacketIsSound, SucceededIn, ExecutedIn
    <3>4. PacketIsSound(Current, q, judged)
      BY <2>1, <2>2, <3>2, <3>3 DEF PacketIsSound
    <3> HIDE DEF ps
    <3> QED
      BY <3>1, <3>2, <3>4
  <2>3. CASE packets[k].state # "received"
    BY <2>1, <2>3
  <2> QED
    BY <2>2, <2>3
<1>4. DOMAIN ps = DOMAIN packets
  OBVIOUS
<1> HIDE DEF ps
<1>5. ps \in Seq(Packet)
  <2>1. Len(packets) \in Nat /\ DOMAIN packets = 1 .. Len(packets)
    BY <1>1, LenProperties
  <2>2. ps = [k \in 1 .. Len(packets) |-> ps[k]]
    BY <2>1 DEF ps
  <2>3. \A k \in 1 .. Len(packets) : ps[k] \in Packet
    BY <1>3, <2>1
  <2> QED
    BY <2>1, <2>2, <2>3
<1>6. TargetInv(Advanced, judged) /\ ExecutedIn(Advanced) = ExecutedIn(Current)
  BY <1>1, <1>2, <1>3, <1>4, <1>5, ReplacePackets
<1> QED
  BY <1>6

-----------------------------------------------------------------------------
(* Steps of the zone. *)

(* A transfer may be given a new status if none of its packets waits for its
   execution, or if it is pending now, and if the status is the truth. *)
LEMMA StatusChange ==
    ASSUME TargetInv(Current, judged), Current' = Current, judged' = judged,
           mode' = mode, NEW i \in TransferIDs,
           \A j \in TransferIDs \ {i} : transfers'[j] = transfers[j],
           StatusOf(i)' # "none",
           StatusOf(i)' # "pending" =>
               \A k \in DOMAIN packets : packets[k].id = i => packets[k].state # "received",
           i \notin judged =>
               /\ StatusOf(i)' = "completed" => SucceededIn(Current, i)
               /\ StatusOf(i)' \in {"ack_failed", "timed_out", "refunded"} /\ mode # "fail"
                      => ~SucceededIn(Current, i)
    PROVE  TargetInv(Current, judged)'
<1> DEFINE s == Current
<1>0. s \in TargetState /\ PacketsPart(s, judged) /\ ExecutionsPart(s) /\ PoolPart(s)
      /\ StatusPart(s, judged) /\ s.packets = packets
  BY DEF TargetInv, Current
<1>1. \A j \in TransferIDs : j # i => StatusOf(j)' = StatusOf(j)
  BY DEF StatusOf
<1>2. \A k \in DOMAIN packets : packets[k].id \in TransferIDs
  <2>1. packets \in Seq(Packet)
    BY <1>0 DEF TargetState
  <2>2. \A k \in DOMAIN packets : packets[k] \in Packet
    BY <2>1
  <2> QED
    BY <2>2 DEF Packet
<1> HIDE DEF s
<1>3. ASSUME NEW k \in DOMAIN s.packets
      PROVE  PacketIsSound(s, s.packets[k], judged)'
  <2>1. PacketIsSound(s, s.packets[k], judged)
    BY <1>0 DEF PacketsPart
  <2>2. s' = s
    BY DEF s
  <2>3. CASE packets[k].id = i
    BY <1>0, <2>1, <2>2, <2>3 DEF PacketIsSound
  <2>4. CASE packets[k].id # i
    BY <1>0, <1>1, <1>2, <2>1, <2>2, <2>4 DEF PacketIsSound
  <2> QED
    BY <2>3, <2>4
<1>4. s' = s
  BY DEF s
<1>5. PacketsPart(s, judged)'
  BY <1>0, <1>3, <1>4 DEF PacketsPart
<1>6. StatusPart(s, judged)'
  BY <1>0, <1>1, <1>4 DEF StatusPart, s
<1>7. ExecutionsPart(s)' /\ PoolPart(s)' /\ (s \in TargetState)'
  BY <1>0, <1>4
<1> QED
  BY <1>5, <1>6, <1>7 DEF TargetInv, s

(* Nothing of the destination changes. *)
LEMMA TargetUnchanged ==
    ASSUME UNCHANGED targetVars
    PROVE  Current' = Current /\ mode' = mode /\ packets' = packets /\ Executed' = Executed
BY DEF targetVars, Current, Executed

StatusMap == [i \in TransferIDs |-> StatusOf(i)]

(* A new status of one transfer, in the map the service sees. *)
LEMMA StatusMapChange ==
    ASSUME NEW i \in TransferIDs,
           \A j \in TransferIDs \ {i} : transfers'[j] = transfers[j]
    PROVE  StatusMap' = [StatusMap EXCEPT ![i] = StatusOf(i)']
BY DEF StatusMap, StatusOf

LEMMA InitiateStep ==
    ASSUME RouteInv, NEW a \in RouteAssets, NEW n \in TransferAmounts,
           NEW to \in Receivers, NEW m \in Memos, NEW d \in Denoms,
           InitiateOver(a, n, to, m, d), judged' = judged,
           UNCHANGED targetVars, UNCHANGED relayerVars
    PROVE  RouteInv' /\ [Service!Next]_(Service!vars)
<1> DEFINE r == [asset |-> a, amount |-> n, receiver |-> to,
                 denom |-> d, memo |-> m, status |-> "pending"]
<1>0. PICK i \in TransferIDs : i = nextSequence
  BY RouterAssumption DEF RouteInv, RouterTypes, InitiateOver, TransferIDs
<1>1. /\ transfers[i] = NoTransfer /\ StatusOf(i) = "none"
      /\ transfers \in [TransferIDs -> TransferRecord \cup {NoTransfer}]
  BY <1>0, RouterAssumption DEF RouteInv, RouterTypes, TransferIDs, StatusOf, NoTransfer
<1>2. r \in TransferRecord /\ r.status = "pending"
  BY DEF InitiateOver, TransferRecord, TransferStatus
<1>3. /\ transfers' = [transfers EXCEPT ![i] = r] /\ nextSequence' = i + 1
      /\ UNCHANGED <<routes, routeProfiles>>
  BY <1>0 DEF InitiateOver, policyOfRoutes
<1> HIDE DEF r
<1>4. /\ transfers' \in [TransferIDs -> TransferRecord \cup {NoTransfer}]
      /\ transfers'[i] = r /\ StatusOf(i)' = "pending"
      /\ \A j \in TransferIDs \ {i} : transfers'[j] = transfers[j]
  BY <1>1, <1>2, <1>3 DEF StatusOf
<1>5. Current' = Current /\ mode' = mode /\ packets' = packets /\ Executed' = Executed
  BY TargetUnchanged
<1>6. relayer' = relayer /\ acks' = acks /\ batch' = batch
  BY DEF relayerVars
<1>7. RouterTypes'
  <2>1. nextSequence' \in 1 .. MaxTransfers + 1
    BY <1>1, <1>3, RouterAssumption DEF TransferIDs
  <2>2. ASSUME NEW j \in TransferIDs, j >= nextSequence' PROVE transfers'[j] = NoTransfer
    <3>1. j # i /\ j >= i
      BY <1>3, <2>2, RouterAssumption DEF TransferIDs
    <3> QED
      BY <1>0, <1>4, <3>1 DEF RouteInv, RouterTypes
  <2> QED
    BY <1>3, <1>4, <2>1, <2>2 DEF RouteInv, RouterTypes
<1>8. TargetInv(Current, judged)'
  <2>1. TargetInv(Current, judged)
    BY DEF RouteInv
  <2> QED
    BY <1>1, <1>4, <1>5, <2>1, StatusChange
<1>9. RelayerTypes'
  BY <1>6 DEF RouteInv, RelayerTypes
<1>10. RelayerPart'
  <2>1. \A j \in batch : StatusOf(j)' = "pending"
    BY <1>1, <1>4 DEF RouteInv, RelayerPart, RelayerTypes, StatusOf
  <2> QED
    BY <1>5, <1>6, <2>1 DEF RouteInv, RelayerPart
<1>11. RouteInv'
  BY <1>5, <1>7, <1>8, <1>9, <1>10 DEF RouteInv
<1>12. Service!Next
  <2>1. StatusMap[i] = "none" /\ StatusMap' = [StatusMap EXCEPT ![i] = "pending"]
    BY <1>1, <1>4, StatusMapChange DEF StatusMap
  <2>2. Service!Request(i)
    BY <1>5, <2>1 DEF Service!Request, StatusMap
  <2> QED
    BY <1>1, <2>2 DEF Service!Next
<1> QED
  BY <1>11, <1>12

(* A stored transfer is given another status. *)
LEMMA StatusSet ==
    ASSUME RouterTypes, NEW i \in TransferIDs, StatusOf(i) # "none",
           NEW st \in TransferStatus,
           transfers' = [transfers EXCEPT ![i].status = st],
           UNCHANGED <<routes, routeProfiles, nextSequence>>
    PROVE  /\ RouterTypes' /\ StatusOf(i)' = st
           /\ \A j \in TransferIDs \ {i} : transfers'[j] = transfers[j]
<1> DEFINE new == [transfers[i] EXCEPT !.status = st]
<1>1. transfers \in [TransferIDs -> TransferRecord \cup {NoTransfer}]
  BY DEF RouterTypes
<1>2. transfers[i] # NoTransfer /\ transfers[i] \in TransferRecord
  BY <1>1 DEF StatusOf, NoTransfer
<1>3. new \in TransferRecord /\ new.status = st
  BY <1>2 DEF TransferRecord
<1>4. transfers' = [transfers EXCEPT ![i] = new]
  OBVIOUS
<1> HIDE DEF new
<1>5. /\ transfers' \in [TransferIDs -> TransferRecord \cup {NoTransfer}]
      /\ transfers'[i] = new
      /\ \A j \in TransferIDs \ {i} : transfers'[j] = transfers[j]
  BY <1>1, <1>3, <1>4
<1>6. \A j \in TransferIDs : j >= nextSequence' => transfers'[j] = NoTransfer
  BY <1>2, <1>5 DEF RouterTypes
<1>7. RouterTypes'
  BY <1>5, <1>6 DEF RouterTypes
<1>8. StatusOf(i)' = st
  BY <1>3, <1>5 DEF StatusOf
<1> QED
  BY <1>5, <1>7, <1>8

LEMMA RefundStep ==
    ASSUME RouteInv, NEW i \in TransferIDs, MarkRefunded(i), judged' = judged,
           UNCHANGED targetVars, UNCHANGED relayerVars
    PROVE  RouteInv' /\ [Service!Next]_(Service!vars)
<1>1. /\ StatusOf(i) \in {"ack_failed", "timed_out"}
      /\ transfers' = [transfers EXCEPT ![i].status = "refunded"]
      /\ UNCHANGED <<routes, routeProfiles, nextSequence>>
  BY DEF MarkRefunded
<1>2. "refunded" \in TransferStatus /\ StatusOf(i) # "none" /\ RouterTypes
  BY <1>1 DEF TransferStatus, RouteInv
<1>3. /\ RouterTypes' /\ StatusOf(i)' = "refunded"
      /\ \A j \in TransferIDs \ {i} : transfers'[j] = transfers[j]
  BY <1>1, <1>2, StatusSet
<1>4. Current' = Current /\ mode' = mode /\ packets' = packets /\ Executed' = Executed
  BY TargetUnchanged
<1>5. relayer' = relayer /\ acks' = acks /\ batch' = batch
  BY DEF relayerVars
<1>6. TargetInv(Current, judged) /\ PacketsPart(Current, judged) /\ StatusPart(Current, judged)
      /\ Current.packets = packets
  BY DEF RouteInv, TargetInv, Current
<1>7. \A k \in DOMAIN packets : packets[k].id = i => packets[k].state # "received"
  BY <1>1, <1>6 DEF PacketsPart, PacketIsSound
<1>8. i \notin judged /\ mode # "fail" => ~SucceededIn(Current, i)
  BY <1>1, <1>6 DEF StatusPart
<1>9. TargetInv(Current, judged)'
  BY <1>3, <1>4, <1>6, <1>7, <1>8, StatusChange
<1>10. RelayerTypes' /\ RelayerPart'
  <2>1. \A j \in batch : StatusOf(j)' = "pending"
    BY <1>1, <1>3 DEF RouteInv, RelayerPart, RelayerTypes, StatusOf
  <2> QED
    BY <1>4, <1>5, <2>1 DEF RouteInv, RelayerPart, RelayerTypes
<1>11. RouteInv'
  BY <1>3, <1>4, <1>9, <1>10 DEF RouteInv
<1>12. Service!Next
  <2>1. /\ StatusMap[i] \in {"ack_failed", "timed_out"}
        /\ StatusMap' = [StatusMap EXCEPT ![i] = "refunded"]
    BY <1>1, <1>3, StatusMapChange DEF StatusMap
  <2>2. Service!Refund(i)
    BY <1>4, <2>1 DEF Service!Refund, StatusMap
  <2> QED
    BY <2>2 DEF Service!Next
<1> QED
  BY <1>11, <1>12

(* A route or a profile is replaced: no transfer and no packet notices. *)
LEMMA PolicyStep ==
    ASSUME RouteInv, judged' = judged, UNCHANGED targetVars, UNCHANGED relayerVars,
           UNCHANGED <<transfers, nextSequence>>,
           routes' \in [RouteAssets -> RouteChoices \cup {NoRoute}],
           routeProfiles' \in [RouteIDs -> ProfileChoices \cup {NoRoute}]
    PROVE  RouteInv' /\ [Service!Next]_(Service!vars)
<1>1. Current' = Current /\ mode' = mode /\ packets' = packets /\ Executed' = Executed
  BY TargetUnchanged
<1>2. relayer' = relayer /\ acks' = acks /\ batch' = batch
  BY DEF relayerVars
<1>3. RouterTypes'
  BY DEF RouteInv, RouterTypes
<1>4. TargetInv(Current, judged)'
  BY <1>1 DEF RouteInv, TargetInv, PacketsPart, PacketIsSound, StatusPart, StatusOf
<1>5. RelayerTypes' /\ RelayerPart'
  BY <1>1, <1>2 DEF RouteInv, RelayerPart, RelayerTypes, StatusOf
<1>6. RouteInv'
  BY <1>1, <1>3, <1>4, <1>5 DEF RouteInv
<1>7. UNCHANGED Service!vars
  BY <1>1 DEF Service!vars, StatusOf
<1> QED
  BY <1>6, <1>7

LEMMA ZoneStepKeeps ==
    ASSUME RouteInv, ZoneStep
    PROVE  RouteInv' /\ [Service!Next]_(Service!vars)
<1>0. judged' = judged /\ UNCHANGED targetVars /\ UNCHANGED relayerVars
  BY DEF ZoneStep, operatorVars
<1>1. ASSUME NEW a \in RouteAssets, NEW r \in RouteChoices, SetRoute(a, r)
      PROVE  RouteInv' /\ [Service!Next]_(Service!vars)
  <2>1. /\ routes' \in [RouteAssets -> RouteChoices \cup {NoRoute}]
        /\ routeProfiles' \in [RouteIDs -> ProfileChoices \cup {NoRoute}]
        /\ UNCHANGED <<transfers, nextSequence>>
    BY <1>1 DEF SetRoute, RouteInv, RouterTypes
  <2> QED
    BY <1>0, <2>1, PolicyStep
<1>2. ASSUME NEW id \in RouteIDs, NEW p \in ProfileChoices, SetRouteProfile(id, p)
      PROVE  RouteInv' /\ [Service!Next]_(Service!vars)
  <2>1. /\ routes' \in [RouteAssets -> RouteChoices \cup {NoRoute}]
        /\ routeProfiles' \in [RouteIDs -> ProfileChoices \cup {NoRoute}]
        /\ UNCHANGED <<transfers, nextSequence>>
    BY <1>2 DEF SetRouteProfile, RouteInv, RouterTypes
  <2> QED
    BY <1>0, <2>1, PolicyStep
<1>3. ASSUME NEW a \in RouteAssets, NEW n \in TransferAmounts, NEW to \in Receivers,
             NEW m \in Memos, InitiateTransfer(a, n, to, m)
      PROVE  RouteInv' /\ [Service!Next]_(Service!vars)
  <2>1. routes[a].denom \in Denoms
    BY <1>3 DEF InitiateTransfer, RouteAllows, RouteInv, RouterTypes, Denoms
  <2>2. InitiateOver(a, n, to, m, routes[a].denom)
    BY <1>3 DEF InitiateTransfer
  <2> QED
    BY <1>0, <2>1, <2>2, InitiateStep
<1>4. ASSUME NEW id \in RouteIDs, NEW a \in RouteAssets, NEW n \in TransferAmounts,
             NEW to \in Receivers, NEW m \in Memos,
             InitiateTransferWithProfile(id, a, n, to, m)
      PROVE  RouteInv' /\ [Service!Next]_(Service!vars)
  <2>1. routeProfiles[id].denom \in Denoms
    BY <1>4
    DEF InitiateTransferWithProfile, ProfileAllows, RouteInv, RouterTypes, Denoms
  <2>2. InitiateOver(a, n, to, m, routeProfiles[id].denom)
    BY <1>4 DEF InitiateTransferWithProfile
  <2> QED
    BY <1>0, <2>1, <2>2, InitiateStep
<1>5. ASSUME NEW i \in TransferIDs, MarkRefunded(i)
      PROVE  RouteInv' /\ [Service!Next]_(Service!vars)
  BY <1>0, <1>5, RefundStep
<1> QED
  BY <1>1, <1>2, <1>3, <1>4, <1>5 DEF ZoneStep

-----------------------------------------------------------------------------
(* Steps of the relayer and of the operator of the destination. *)

(* Only the relayer moves. *)
LEMMA RelayerMoves ==
    ASSUME RouteInv, UNCHANGED routerVars, UNCHANGED targetVars, judged' = judged,
           RelayerTypes', RelayerPart'
    PROVE  RouteInv' /\ [Service!Next]_(Service!vars)
<1>1. Current' = Current /\ mode' = mode /\ packets' = packets /\ Executed' = Executed
  BY TargetUnchanged
<1>2. transfers' = transfers /\ RouterTypes'
  BY DEF routerVars, RouteInv, RouterTypes
<1>3. TargetInv(Current, judged)'
  BY <1>1, <1>2 DEF RouteInv, TargetInv, PacketsPart, PacketIsSound, StatusPart, StatusOf
<1>4. RouteInv'
  BY <1>1, <1>2, <1>3 DEF RouteInv
<1>5. UNCHANGED Service!vars
  BY <1>1, <1>2 DEF Service!vars, StatusOf
<1> QED
  BY <1>4, <1>5

(* The destination moves to a sound state; what it executes is pending. *)
LEMMA TargetMoves ==
    ASSUME RouteInv, UNCHANGED routerVars, mode' = mode, NEW t, NEW J,
           Current' = t, judged' = J, TargetInv(t, J), RelayerTypes', RelayerPart',
           ExecutedIn(Current) \subseteq ExecutedIn(t),
           \A i \in ExecutedIn(t) \ ExecutedIn(Current) : StatusOf(i) = "pending",
           \/ J = judged
           \/ \E i \in TransferIDs : /\ J = judged \cup {i}
                                     /\ ExecutedIn(t) \subseteq ExecutedIn(Current) \cup {i}
    PROVE  RouteInv' /\ [Service!Next]_(Service!vars)
<1>1. transfers' = transfers /\ RouterTypes' /\ \A i : StatusOf(i)' = StatusOf(i)
  BY DEF routerVars, RouteInv, RouterTypes, StatusOf
<1>2. TargetInv(t, J)'
  <2>1. t \in TargetState /\ PacketsPart(t, J) /\ ExecutionsPart(t) /\ PoolPart(t)
        /\ StatusPart(t, J)
    BY DEF TargetInv
  <2>2. PacketsPart(t, J)'
    BY <1>1, <2>1 DEF PacketsPart, PacketIsSound
  <2>3. StatusPart(t, J)'
    BY <1>1, <2>1 DEF StatusPart
  <2> QED
    BY <2>1, <2>2, <2>3 DEF TargetInv
<1>3. TargetInv(Current, judged)'
  BY <1>2
<1>4. RouteInv'
  BY <1>1, <1>3 DEF RouteInv
<1>5. Executed = ExecutedIn(Current) /\ Executed' = ExecutedIn(t)
  <2>1. Executed = ExecutedIn(Current)
    BY DEF Executed, ExecutedIn, Current
  <2>2. Executed' = ExecutedIn(Current)'
    BY DEF Executed, ExecutedIn, Current
  <2> QED
    BY <2>1, <2>2 DEF ExecutedIn
<1>6. StatusMap' = StatusMap
  BY <1>1 DEF StatusMap
<1> DEFINE new == ExecutedIn(t) \ ExecutedIn(Current)
<1>7. new \in SUBSET TransferIDs
  <2>1. t.executions \in Seq(ExecutionRecord)
    BY DEF TargetInv, TargetState
  <2>2. \A k \in DOMAIN t.executions : t.executions[k] \in ExecutionRecord
    BY <2>1
  <2>3. \A k \in DOMAIN t.executions : t.executions[k].id \in TransferIDs
    BY <2>2 DEF ExecutionRecord
  <2> QED
    BY <2>3 DEF ExecutedIn
<1>8. CASE new = {} /\ J = judged
  <2>1. Executed' = Executed
    BY <1>5, <1>8
  <2> QED
    BY <1>4, <1>6, <1>8, <2>1 DEF Service!vars, StatusMap
<1>9. CASE new # {} /\ J = judged
  <2>1. /\ new \cap Executed = {} /\ Executed' = Executed \cup new
        /\ \A i \in new : StatusMap[i] = "pending"
    BY <1>5, <1>7 DEF StatusMap
  <2> HIDE DEF new
  <2>2. Service!Execute(new)
    BY <1>6, <1>9, <2>1 DEF Service!Execute, StatusMap
  <2>3. Service!Next
    BY <1>7, <2>2 DEF Service!Next
  <2> QED
    BY <1>4, <2>3
<1>10. CASE J # judged
  <2>1. PICK i \in TransferIDs : /\ J = judged \cup {i}
                                 /\ ExecutedIn(t) \subseteq ExecutedIn(Current) \cup {i}
    BY <1>10
  <2>2. \/ Executed' = Executed
        \/ StatusMap[i] = "pending" /\ i \notin Executed /\ Executed' = Executed \cup {i}
    BY <1>5, <2>1 DEF StatusMap
  <2>3. Service!Judge(i)
    BY <1>6, <2>1, <2>2 DEF Service!Judge, StatusMap
  <2>4. Service!Next
    BY <2>3 DEF Service!Next
  <2> QED
    BY <1>4, <2>4
<1> QED
  BY <1>8, <1>9, <1>10

LEMMA ReadReadyAcksStep ==
    ASSUME RouteInv, ReadReadyAcks
    PROVE  RouteInv' /\ [Service!Next]_(Service!vars)
<1>0. PICK t : t = Advanced
  OBVIOUS
<1>1. /\ relayer = "start" /\ relayer' = "acks" /\ batch' = batch /\ judged' = judged
      /\ UNCHANGED routerVars /\ mode' = mode /\ acks' = ReadyAcks(packets')
  BY DEF ReadReadyAcks, AdvanceReceivedPackets, Goto, operatorVars
<1>2. TargetInv(Current, judged) /\ mode \in Modes
  BY DEF RouteInv, Modes
<1>3. /\ TargetInv(t, judged) /\ ExecutedIn(Current) \subseteq ExecutedIn(t)
      /\ \A i \in ExecutedIn(t) \ ExecutedIn(Current) : StatusOf(i) = "pending"
  <2>1. CASE mode = "timeout"
    BY <1>0, <1>2, <2>1, TimeoutKeeps
  <2>2. CASE mode # "timeout"
    <3>1. t \in Reachable
      BY <1>0, <1>2, <2>2, LoopStaysSound DEF Advanced
    <3> QED
      BY <3>1 DEF Reachable
  <2> QED
    BY <2>1, <2>2
<1>4. Current' = t /\ packets' = t.packets
  <2>1. Becomes(t)
    BY <1>0 DEF ReadReadyAcks, AdvanceReceivedPackets
  <2>2. t \in TargetState
    BY <1>3 DEF TargetInv
  <2>3. t = [packets |-> t.packets, executions |-> t.executions,
             credited |-> t.credited, pool |-> t.pool]
    BY <2>2 DEF TargetState
  <2> QED
    BY <2>1, <2>3 DEF Becomes, Current
<1>5. PICK ps \in Seq(Packet) : ps = t.packets /\ packets' = ps
  BY <1>3, <1>4 DEF TargetInv, TargetState
<1>6. acks' \in Seq(Offered(ps))
  BY <1>1, <1>5, ReadyAcksAreOffered
<1>7. \A a \in Offered(ps) :
          a \in AckRecord /\ \E k \in DOMAIN ps : ps[k].id = a.id /\ ps[k].ack = a.status
  <2> SUFFICES ASSUME NEW k \in DOMAIN ps, ps[k].state = "ack_ready"
               PROVE  [id |-> ps[k].id, status |-> ps[k].ack] \in AckRecord
    BY DEF Offered
  <2>1. ps[k] \in Packet
    OBVIOUS
  <2>2. ps[k].id \in TransferIDs /\ ps[k].ack \in AckStatuses
    BY <2>1 DEF Packet
  <2>3. PacketIsSound(t, ps[k], judged)
    BY <1>3, <1>5 DEF TargetInv, PacketsPart
  <2>4. ps[k].ack # "pending"
    BY <2>3 DEF PacketIsSound
  <2> QED
    BY <2>2, <2>4 DEF AckRecord
<1>8. acks' \in Seq(AckRecord) /\ \A n \in DOMAIN acks' : acks'[n] \in Offered(ps)
  <2>1. PICK A : A = Offered(ps)
    OBVIOUS
  <2>2. PICK as : as = acks'
    OBVIOUS
  <2>3. as \in Seq(A) /\ A \subseteq AckRecord
    BY <1>6, <1>7, <2>1, <2>2
  <2>4. as \in Seq(AckRecord) /\ \A n \in DOMAIN as : as[n] \in A
    <3>1. Len(as) \in Nat /\ DOMAIN as = 1 .. Len(as)
      BY <2>3, LenProperties
    <3>2. \A n \in 1 .. Len(as) : as[n] \in A
      BY <2>3, ElementOfSeq
    <3>3. as \in Seq(AckRecord)
      BY <2>3, SeqMonotonic
    <3> QED
      BY <3>1, <3>2, <3>3
  <2> QED
    BY <2>1, <2>2, <2>4
<1>9. RelayerTypes'
  BY <1>1, <1>8 DEF RouteInv, RelayerTypes
<1>10. RelayerPart'
  <2>1. \A n \in DOMAIN acks' : \E k \in DOMAIN packets' :
            Carries(packets'[k], acks'[n], judged')
    BY <1>5, <1>7, <1>8 DEF Carries
  <2>2. batch = {}
    BY <1>1 DEF RouteInv, RelayerPart
  <2> QED
    BY <1>1, <2>1, <2>2 DEF RelayerPart
<1> QED
  BY <1>1, <1>3, <1>4, <1>9, <1>10, TargetMoves

LEMMA ApplyAckStep ==
    ASSUME RouteInv, ApplyAck
    PROVE  RouteInv' /\ [Service!Next]_(Service!vars)
<1>0. /\ relayer = "acks" /\ acks # <<>> /\ relayer' = "confirm" /\ acks' = acks
      /\ batch' = batch /\ judged' = judged /\ UNCHANGED targetVars
  BY DEF ApplyAck, Goto, operatorVars
<1>1. acks \in Seq(AckRecord) /\ 1 \in DOMAIN acks /\ Head(acks) = acks[1]
  BY <1>0 DEF RouteInv, RelayerTypes
<1>2. acks[1] \in AckRecord
  BY <1>1
<1>3. PICK i \in TransferIDs, a \in AckStatuses \ {"pending"} :
          i = Head(acks).id /\ a = Head(acks).status
  BY <1>1, <1>2 DEF AckRecord
<1>4. PICK k \in DOMAIN packets :
          /\ packets[k].id = i /\ packets[k].ack # "pending"
          /\ i \notin judged => packets[k].ack = a
  <2>1. PICK k \in DOMAIN packets : Carries(packets[k], acks[1], judged)
    BY <1>1 DEF RouteInv, RelayerPart
  <2> QED
    BY <1>1, <1>3, <2>1 DEF Carries
<1>5. PICK st \in {"completed", "ack_failed", "timed_out"} :
          /\ a = "completed" <=> st = "completed"
          /\ StatusOf(i) = "pending" /\ transfers' = [transfers EXCEPT ![i].status = st]
          /\ UNCHANGED <<routes, routeProfiles, nextSequence>>
  <2>1. CASE a = "completed"
    BY <1>3, <2>1 DEF ApplyAck, AcknowledgeSuccess, Settle
  <2>2. CASE a = "failed"
    BY <1>3, <2>2 DEF ApplyAck, AcknowledgeFailure, Settle
  <2>3. CASE a = "timed_out"
    BY <1>3, <2>3 DEF ApplyAck, TimeoutTransfer, Settle
  <2> QED
    BY <2>1, <2>2, <2>3 DEF AckStatuses
<1>6. st \in TransferStatus /\ RouterTypes /\ StatusOf(i) # "none"
  BY <1>5 DEF TransferStatus, RouteInv
<1>7. /\ RouterTypes' /\ StatusOf(i)' = st
      /\ \A j \in TransferIDs \ {i} : transfers'[j] = transfers[j]
  BY <1>5, <1>6, StatusSet
<1>8. Current' = Current /\ mode' = mode /\ packets' = packets /\ Executed' = Executed
  BY <1>0, TargetUnchanged
<1>9. TargetInv(Current, judged) /\ PacketsPart(Current, judged) /\ Current.packets = packets
  BY DEF RouteInv, TargetInv, Current
<1>10. PacketIsSound(Current, packets[k], judged)
  BY <1>9 DEF PacketsPart
<1>11. \A j \in DOMAIN packets : packets[j].id = i => packets[j].state # "received"
  <2>1. packets[k].state # "received"
    BY <1>4, <1>10 DEF PacketIsSound
  <2> QED
    BY <1>4, <1>9, <2>1 DEF PacketsPart
<1>12. i \notin judged =>
          /\ st = "completed" => SucceededIn(Current, i)
          /\ st # "completed" /\ mode # "fail" => ~SucceededIn(Current, i)
  BY <1>3, <1>4, <1>5, <1>10 DEF PacketIsSound, AckStatuses
<1>13. TargetInv(Current, judged)'
  BY <1>0, <1>7, <1>8, <1>9, <1>11, <1>12, StatusChange
<1>14. RelayerTypes' /\ RelayerPart'
  BY <1>0, <1>8 DEF RouteInv, RelayerTypes, RelayerPart
<1>15. RouteInv'
  BY <1>7, <1>8, <1>13, <1>14 DEF RouteInv
<1>16. Service!Next
  <2>1. StatusMap[i] = "pending" /\ StatusMap' = [StatusMap EXCEPT ![i] = st]
    BY <1>5, <1>7, StatusMapChange DEF StatusMap
  <2>2. st = "completed" => i \in Executed \cup judged
    BY <1>4, <1>5, <1>10 DEF PacketIsSound, ExecutedIn, Executed, Current
  <2>3. CASE st = "completed"
    <3>1. Service!Complete(i)
      BY <1>0, <1>8, <2>1, <2>2, <2>3 DEF Service!Complete, StatusMap
    <3> QED
      BY <3>1 DEF Service!Next
  <2>4. CASE st # "completed"
    <3>1. Service!Fail(i, st)
      BY <1>0, <1>8, <2>1 DEF Service!Fail, StatusMap
    <3> QED
      BY <2>4, <3>1 DEF Service!Next
  <2> QED
    BY <2>3, <2>4
<1> QED
  BY <1>15, <1>16

LEMMA ConfirmAckStep ==
    ASSUME RouteInv, ConfirmAck
    PROVE  RouteInv' /\ [Service!Next]_(Service!vars)
<1> DEFINE i == Head(acks).id
           s == Current
<1>0. PICK ps : ps = [k \in DOMAIN packets |->
                         IF packets[k].id = i
                         THEN [packets[k] EXCEPT !.state = "ack_relayed"]
                         ELSE packets[k]]
  OBVIOUS
<1>1. /\ relayer = "confirm" /\ relayer' = "acks" /\ acks' = Tail(acks)
      /\ batch' = batch /\ judged' = judged /\ UNCHANGED routerVars
      /\ packets' = ps /\ UNCHANGED <<mode, executions, credited, pool>>
  BY <1>0 DEF ConfirmAck, ConfirmReadyAck, Goto, operatorVars
<1>2. PICK c \in DOMAIN packets : packets[c].id = i /\ packets[c].state = "ack_ready"
  BY DEF ConfirmAck, CanConfirm
<1>3. /\ TargetInv(s, judged) /\ PacketsPart(s, judged) /\ s.packets = packets
      /\ packets \in Seq(Packet)
  BY DEF RouteInv, TargetInv, TargetState, Current
<1> HIDE DEF s
<1>4. ASSUME NEW k \in DOMAIN packets
      PROVE  /\ ps[k] \in Packet /\ ps[k].id = packets[k].id /\ ps[k].ack = packets[k].ack
             /\ PacketIsSound(s, ps[k], judged)
  <2>1. packets[k] \in Packet
    BY <1>3
  <2>2. PacketIsSound(s, packets[k], judged)
    BY <1>3 DEF PacketsPart
  <2>3. CASE packets[k].id = i
    <3>1. k = c
      BY <1>2, <1>3, <2>3 DEF PacketsPart
    <3>2. ps[k] = [packets[k] EXCEPT !.state = "ack_relayed"]
      BY <1>0, <2>3
    <3>3. /\ ps[k] \in Packet /\ ps[k].id = packets[k].id /\ ps[k].ack = packets[k].ack
          /\ ps[k].state = "ack_relayed"
      BY <2>1, <3>2 DEF Packet, PacketStates
    <3>4. packets[k].state = "ack_ready"
      BY <1>2, <3>1
    <3>5. PacketIsSound(s, ps[k], judged)
      BY <2>2, <3>3, <3>4 DEF PacketIsSound
    <3> QED
      BY <3>3, <3>5
  <2>4. CASE packets[k].id # i
    BY <1>0, <2>1, <2>2, <2>4
  <2> QED
    BY <2>3, <2>4
<1>5. ps \in Seq(Packet) /\ DOMAIN ps = DOMAIN packets
  <2>1. Len(packets) \in Nat /\ DOMAIN packets = 1 .. Len(packets)
    BY <1>3, LenProperties
  <2>2. DOMAIN ps = DOMAIN packets /\ ps = [k \in 1 .. Len(packets) |-> ps[k]]
    BY <1>0, <2>1
  <2>3. \A k \in 1 .. Len(packets) : ps[k] \in Packet
    BY <1>4, <2>1
  <2> QED
    BY <2>1, <2>2, <2>3
<1>6. PICK u : u = [s EXCEPT !.packets = ps]
  OBVIOUS
<1>7. TargetInv(u, judged) /\ ExecutedIn(u) = ExecutedIn(s)
  BY <1>3, <1>4, <1>5, <1>6, ReplacePackets
<1>8. Current' = u
  BY <1>1, <1>6 DEF Current, s
<1>9. acks \in Seq(AckRecord) /\ acks # <<>> /\ batch = {}
  BY <1>1 DEF RouteInv, RelayerTypes, RelayerPart
<1>10. /\ Tail(acks) \in Seq(AckRecord)
       /\ \A n \in DOMAIN Tail(acks) : n + 1 \in DOMAIN acks /\ Tail(acks)[n] = acks[n + 1]
  BY <1>9
<1>11. RelayerTypes'
  BY <1>1, <1>10 DEF RouteInv, RelayerTypes
<1>12. RelayerPart'
  <2>1. \A n \in DOMAIN acks' : \E k \in DOMAIN packets' :
            Carries(packets'[k], acks'[n], judged')
    <3> SUFFICES ASSUME NEW n \in DOMAIN Tail(acks)
                 PROVE  \E k \in DOMAIN ps : Carries(ps[k], Tail(acks)[n], judged)
      BY <1>1
    <3>1. PICK k \in DOMAIN packets : Carries(packets[k], acks[n + 1], judged)
      BY <1>10 DEF RouteInv, RelayerPart
    <3> QED
      BY <1>4, <1>5, <1>10, <3>1 DEF Carries
  <2> QED
    BY <1>1, <1>9, <2>1 DEF RelayerPart
<1> QED
  BY <1>1, <1>7, <1>8, <1>11, <1>12, TargetMoves DEF s

(* A packet for a pending transfer that the destination does not know. *)
LEMMA ReceiveKeeps ==
    ASSUME TargetInv(Current, judged), NEW i \in TransferIDs, ~Known(i),
           StatusOf(i) = "pending", NEW q \in Packet, q.id = i, q.state = "received",
           q.ack = "pending", NEW u, u = [Current EXCEPT !.packets = Append(packets, q)]
    PROVE  TargetInv(u, judged) /\ ExecutedIn(u) = ExecutedIn(Current)
<1> DEFINE s == Current
           n == Len(packets) + 1
<1>0. /\ s \in TargetState /\ PacketsPart(s, judged) /\ ExecutionsPart(s) /\ PoolPart(s)
      /\ StatusPart(s, judged) /\ s.packets = packets /\ packets \in Seq(Packet)
  BY DEF TargetInv, TargetState, Current
<1>1. u = [s EXCEPT !.packets = Append(packets, q)]
  OBVIOUS
<1>2. Append(packets, q) \in Seq(Packet)
  BY <1>0
<1>3. Len(packets) \in Nat /\ DOMAIN packets = 1 .. Len(packets)
  BY <1>0, LenProperties
<1>4. /\ DOMAIN Append(packets, q) = DOMAIN packets \cup {n} /\ n \notin DOMAIN packets
      /\ \A k \in DOMAIN packets : Append(packets, q)[k] = packets[k]
      /\ Append(packets, q)[n] = q
  BY <1>0, <1>3, AppendProperties
<1> HIDE DEF s, n
<1>5. /\ u \in TargetState /\ u.packets = Append(packets, q)
      /\ u.executions = s.executions /\ u.pool = s.pool
  BY <1>0, <1>1, <1>2 DEF TargetState
<1>6. ExecutedIn(u) = ExecutedIn(s) /\ \A j : SucceededIn(u, j) <=> SucceededIn(s, j)
  BY <1>5 DEF ExecutedIn, SucceededIn
<1>7. i \notin ExecutedIn(s)
  BY <1>0 DEF ExecutionsPart, Known
<1>8. PacketsPart(u, judged)
  <2>1. PacketIsSound(u, q, judged)
    BY <1>6, <1>7 DEF PacketIsSound
  <2>2. \A k \in DOMAIN packets : PacketIsSound(u, packets[k], judged)
    BY <1>0, <1>6 DEF PacketsPart, PacketIsSound
  <2>3. \A k \in DOMAIN packets : packets[k].id # q.id
    BY DEF Known
  <2>4. \A j, k \in DOMAIN packets : packets[j].id = packets[k].id => j = k
    BY <1>0 DEF PacketsPart
  <2>5. \A k \in DOMAIN u.packets : PacketIsSound(u, u.packets[k], judged)
    BY <1>4, <1>5, <2>1, <2>2
  <2>6. \A j, k \in DOMAIN u.packets : u.packets[j].id = u.packets[k].id => j = k
    BY <1>4, <1>5, <2>3, <2>4
  <2> QED
    BY <2>5, <2>6 DEF PacketsPart
<1>9. ExecutionsPart(u)
  BY <1>0, <1>4, <1>5, <1>6 DEF ExecutionsPart
<1>10. PoolPart(u)
  BY <1>0, <1>5 DEF PoolPart, Swapped
<1>11. StatusPart(u, judged)
  BY <1>0, <1>6 DEF StatusPart
<1> QED
  BY <1>5, <1>6, <1>8, <1>9, <1>10, <1>11 DEF TargetInv, s

LEMMA SubmitTransferStep ==
    ASSUME RouteInv, NEW i \in TransferIDs, SubmitTransfer(i)
    PROVE  RouteInv' /\ [Service!Next]_(Service!vars)
<1>0. /\ relayer = "submit" /\ i \in batch /\ relayer' = "submit" /\ acks' = acks
      /\ batch' = batch \ {i} /\ judged' = judged /\ UNCHANGED routerVars
      /\ UNCHANGED <<mode, executions, credited, pool>>
      /\ ReceiveTransfer(i, transfers[i])
  BY DEF SubmitTransfer, ReceiveTransfer, Goto, operatorVars
<1>1. transfers' = transfers /\ \A j : StatusOf(j)' = StatusOf(j)
  BY <1>0 DEF routerVars, StatusOf
<1>2. acks = <<>> /\ StatusOf(i) = "pending" /\ \A j \in batch : StatusOf(j) = "pending"
  BY <1>0 DEF RouteInv, RelayerPart
<1>3. RelayerTypes' /\ RelayerPart'
  <2>1. RelayerTypes'
    BY <1>0 DEF RouteInv, RelayerTypes
  <2>2. DOMAIN acks' = {}
    BY <1>0, <1>2
  <2>3. \A j \in batch' : StatusOf(j)' = "pending"
    BY <1>0, <1>1, <1>2
  <2> QED
    BY <1>0, <1>2, <2>1, <2>2, <2>3 DEF RelayerPart
<1>4. CASE Known(i)
  <2>1. UNCHANGED targetVars
    BY <1>0, <1>4 DEF ReceiveTransfer, targetVars
  <2> QED
    BY <1>0, <1>3, <2>1, RelayerMoves
<1>5. CASE ~Known(i)
  <2>1. PICK q : q = PacketOf(i, transfers[i])
    OBVIOUS
  <2>2. transfers[i] \in TransferRecord
    <3>1. transfers[i] \in TransferRecord \cup {NoTransfer}
      BY DEF RouteInv, RouterTypes
    <3> QED
      BY <1>2, <3>1 DEF StatusOf, NoTransfer
  <2>3. q \in Packet /\ q.id = i /\ q.state = "received" /\ q.ack = "pending"
    BY <2>1, <2>2 DEF PacketOf, TransferRecord, Packet, PacketStates, AckStatuses
  <2>4. PICK u : u = [Current EXCEPT !.packets = Append(packets, q)]
    OBVIOUS
  <2>5. TargetInv(Current, judged)
    BY DEF RouteInv
  <2>6. TargetInv(u, judged) /\ ExecutedIn(u) = ExecutedIn(Current)
    BY <1>2, <1>5, <2>3, <2>4, <2>5, ReceiveKeeps
  <2>7. Current' = u
    BY <1>0, <1>5, <2>1, <2>4 DEF Current, ReceiveTransfer
  <2> QED
    BY <1>0, <1>3, <2>6, <2>7, TargetMoves
<1> QED
  BY <1>4, <1>5

(* The steps that change nothing but where the relayer is. *)
LEMMA QuietSteps ==
    ASSUME RouteInv,
           \/ ReadPendingTransfers \/ FinishRun \/ EndOnError
           \/ KilledOrCallFails \/ StartAgain
    PROVE  RouteInv' /\ [Service!Next]_(Service!vars)
<1>1. UNCHANGED routerVars /\ UNCHANGED targetVars /\ judged' = judged
  BY DEF ReadPendingTransfers, FinishRun, EndOnError, KilledOrCallFails, StartAgain, operatorVars
<1>2. packets' = packets /\ transfers' = transfers /\ \A i : StatusOf(i)' = StatusOf(i)
  BY <1>1 DEF routerVars, targetVars, StatusOf
<1>3. RelayerTypes' /\ RelayerPart'
  <2>1. CASE ReadPendingTransfers
    BY <1>1, <1>2, <2>1 DEF ReadPendingTransfers, Goto, RouteInv, RelayerTypes, RelayerPart
  <2>2. CASE FinishRun \/ StartAgain
    BY <1>1, <1>2, <2>2 DEF FinishRun, StartAgain, Goto, RouteInv, RelayerTypes, RelayerPart
  <2>3. CASE EndOnError \/ KilledOrCallFails
    <3>1. acks' = <<>> /\ batch' = {} /\ relayer' = "stopped"
      BY <2>3 DEF EndOnError, KilledOrCallFails, Stop
    <3>2. DOMAIN acks' = {}
      BY <3>1
    <3> QED
      BY <1>1, <3>1, <3>2 DEF RouteInv, RelayerTypes, RelayerPart
  <2> QED
    BY <2>1, <2>2, <2>3
<1> QED
  BY <1>1, <1>3, RelayerMoves

(* More transfers judged by hand: less is promised. *)
LEMMA JudgedGrows ==
    ASSUME NEW s, NEW J, NEW K, J \subseteq K, TargetInv(s, J)
    PROVE  TargetInv(s, K)
<1>1. PacketsPart(s, K)
  BY DEF TargetInv, PacketsPart, PacketIsSound
<1>2. StatusPart(s, K)
  BY DEF TargetInv, StatusPart
<1> QED
  BY <1>1, <1>2 DEF TargetInv

LEMMA JudgeByHandStep ==
    ASSUME RouteInv, JudgeByHand
    PROVE  RouteInv' /\ [Service!Next]_(Service!vars)
<1>0. PICK k \in DOMAIN packets, v \in Verdicts :
          AckControl(k, v) /\ judged' = judged \cup {packets[k].id}
  BY DEF JudgeByHand
<1>1. UNCHANGED routerVars /\ relayer' = relayer /\ acks' = acks /\ batch' = batch
  BY DEF JudgeByHand, relayerVars
<1>2. PICK i, J : i = packets[k].id /\ J = judged \cup {i}
  OBVIOUS
<1>3. /\ packets \in Seq(Packet) /\ Current.packets = packets /\ mode \in Modes
      /\ TargetInv(Current, judged)
  BY DEF RouteInv, TargetInv, TargetState, Current, Modes
<1>4. packets[k] \in Packet
  BY <1>3
<1>5. i \in TransferIDs
  BY <1>2, <1>4 DEF Packet
<1>6. TargetInv(Current, J)
  BY <1>2, <1>3, JudgedGrows
<1>7. PICK t : t = IF v = "timed_out" THEN Current ELSE Execute(k, Current)
  OBVIOUS
<1>8. /\ TargetInv(t, J) /\ DOMAIN t.packets = DOMAIN packets
      /\ \A j \in DOMAIN packets : t.packets[j].id = packets[j].id
                                  /\ (j # k => t.packets[j] = packets[j])
  <2>1. CASE v = "timed_out"
    BY <1>3, <1>6, <1>7, <2>1
  <2>2. CASE v # "timed_out"
    <3>1. t = Execute(k, Current)
      BY <1>7, <2>2
    <3>2. k \in DOMAIN Current.packets /\ Current.packets[k].id \in J
      BY <1>2, <1>3
    <3>3. PICK s : s = Current
      OBVIOUS
    <3> QED
      BY <1>3, <1>6, <3>1, <3>2, <3>3, ExecuteKeeps
  <2> QED
    BY <2>1, <2>2
<1>9. /\ ExecutedIn(Current) \subseteq ExecutedIn(t)
      /\ ExecutedIn(t) \subseteq ExecutedIn(Current) \cup {i}
      /\ \A j \in ExecutedIn(t) \ ExecutedIn(Current) : StatusOf(j) = "pending"
  <2>1. PacketIsSound(Current, packets[k], judged)
    BY <1>3 DEF TargetInv, PacketsPart
  <2>2. CASE v = "timed_out"
    BY <1>7, <2>2
  <2>3. CASE v # "timed_out" /\ packets[k].state = "received"
    <3>1. t = Execute(k, Current)
      BY <1>7, <2>3
    <3>2. k \in DOMAIN Current.packets /\ Current.packets[k].id \in J
      BY <1>2, <1>3
    <3>3. ExecutedIn(t) = ExecutedIn(Current) \cup {i}
      BY <1>2, <1>3, <1>6, <2>3, <3>1, <3>2, ExecuteKeeps
    <3>4. StatusOf(i) = "pending"
      BY <1>2, <2>1, <2>3 DEF PacketIsSound
    <3> QED
      BY <3>3, <3>4
  <2>4. CASE v # "timed_out" /\ packets[k].state # "received"
    <3>1. t = Current
      BY <1>3, <1>7, <2>4 DEF Execute
    <3> QED
      BY <3>1
  <2> QED
    BY <2>2, <2>3, <2>4
<1>10. PICK u : u = WithVerdict(t, k, v)
  OBVIOUS
<1>11. /\ TargetInv(u, J) /\ ExecutedIn(u) = ExecutedIn(t)
       /\ DOMAIN u.packets = DOMAIN packets
       /\ \A j \in DOMAIN packets : u.packets[j].id = packets[j].id
                                   /\ (j # k => u.packets[j] = packets[j])
       /\ u.packets[k].ack = v /\ v # "pending"
  <2>1. k \in DOMAIN t.packets /\ t.packets[k].id \in J /\ t.packets[k].id = i
    BY <1>2, <1>8
  <2>2. v \in {"completed", "failed", "timed_out"}
    BY DeliveryAssumption
  <2>3. /\ TargetInv(u, J) /\ ExecutedIn(u) = ExecutedIn(t)
        /\ DOMAIN u.packets = DOMAIN t.packets
        /\ \A j \in DOMAIN t.packets :
               /\ u.packets[j].id = t.packets[j].id
               /\ j # k => u.packets[j] = t.packets[j]
        /\ u.packets[k].ack = v
    BY <1>8, <1>9, <1>10, <2>1, <2>2, VerdictKeeps
  <2> QED
    BY <1>8, <2>2, <2>3
<1>12. Current' = u /\ packets' = u.packets /\ mode' = mode
  <2>1. Becomes(u) /\ mode' = mode
    BY <1>0, <1>7, <1>10 DEF AckControl, WithVerdict
  <2>2. u \in TargetState
    BY <1>11 DEF TargetInv
  <2>3. u = [packets |-> u.packets, executions |-> u.executions,
             credited |-> u.credited, pool |-> u.pool]
    BY <2>2 DEF TargetState
  <2> QED
    BY <2>1, <2>3 DEF Becomes, Current
<1>13. RelayerTypes'
  BY <1>0, <1>1, <1>2, <1>5 DEF RouteInv, RelayerTypes
<1>14. RelayerPart'
  <2>1. \A n \in DOMAIN acks : \E j \in DOMAIN u.packets : Carries(u.packets[j], acks[n], J)
    <3> SUFFICES ASSUME NEW n \in DOMAIN acks
                 PROVE  \E j \in DOMAIN u.packets : Carries(u.packets[j], acks[n], J)
      OBVIOUS
    <3>1. PICK j \in DOMAIN packets : Carries(packets[j], acks[n], judged)
      BY DEF RouteInv, RelayerPart
    <3>2. CASE j # k
      BY <1>2, <1>11, <3>1, <3>2 DEF Carries
    <3>3. CASE j = k
      BY <1>2, <1>11, <3>1, <3>3 DEF Carries
    <3> QED
      BY <3>2, <3>3
  <2>2. \A j : StatusOf(j)' = StatusOf(j)
    BY <1>1 DEF routerVars, StatusOf
  <2> QED
    BY <1>0, <1>1, <1>2, <1>12, <2>1, <2>2 DEF RouteInv, RelayerPart
<1> QED
  BY <1>0, <1>1, <1>2, <1>5, <1>9, <1>11, <1>12, <1>13, <1>14, TargetMoves

-----------------------------------------------------------------------------
(* The theorems. *)

LEMMA RouteInitially ==
    ASSUME RouteInit
    PROVE  RouteInv /\ Service!Init
<1>1. /\ mode \in TargetModes /\ packets = <<>> /\ executions = <<>>
      /\ credited = [w \in Recipients \X TargetDenoms |-> 0]
      /\ pool = [in |-> ReserveIn, out |-> ReserveOut]
      /\ relayer = "start" /\ acks = <<>> /\ batch = {} /\ judged = {}
  BY DEF RouteInit, TargetInit
<1>2. /\ transfers = [i \in TransferIDs |-> NoTransfer] /\ nextSequence = 1
      /\ routes = [a \in RouteAssets |-> NoRoute]
      /\ routeProfiles = [r \in RouteIDs |-> NoRoute]
  BY DEF RouteInit, RouterInit
<1>3. RouterTypes
  BY <1>2, RouterAssumption DEF RouterTypes
<1>4. \A i \in TransferIDs : StatusOf(i) = "none"
  BY <1>2 DEF StatusOf, NoTransfer
<1>5. /\ Current.packets = <<>> /\ Current.executions = <<>> /\ Current.credited = credited
      /\ Current.pool = [in |-> ReserveIn, out |-> ReserveOut]
      /\ Current = [packets |-> <<>>, executions |-> <<>>, credited |-> credited,
                    pool |-> [in |-> ReserveIn, out |-> ReserveOut]]
  BY <1>1 DEF Current
<1>6. TargetInv(Current, judged)
  <2>1. [in |-> ReserveIn, out |-> ReserveOut] \in Pool
    BY PoolAssumption DEF Pool
  <2>2. credited \in [Recipients \X TargetDenoms -> Nat]
    BY <1>1
  <2>3. Current \in TargetState
    <3>1. <<>> \in Seq(Packet) /\ <<>> \in Seq(ExecutionRecord)
      OBVIOUS
    <3> QED
      BY <1>5, <2>1, <2>2, <3>1 DEF TargetState
  <2>4. PacketsPart(Current, judged) /\ ExecutionsPart(Current)
    BY <1>5 DEF PacketsPart, ExecutionsPart, ExecutedIn
  <2>5. PoolPart(Current)
    <3>1. Swapped(Current) = {}
      BY <1>5 DEF Swapped
    <3>2. Total(Amounts(Current.executions), {}) = 0
      BY TotalOfNone
    <3>3. Current.pool.in = ReserveIn /\ Current.pool.out = ReserveOut
      BY <1>5
    <3>4. ReserveIn * ReserveOut \in Nat
      BY PoolAssumption
    <3>5. Current.pool.in * Current.pool.out >= ReserveIn * ReserveOut
      BY <3>3, <3>4
    <3>6. Current.pool.out + Total(Amounts(Current.executions), Swapped(Current)) = ReserveOut
      BY <3>1, <3>2, <3>3, PoolAssumption
    <3> QED
      BY <3>5, <3>6 DEF PoolPart
  <2>6. StatusPart(Current, judged)
    BY <1>4 DEF StatusPart
  <2> QED
    BY <2>3, <2>4, <2>5, <2>6 DEF TargetInv
<1>7. RelayerTypes /\ RelayerPart
  BY <1>1 DEF RelayerTypes, RelayerPart
<1>8. mode \in {"success", "fail", "timeout", "manual"}
  BY <1>1, PoolAssumption
<1>9. RouteInv
  BY <1>3, <1>6, <1>7, <1>8 DEF RouteInv
<1>10. Service!Init
  BY <1>1, <1>4 DEF Service!Init, Executed
<1> QED
  BY <1>9, <1>10

LEMMA RouteStep ==
    ASSUME RouteInv, [RouteNext]_routeVars
    PROVE  RouteInv' /\ [Service!Next]_(Service!vars)
<1>1. CASE RunRelayer
  BY <1>1, ReadReadyAcksStep, ApplyAckStep, ConfirmAckStep, SubmitTransferStep, QuietSteps
  DEF RunRelayer
<1>2. CASE KilledOrCallFails
  BY <1>2, QuietSteps
<1>3. CASE ZoneStep
  BY <1>3, ZoneStepKeeps
<1>4. CASE JudgeByHand
  BY <1>4, JudgeByHandStep
<1>5. CASE UNCHANGED routeVars
  <2>1. UNCHANGED routerVars /\ UNCHANGED targetVars /\ UNCHANGED relayerVars /\ judged' = judged
    BY <1>5 DEF routeVars, operatorVars
  <2>2. RelayerTypes' /\ RelayerPart'
    BY <2>1 DEF routerVars, targetVars, relayerVars, RouteInv, RelayerTypes, RelayerPart, StatusOf
  <2> QED
    BY <2>1, <2>2, RelayerMoves
<1> QED
  BY <1>1, <1>2, <1>3, <1>4, <1>5 DEF RouteNext

(* The inductive invariant holds in every state that keeper, relayer and
   destination can reach together. *)
THEOREM RouteInvariant == RouteSpec => []RouteInv
<1>1. RouteInit => RouteInv
  BY RouteInitially
<1>2. RouteInv /\ [RouteNext]_routeVars => RouteInv'
  BY RouteStep
<1> QED
  BY <1>1, <1>2, PTL DEF RouteSpec

(* However often a transfer is submitted again after a stop, a lost answer or
   a verdict by hand, the destination executes it at most once
   (findPacketLocked, advanceReceivedPacketsLocked). *)
THEOREM TransfersExecuteOnce == RouteSpec => []ExecutedOnce
<1>1. RouteInv => ExecutedOnce
  BY DEF RouteInv, TargetInv, ExecutionsPart, Current, ExecutedOnce
<1> QED
  BY <1>1, RouteInvariant, PTL

(* For every pool and every fee, the swaps keep the product of the reserves,
   and the output denomination is in the pool or was credited
   (executeSwapLocked, creditBalanceLocked). *)
THEOREM PoolStaysSolvent == RouteSpec => []PoolIsSolvent
<1>1. RouteInv => PoolIsSolvent
  BY DEF RouteInv, TargetInv, PoolPart, Swapped, Current, PoolIsSolvent
<1> QED
  BY <1>1, RouteInvariant, PTL

(* What the zone says of a transfer nobody judged by hand is what happened to
   it on the destination (applyAck, advancePacketAfterExecutionLocked). *)
THEOREM StatusesAreTruthful == RouteSpec => []StatusIsTruthful
<1>1. RouteInv => StatusIsTruthful
  BY DEF RouteInv, TargetInv, StatusPart, SucceededIn, Current, StatusIsTruthful
<1> QED
  BY <1>1, RouteInvariant, PTL

(* Keeper, relayer and destination implement the routing service: every step
   of theirs is a step of the service or none, with the statuses of the zone
   and the executions of the destination as its state. *)
THEOREM RoutingImplementsService == RouteSpec => ImplementsService
<1>1. RouteInit => Service!Init
  BY RouteInitially
<1>2. RouteInv /\ [RouteNext]_routeVars => [Service!Next]_(Service!vars)
  BY RouteStep
<1> QED
  BY <1>1, <1>2, RouteInvariant, PTL DEF RouteSpec, ImplementsService, Service!Spec

-----------------------------------------------------------------------------
(* Automatic delivery.  The search by terms stands in for a record of what    *)
(* was sent, so the invariant says where the terms of a deposit may be found, *)
(* that an intent in the hands of a run stays registered, and where a          *)
(* transaction for it may be.                                                 *)

(* What is kept of an intent, in the file or in a copy of it, was posted. *)
FileIsAsked(f) ==
    /\ DOMAIN f = Deposits
    /\ \A d \in Deposits : f[d] # NoIntent => f[d].terms \in asked[d]

PostsPart ==
    /\ DOMAIN asked = Deposits
    /\ \A d \in Deposits : asked[d] \subseteq Terms(d) /\ IsFiniteSet(asked[d])
    /\ DOMAIN posting = Deposits
    /\ \A d \in Deposits : posting[d] # NoPost =>
           /\ posting[d].terms \in asked[d] /\ posting[d].transfer \in PostedIDs[d]
           /\ FileIsAsked(posting[d].file)
    /\ FileIsAsked(intents)
    /\ FileIsAsked(file)

RunItem == [deposit : Deposits, terms : UNION {Terms(d) : d \in Deposits}]

(* The run holds intents that were posted, and one at least while it works. *)
TodoPart ==
    /\ todo \in Seq(RunItem)
    /\ \A n \in DOMAIN todo : todo[n].terms \in asked[todo[n].deposit]
    /\ pc \notin {"down", "idle"} => todo # <<>>
    /\ transferID \in TransferIDs \cup {NoTransferID}

(* Unless registrations overlapped, no intent that the run holds left the file. *)
RegisteredPart ==
    ~overlapped => \A n \in DOMAIN todo : intents[todo[n].deposit] # NoIntent

(* The claim behind what is about to be submitted was found. *)
AppliedPart == pc = "submit" => CurrentIntent.deposit \in applied

(* Each transfer and each transaction is warranted by its deposit. *)
TermsPart ==
    /\ nextSequence \in Nat \ {0}
    /\ DOMAIN transfers = TransferIDs
    /\ \A i \in TransferIDs : i >= nextSequence => transfers[i] = NoTransfer
    /\ \A i \in Existing : StatusOf(i) \in {"pending", "ack_failed"}
    /\ \A d \in Deposits : \A i \in TransfersFor(d) :
           Warranted(d, transfers[i].asset, transfers[i].amount, transfers[i].receiver)
    /\ \A tx \in mempool :
           /\ tx.deposit \in Deposits
           /\ Warranted(tx.deposit, tx.payload.asset, tx.payload.amount, tx.payload.receiver)

(* The deposits that OneTransferPerDeposit speaks of. *)
Steady(d) ==
    /\ d \notin unanswered /\ ~overlapped
    /\ \A s, t \in asked[d] : s = t
    /\ \A t \in asked[d] : Recognised(d, t)

(* Such a deposit has one transfer, failed or not; a transaction for it in the
   pool is the one the coordinator waits for; and while the coordinator is about
   to submit or waits, there is none. *)
SentOnce(d) ==
    /\ \A i, j \in TransfersFor(d) : i = j
    /\ \A tx \in mempool : tx.deposit = d => Awaited(tx) /\ CurrentIntent.deposit = d
    /\ pc \in {"submit", "wait"} /\ CurrentIntent.deposit = d => TransfersFor(d) = {}

OncePart == \A d \in Deposits : Steady(d) => SentOnce(d)

AutoInv ==
    /\ PostsPart
    /\ TodoPart
    /\ RegisteredPart
    /\ AppliedPart
    /\ TermsPart
    /\ OncePart

(* A deposit that is steady after a step was so before it, and what warranted a
   transfer still does. *)
Grows ==
    /\ applied \subseteq applied'
    /\ unanswered \subseteq unanswered'
    /\ \A d \in Deposits : asked[d] \subseteq asked'[d]
    /\ overlapped => overlapped'

LEMMA SteadyBefore ==
    ASSUME Grows, NEW d \in Deposits, Steady(d)'
    PROVE  Steady(d)
  BY DEF Grows, Steady, Recognised

LEMMA WarrantStays ==
    ASSUME Grows, NEW d \in Deposits, NEW a, NEW n, NEW r, Warranted(d, a, n, r)
    PROVE  Warranted(d, a, n, r)'
  BY DEF Grows, Warranted

(* The item that the run works on is the first that it holds. *)
LEMMA TodoTyped ==
    ASSUME TodoPart
    PROVE  /\ Len(todo) \in Nat /\ DOMAIN todo = 1 .. Len(todo)
           /\ \A n \in DOMAIN todo : todo[n] \in RunItem /\ todo[n].deposit \in Deposits
           /\ todo # <<>> => 1 \in DOMAIN todo /\ CurrentIntent = todo[1]
<1>1. todo \in Seq(RunItem)
  BY DEF TodoPart
<1>2. Len(todo) \in Nat /\ DOMAIN todo = 1 .. Len(todo)
  BY <1>1, LenProperties
<1>3. \A n \in DOMAIN todo : todo[n] \in RunItem
  BY <1>1, <1>2, ElementOfSeq
<1>4. \A n \in DOMAIN todo : todo[n].deposit \in Deposits
  BY <1>3 DEF RunItem
<1>5. todo # <<>> => 1 \in DOMAIN todo /\ CurrentIntent = todo[1]
  BY <1>1, <1>2, EmptySeq DEF CurrentIntent
<1> QED
  BY <1>2, <1>3, <1>4, <1>5

(* A step that leaves the files, the posts and what was asked alone. *)
LEMMA PostsStay ==
    ASSUME PostsPart, UNCHANGED <<asked, posting, intents, file>>
    PROVE  PostsPart'
  BY DEF PostsPart, FileIsAsked

(* Nothing is initiated, and transactions may leave the pool. *)
LEMMA TermsStay ==
    ASSUME TermsPart, Grows, UNCHANGED <<transfers, nextSequence>>, mempool' \subseteq mempool
    PROVE  TermsPart'
<1>1. /\ Existing' = Existing /\ \A d : TransfersFor(d)' = TransfersFor(d)
      /\ \A i : StatusOf(i)' = StatusOf(i)
  BY DEF Existing, TransfersFor, StatusOf
<1>2. ASSUME NEW d \in Deposits, NEW i \in TransfersFor(d)
      PROVE  Warranted(d, transfers[i].asset, transfers[i].amount, transfers[i].receiver)'
  <2>1. Warranted(d, transfers[i].asset, transfers[i].amount, transfers[i].receiver)
    BY DEF TermsPart
  <2> QED
    BY <2>1 DEF Grows, Warranted
<1>3. ASSUME NEW tx \in mempool'
      PROVE  /\ tx.deposit \in Deposits
             /\ Warranted(tx.deposit, tx.payload.asset, tx.payload.amount, tx.payload.receiver)'
  <2>1. /\ tx.deposit \in Deposits
        /\ Warranted(tx.deposit, tx.payload.asset, tx.payload.amount, tx.payload.receiver)
    BY DEF TermsPart
  <2> QED
    BY <2>1, WarrantStays
<1> QED
  BY <1>1, <1>2, <1>3 DEF TermsPart

(* Neither the file nor what the run holds changes. *)
LEMMA RegisteredStays ==
    ASSUME RegisteredPart, UNCHANGED <<overlapped, intents, todo>>
    PROVE  RegisteredPart'
  BY DEF RegisteredPart

(* The run holds what it held. *)
LEMMA TodoStays ==
    ASSUME TodoPart, UNCHANGED <<todo, asked, transferID>>,
           pc' \notin {"down", "idle"} => pc \notin {"down", "idle"}
    PROVE  TodoPart'
  BY DEF TodoPart

(* The run does not come to submit another intent. *)
LEMMA AppliedStays ==
    ASSUME AppliedPart, Grows, pc' = "submit" => UNCHANGED <<pc, todo>>
    PROVE  AppliedPart'
  BY DEF AppliedPart, Grows, CurrentIntent

(* The run ends, and handlers may end with it. *)
LEMMA EndKeeps ==
    ASSUME AutoInv, NEW place \in {"down", "idle"}, EndRun(place), UNCHANGED <<asked, intents>>,
           posting' = posting \/ posting' = [d \in Deposits |-> NoPost]
    PROVE  PostsPart' /\ TodoPart' /\ RegisteredPart' /\ AppliedPart'
<1>1. /\ pc' = place /\ todo' = <<>> /\ transferID' = NoTransferID /\ file' = NoFile
      /\ pc' # "submit" /\ pc' \in {"down", "idle"}
  BY DEF EndRun
<1>2. PostsPart'
  <2>1. FileIsAsked(intents)' /\ FileIsAsked(file)'
    BY <1>1 DEF AutoInv, PostsPart, FileIsAsked, NoFile
  <2>2. DOMAIN posting' = Deposits
    BY DEF AutoInv, PostsPart
  <2>3. ASSUME NEW d \in Deposits, posting'[d] # NoPost
        PROVE  /\ posting'[d].terms \in asked'[d] /\ posting'[d].transfer \in PostedIDs[d]
               /\ FileIsAsked(posting[d].file)'
    <3>1. posting' = posting
      BY <2>3
    <3> QED
      BY <2>3, <3>1 DEF AutoInv, PostsPart, FileIsAsked
  <2> QED
    BY <2>1, <2>2, <2>3 DEF AutoInv, PostsPart
<1>3. <<>> \in Seq(RunItem) /\ DOMAIN <<>> = {}
  OBVIOUS
<1>4. TodoPart'
  BY <1>1, <1>3 DEF TodoPart
<1>5. RegisteredPart'
  BY <1>1, <1>3 DEF RegisteredPart
<1>6. AppliedPart'
  BY <1>1 DEF AppliedPart
<1> QED
  BY <1>2, <1>4, <1>5, <1>6

(* Nothing is sent and the coordinator stays where it is. *)
LEMMA OnceStays ==
    ASSUME OncePart, Grows, UNCHANGED <<transfers, mempool, pc, todo, timeoutHeight>>
    PROVE  OncePart'
<1> SUFFICES ASSUME NEW d \in Deposits, Steady(d)' PROVE SentOnce(d)'
  BY DEF OncePart
<1>1. SentOnce(d)
  BY SteadyBefore DEF OncePart
<1> QED
  BY <1>1 DEF SentOnce, TransfersFor, Existing, Awaited, TxOf, CurrentIntent

(* The coordinator moves on, and neither waits for a transaction nor comes to
   submit one. *)
LEMMA OnceMoves ==
    ASSUME OncePart, Grows, UNCHANGED <<transfers, mempool>>,
           pc # "wait", pc' \notin {"submit", "wait"}
    PROVE  OncePart'
<1> SUFFICES ASSUME NEW d \in Deposits, Steady(d)' PROVE SentOnce(d)'
  BY DEF OncePart
<1>1. SentOnce(d)
  BY SteadyBefore DEF OncePart
<1> QED
  BY <1>1 DEF SentOnce, TransfersFor, Existing, Awaited

-----------------------------------------------------------------------------
(* The users. *)

(* Claims, coins spent elsewhere, the bridge run and the destination's clock
   leave intents, runs and transfers alone. *)
LEMMA UsersKeep ==
    ASSUME AutoInv,
           \/ \E d \in Deposits : ProcessClaim(d)
           \/ \E w \in Wallets \X RouteAssets : Spend(w)
           \/ DestinationAdvances \/ BreakBridge
    PROVE  AutoInv'
<1>1. /\ UNCHANGED <<asked, posting, intents, file, overlapped>>
      /\ UNCHANGED <<transfers, nextSequence, mempool>>
      /\ UNCHANGED <<todo, transferID, pc, timeoutHeight, unanswered>>
      /\ applied \subseteq applied'
  BY DEF ProcessClaim, Spend, DestinationAdvances, BreakBridge,
         routerVars, zoneVars, intentVars, runVars
<1>2. Grows
  BY <1>1 DEF Grows
<1>3. OncePart'
  BY <1>1, <1>2, OnceStays DEF AutoInv
<1> QED
  BY <1>1, <1>2, <1>3, PostsStay, TermsStay, RegisteredStays, AppliedStays, TodoStays DEF AutoInv

(* A registration begins: what is asked grows, and the copy is the file. *)
LEMMA LoadKeeps ==
    ASSUME AutoInv, NEW d \in Deposits, NEW terms \in Terms(d),
           NEW id \in PostedIDs[d], LoadIntents(d, terms, id)
    PROVE  AutoInv'
<1> USE DEF AutoInv
<1>1. /\ UNCHANGED <<intents, file, overlapped>>
      /\ UNCHANGED <<transfers, nextSequence, mempool>>
      /\ UNCHANGED <<todo, transferID, pc, timeoutHeight, unanswered, applied>>
  BY DEF LoadIntents, routerVars, zoneVars, runVars
<1>2. /\ DOMAIN asked = Deposits /\ DOMAIN posting = Deposits
      /\ DOMAIN asked' = Deposits /\ DOMAIN posting' = Deposits
      /\ asked'[d] = asked[d] \cup {terms}
      /\ posting'[d] = [terms |-> terms, transfer |-> id, file |-> intents]
      /\ \A e \in Deposits : e # d => asked'[e] = asked[e] /\ posting'[e] = posting[e]
  BY DEF LoadIntents, PostsPart
<1>3. \A e \in Deposits : asked[e] \subseteq asked'[e]
  BY <1>2
<1>4. Grows
  BY <1>1, <1>3 DEF Grows
<1>5. ASSUME NEW f, FileIsAsked(f) PROVE FileIsAsked(f)'
  BY <1>3, <1>5 DEF FileIsAsked
<1>6. FileIsAsked(intents) /\ FileIsAsked(file)
  BY DEF PostsPart
<1>7. FileIsAsked(intents)' /\ FileIsAsked(file)'
  BY <1>1, <1>3, <1>6 DEF FileIsAsked
<1>8. ASSUME NEW e \in Deposits PROVE asked'[e] \subseteq Terms(e) /\ IsFiniteSet(asked'[e])
  <2>1. asked[e] \subseteq Terms(e) /\ IsFiniteSet(asked[e])
    BY DEF PostsPart
  <2>2. IsFiniteSet(asked[e] \cup {terms})
    BY <2>1, FS_AddElement
  <2> QED
    BY <1>2, <2>1, <2>2
<1>9. ASSUME NEW e \in Deposits, posting'[e] # NoPost
      PROVE  /\ posting'[e].terms \in asked'[e] /\ posting'[e].transfer \in PostedIDs[e]
             /\ FileIsAsked(posting[e].file)'
  <2>1. CASE e = d
    <3>1. /\ posting'[e].terms = terms /\ posting'[e].transfer = id
          /\ posting'[e].file = intents'
      BY <1>1, <1>2, <2>1
    <3> QED
      BY <1>2, <1>7, <2>1, <3>1 DEF FileIsAsked
  <2>2. CASE e # d
    <3>1. posting'[e] = posting[e]
      BY <1>2, <2>2
    <3>2. /\ posting[e].terms \in asked[e] /\ posting[e].transfer \in PostedIDs[e]
          /\ FileIsAsked(posting[e].file)
      BY <1>9, <3>1 DEF PostsPart
    <3> QED
      BY <1>3, <3>1, <3>2 DEF FileIsAsked
  <2> QED
    BY <2>1, <2>2
<1>10. PostsPart'
  BY <1>2, <1>7, <1>8, <1>9 DEF PostsPart
<1>11. TodoPart'
  <2>1. TodoPart
    OBVIOUS
  <2>2. \A n \in DOMAIN todo : todo[n].deposit \in Deposits
    BY <2>1, TodoTyped
  <2> QED
    BY <1>1, <1>3, <2>1, <2>2 DEF TodoPart
<1>12. TermsPart' /\ AppliedPart'
  BY <1>1, <1>4, TermsStay, AppliedStays
<1>13. OncePart'
  BY <1>1, <1>4, OnceStays
<1> QED
  BY <1>1, <1>10, <1>11, <1>12, <1>13, RegisteredStays

(* What a registration writes: one intent is new, the others are those that it
   loaded. *)
LEMMA WrittenIsAsked ==
    ASSUME PostsPart, NEW f, FileIsAsked(f), NEW d \in Deposits, NEW t \in asked[d],
           NEW id \in TransferIDs \cup {NoTransferID},
           intents' = WithIntent(f, d, IntentWith(t, id)), UNCHANGED asked
    PROVE  /\ FileIsAsked(intents)'
           /\ intents'[d] # NoIntent
           /\ \A e \in Deposits : f[e] # NoIntent => intents'[e] # NoIntent
<1>1. /\ DOMAIN intents' = Deposits
      /\ intents'[d] = IntentWith(t, id)
      /\ \A e \in Deposits : e # d => intents'[e] = f[e]
  BY DEF WithIntent, FileIsAsked
<1>2. IntentWith(t, id) \in Intents(d)
  BY DEF Intents, PostsPart
<1>3. IntentWith(t, id) # NoIntent
  BY <1>2, AutoAssumption
<1>4. IntentWith(t, id).terms = t
  BY DEF IntentWith
<1>5. FileIsAsked(intents)'
  BY <1>1, <1>4 DEF FileIsAsked
<1> QED
  BY <1>1, <1>3, <1>5

(* A registration ends: if no other came in between, the file lost nothing. *)
LEMMA SaveKeeps ==
    ASSUME AutoInv, NEW d \in Deposits, SaveIntents(d)
    PROVE  AutoInv'
<1> USE DEF AutoInv
<1>1. /\ UNCHANGED <<asked, file>>
      /\ UNCHANGED <<transfers, nextSequence, mempool>>
      /\ UNCHANGED <<todo, transferID, pc, timeoutHeight, unanswered, applied>>
      /\ overlapped' = (overlapped \/ posting[d].file # intents)
  BY DEF SaveIntents, routerVars, zoneVars, runVars
<1>2. /\ posting[d].terms \in asked[d] /\ FileIsAsked(posting[d].file)
      /\ posting[d].transfer \in TransferIDs \cup {NoTransferID}
  BY AutoAssumption DEF SaveIntents, PostsPart
<1>3. intents' = WithIntent(posting[d].file, d,
                            IntentWith(posting[d].terms, posting[d].transfer))
  BY DEF SaveIntents
<1>4. /\ FileIsAsked(intents)'
      /\ intents'[d] # NoIntent
      /\ \A e \in Deposits : posting[d].file[e] # NoIntent => intents'[e] # NoIntent
  BY <1>1, <1>2, <1>3, WrittenIsAsked
<1>5. PostsPart'
  <2>1. /\ DOMAIN posting = Deposits /\ DOMAIN posting' = Deposits
        /\ posting'[d] = NoPost
        /\ \A e \in Deposits : e # d => posting'[e] = posting[e]
    BY DEF SaveIntents, PostsPart
  <2>2. ASSUME NEW e \in Deposits, posting'[e] # NoPost
        PROVE  /\ posting'[e].terms \in asked'[e] /\ posting'[e].transfer \in PostedIDs[e]
               /\ FileIsAsked(posting[e].file)'
    <3>1. posting'[e] = posting[e]
      BY <2>1, <2>2
    <3>2. /\ posting[e].terms \in asked[e] /\ posting[e].transfer \in PostedIDs[e]
          /\ FileIsAsked(posting[e].file)
      BY <2>2, <3>1 DEF PostsPart
    <3> QED
      BY <1>1, <3>1, <3>2 DEF FileIsAsked
  <2>3. FileIsAsked(file)'
    BY <1>1 DEF PostsPart, FileIsAsked
  <2> QED
    BY <1>1, <1>4, <2>1, <2>2, <2>3 DEF PostsPart
<1>6. RegisteredPart'
  <2>1. \A n \in DOMAIN todo : todo[n].deposit \in Deposits
    BY TodoTyped
  <2> SUFFICES ASSUME ~overlapped'
               PROVE  \A n \in DOMAIN todo' : intents'[todo'[n].deposit] # NoIntent
    BY DEF RegisteredPart
  <2>2. ~overlapped /\ posting[d].file = intents
    BY <1>1
  <2> QED
    BY <1>1, <1>4, <2>1, <2>2 DEF RegisteredPart
<1>7. Grows
  BY <1>1 DEF Grows
<1>8. OncePart'
  BY <1>1, <1>7, OnceStays
<1> QED
  BY <1>1, <1>5, <1>6, <1>7, <1>8, TodoStays, TermsStay, AppliedStays

-----------------------------------------------------------------------------
(* The search for the transfer of a deposit. *)

(* Of the transfers with the terms of an intent there is a best one, unless the
   intent names another. *)
LEMMA SearchFinds ==
    ASSUME TermsPart, NEW d \in Deposits, MatchingTransfers(d) # {}
    PROVE  FindTransferForClaim(d) # {}
<1>0. CASE NamedTransfer(d) # {}
  BY <1>0 DEF FindTransferForClaim
<1> SUFFICES ASSUME NamedTransfer(d) = {} PROVE FindTransferForClaim(d) # {}
  BY <1>0
<1> DEFINE M == MatchingTransfers(d)
           weight(i) == statusWeight[StatusOf(i)]
           Best == {i \in M : \A j \in M : weight(i) >= weight(j)}
<1>1. M \subseteq Existing /\ M \subseteq TransferIDs
  BY DEF MatchingTransfers, Existing
<1>2. \A i \in M : StatusOf(i) = "pending" \/ StatusOf(i) = "ack_failed"
  BY <1>1 DEF TermsPart
<1>3. \A i \in M : weight(i) \in {2, 3}
  BY <1>2 DEF statusWeight
<1>4. Best # {}
  BY <1>3
<1>5. Best \in SUBSET Nat /\ IsFiniteSet(Best)
  <2>1. IsFiniteSet(TransferIDs) /\ TransferIDs \subseteq Nat
    BY RouterAssumption, FS_Interval DEF TransferIDs
  <2>2. Best \subseteq TransferIDs
    BY <1>1
  <2> QED
    BY <2>1, <2>2, FS_Subset
<1>6. PICK i \in Best : \A j \in Best : i >= j
  <2> HIDE DEF Best
  <2> QED BY <1>4, <1>5, GreatestNatural
<1>7. ASSUME NEW j \in M \ {i}
      PROVE  weight(i) > weight(j) \/ (weight(i) = weight(j) /\ i > j)
  <2>1. weight(i) \in {2, 3} /\ weight(j) \in {2, 3} /\ weight(i) >= weight(j)
    BY <1>3
  <2>2. CASE weight(i) = weight(j)
    <3>1. j \in Best
      BY <2>2
    <3>2. i \in Nat /\ j \in Nat /\ i >= j
      BY <1>5, <1>6, <3>1
    <3> QED
      BY <2>2, <3>2
  <2>3. CASE weight(i) # weight(j)
    BY <2>1, <2>3
  <2> QED
    BY <2>2, <2>3
<1>8. i \in M
  OBVIOUS
<1> HIDE DEF Best, M
<1>9. i \in {k \in M : \A j \in M \ {k} : weight(k) > weight(j) \/ (weight(k) = weight(j) /\ k > j)}
  BY <1>7, <1>8
<1> QED
  BY <1>9 DEF FindTransferForClaim, M

(* A steady deposit whose search comes to nothing has no transfer. *)
LEMMA NothingWasSent ==
    ASSUME AutoInv, NEW d \in Deposits, Steady(d), intents[d] # NoIntent,
           NEW found \in BOOLEAN,
           ResolveBridgeSessionView(d, found) = "aegislink_processing"
    PROVE  TransfersFor(d) = {}
<1>1. FindTransferForClaim(d) = {}
  BY DEF ResolveBridgeSessionView
<1>2. MatchingTransfers(d) = {}
  BY <1>1, SearchFinds DEF AutoInv
<1>3. intents[d].terms \in asked[d]
  BY DEF AutoInv, PostsPart, FileIsAsked
<1>4. ASSUME NEW i \in TransfersFor(d) PROVE FALSE
  <2>0. Warranted(d, transfers[i].asset, transfers[i].amount, transfers[i].receiver)
    BY DEF AutoInv, TermsPart
  <2>1. PICK t \in asked[d] : /\ t.asset = transfers[i].asset
                              /\ t.amount = transfers[i].amount
                              /\ t.receiver = transfers[i].receiver
    BY <2>0 DEF Warranted
  <2>2. t = intents[d].terms /\ t.canonical /\ t.asset = DepositOf[d].asset
    BY <1>3 DEF Steady, Recognised
  <2>3. i \in MatchingTransfers(d)
    BY <2>1, <2>2 DEF MatchingTransfers, TransfersFor
  <2> QED
    BY <1>2, <2>3
<1> QED
  BY <1>4

-----------------------------------------------------------------------------
(* The coordinator. *)

(* The run drops the intent it has finished with. *)
LEMMA NextIntentKeeps ==
    ASSUME AutoInv, todo # <<>>, NextIntent,
           UNCHANGED <<asked, posting, intents, overlapped, transfers>>,
           UNCHANGED <<nextSequence, mempool, file, transferID, unanswered, applied>>,
           pc # "wait"
    PROVE  AutoInv'
<1> USE DEF AutoInv
<1>1. /\ Len(todo) \in Nat /\ DOMAIN todo = 1 .. Len(todo)
      /\ todo \in Seq(RunItem)
  BY TodoTyped DEF TodoPart
<1>2. todo' = Tail(todo)
  BY DEF NextIntent
<1>3. /\ todo' \in Seq(RunItem)
      /\ Len(todo') = Len(todo) - 1
      /\ \A n \in 1 .. Len(todo') : todo'[n] = todo[n + 1]
  BY <1>1, <1>2, HeadTailProperties, EmptySeq
<1>4. DOMAIN todo' = 1 .. Len(todo')
  BY <1>3, LenProperties
<1>5. ASSUME NEW n \in DOMAIN todo'
      PROVE  n + 1 \in DOMAIN todo /\ todo'[n] = todo[n + 1]
  BY <1>1, <1>3, <1>4
<1>6. pc' = "query" => Len(todo') > 0
  BY <1>1, <1>3 DEF NextIntent
<1>7. pc' \in {"query", "idle"}
  BY DEF NextIntent
<1>8. pc' # "idle" => todo' # <<>>
  BY <1>3, <1>6, <1>7
<1>9. TodoPart'
  BY <1>3, <1>5, <1>7, <1>8 DEF TodoPart
<1>10. RegisteredPart'
  BY <1>5 DEF RegisteredPart
<1>11. Grows
  BY DEF Grows
<1>12. OncePart'
  BY <1>7, <1>11, OnceMoves
<1>13. AppliedPart'
  BY <1>7 DEF AppliedPart
<1> QED
  BY <1>9, <1>10, <1>11, <1>12, <1>13, PostsStay, TermsStay

(* A process that starts has nothing in its hands. *)
LEMMA StartKeeps ==
    ASSUME AutoInv, NEW answers \in BOOLEAN, StartProcess(answers)
    PROVE  AutoInv'
<1> USE DEF AutoInv
<1>1. /\ UNCHANGED <<asked, posting, intents, file, overlapped>>
      /\ UNCHANGED <<transfers, nextSequence, mempool>>
      /\ UNCHANGED <<todo, transferID, unanswered, applied>>
      /\ pc = "down" /\ pc' = "idle"
  BY DEF StartProcess, Quiet, routerVars, zoneVars, intentVars
<1>2. Grows
  BY <1>1 DEF Grows
<1>3. OncePart'
  BY <1>1, <1>2, OnceMoves
<1> QED
  BY <1>1, <1>2, <1>3, PostsStay, TermsStay, RegisteredStays, AppliedStays, TodoStays

(* A run takes over every intent that the file holds. *)
LEMMA StartRunKeeps ==
    ASSUME AutoInv, StartRun
    PROVE  AutoInv'
<1> USE DEF AutoInv
<1> DEFINE registered == {d \in Deposits : intents[d] # NoIntent}
<1>1. /\ UNCHANGED <<asked, posting, intents, file, overlapped>>
      /\ UNCHANGED <<transfers, nextSequence, mempool>>
      /\ UNCHANGED <<transferID, unanswered, applied>>
      /\ pc = "idle" /\ pc' = "query" /\ registered # {}
  BY DEF StartRun, Quiet, routerVars, zoneVars, intentVars
<1>2. PICK order \in [1 .. Cardinality(registered) -> registered] :
          todo' = [i \in DOMAIN order |-> [deposit |-> order[i],
                                          terms |-> intents[order[i]].terms]]
  BY DEF StartRun
<1>3. Cardinality(registered) \in Nat /\ Cardinality(registered) # 0
  <2>1. IsFiniteSet(registered)
    BY AutoAssumption, FS_Subset
  <2> QED
    BY <1>1, <2>1, FS_CardinalityType, FS_EmptySet
<1> DEFINE N == Cardinality(registered)
<1>4. DOMAIN order = 1 .. N
  OBVIOUS
<1>5. ASSUME NEW n \in 1 .. N
      PROVE  /\ todo'[n] = [deposit |-> order[n], terms |-> intents[order[n]].terms]
             /\ order[n] \in Deposits /\ intents[order[n]] # NoIntent
             /\ intents[order[n]].terms \in asked[order[n]]
             /\ intents[order[n]].terms \in Terms(order[n])
  <2>1. order[n] \in registered
    OBVIOUS
  <2>2. intents[order[n]].terms \in asked[order[n]]
    BY <2>1 DEF PostsPart, FileIsAsked
  <2> QED
    BY <1>2, <1>4, <2>1, <2>2 DEF PostsPart
<1>6. todo' = [i \in 1 .. N |-> [deposit |-> order[i], terms |-> intents[order[i]].terms]]
  BY <1>2, <1>4
<1> HIDE DEF registered, N
<1>7. N \in Nat /\ N # 0
  BY <1>3 DEF N
<1>8. ASSUME NEW n \in 1 .. N PROVE todo'[n] \in RunItem
  <2>1. order[n] \in Deposits
    BY <1>5
  <2> DEFINE All == {Terms(d) : d \in Deposits}
  <2>2. intents[order[n]].terms \in UNION All
    <3>1. Terms(order[n]) \in All
      BY <2>1, Zenon
    <3>2. intents[order[n]].terms \in Terms(order[n])
      BY <1>5
    <3> HIDE DEF All
    <3> QED
      BY <3>1, <3>2
  <2>3. [deposit |-> order[n], terms |-> intents[order[n]].terms] \in RunItem
    BY <2>1, <2>2 DEF RunItem
  <2> QED
    BY <1>5, <2>3
<1>9. todo' \in [1 .. N -> RunItem]
  BY <1>6, <1>8
<1>10. todo' \in Seq(RunItem) /\ DOMAIN todo' = 1 .. N
  BY <1>7, <1>9, SeqDef
<1>11. todo' # <<>>
  <2>1. Len(todo') = N
    BY <1>7, <1>10, LenProperties
  <2> QED
    BY <1>7, <1>10, <2>1, EmptySeq
<1>12. \A n \in DOMAIN todo' : todo'[n].terms \in asked[todo'[n].deposit]
                               /\ intents[todo'[n].deposit] # NoIntent
  BY <1>5, <1>10
<1>13. TodoPart'
  BY <1>1, <1>10, <1>11, <1>12 DEF TodoPart
<1>14. RegisteredPart'
  BY <1>1, <1>12 DEF RegisteredPart
<1>15. Grows
  BY <1>1 DEF Grows
<1>16. OncePart'
  BY <1>1, <1>15, OnceMoves
<1>17. AppliedPart'
  BY <1>1 DEF AppliedPart
<1> QED
  BY <1>1, <1>13, <1>14, <1>15, <1>16, <1>17, PostsStay, TermsStay

(* The status is asked for a deposit that is still registered, so a steady one
   that is about to be submitted has no transfer. *)
LEMMA QueryKeeps ==
    ASSUME AutoInv, NEW found \in BOOLEAN, QueryStatus(found)
    PROVE  AutoInv'
<1> USE DEF AutoInv
<1>1. /\ UNCHANGED <<asked, posting, intents, file, overlapped>>
      /\ UNCHANGED <<transfers, nextSequence, mempool>>
      /\ UNCHANGED <<transferID, unanswered, applied>>
      /\ pc = "query"
  BY DEF QueryStatus, Quiet, routerVars, zoneVars, intentVars
<1>2. todo # <<>>
  BY <1>1 DEF TodoPart
<1>3. Grows
  BY <1>1 DEF Grows
<1> DEFINE status == ResolveBridgeSessionView(CurrentIntent.deposit, found)
<1>4. \/ status = "aegislink_processing" /\ pc' = "submit" /\ todo' = todo
      \/ pc' = "flush" /\ todo' = todo
      \/ NextIntent
  <2>1. CASE status = "aegislink_processing"
    BY <2>1 DEF QueryStatus
  <2>2. CASE status = "osmosis_pending"
    BY <2>2 DEF QueryStatus
  <2>3. CASE status # "aegislink_processing" /\ status # "osmosis_pending"
    BY <2>3 DEF QueryStatus
  <2> QED
    BY <2>1, <2>2, <2>3
<1>5. CASE NextIntent
  BY <1>1, <1>2, <1>5, NextIntentKeeps
<1>6. CASE pc' = "flush" /\ todo' = todo
  <2>1. OncePart'
    BY <1>1, <1>3, <1>6, OnceMoves
  <2> QED
    BY <1>1, <1>3, <1>6, <2>1, PostsStay, TermsStay, RegisteredStays, AppliedStays, TodoStays
<1>7. CASE status = "aegislink_processing" /\ pc' = "submit" /\ todo' = todo
  <2>1. ASSUME NEW d \in Deposits, Steady(d)' PROVE SentOnce(d)'
    <3>1. Steady(d) /\ SentOnce(d)
      BY <1>3, <2>1, SteadyBefore DEF OncePart
    <3>2. \A tx \in mempool : tx.deposit # d
      BY <1>1, <3>1 DEF SentOnce, Awaited
    <3>3. CurrentIntent.deposit = d => TransfersFor(d) = {}
      <4> SUFFICES ASSUME CurrentIntent.deposit = d PROVE TransfersFor(d) = {}
        OBVIOUS
      <4>1. intents[d] # NoIntent
        BY <1>2, <3>1, TodoTyped DEF RegisteredPart, Steady
      <4>2. ResolveBridgeSessionView(d, found) = "aegislink_processing"
        BY <1>7
      <4> QED
        BY <3>1, <4>1, <4>2, NothingWasSent
    <3>4. TransfersFor(d)' = TransfersFor(d)
      BY <1>1 DEF TransfersFor, Existing
    <3>5. CurrentIntent' = CurrentIntent
      BY <1>7 DEF CurrentIntent
    <3> QED
      BY <1>1, <3>1, <3>2, <3>3, <3>4, <3>5 DEF SentOnce
  <2>2. OncePart'
    BY <2>1 DEF OncePart
  <2>3. AppliedPart'
    <3>1. CurrentIntent.deposit \in applied
      BY <1>7 DEF ResolveBridgeSessionView
    <3> QED
      BY <1>1, <1>7, <3>1 DEF AppliedPart, CurrentIntent
  <2> QED
    BY <1>1, <1>3, <1>7, <2>2, <2>3, PostsStay, TermsStay, RegisteredStays, TodoStays
<1> QED
  BY <1>4, <1>5, <1>6, <1>7

(* What is submitted is the one transaction for its deposit. *)
LEMMA SubmitKeeps ==
    ASSUME AutoInv, Submit
    PROVE  AutoInv'
<1> USE DEF AutoInv
<1>1. /\ UNCHANGED <<asked, posting, intents, overlapped>>
      /\ UNCHANGED <<transfers, nextSequence>>
      /\ UNCHANGED <<unanswered, applied, timeoutHeight>>
      /\ pc = "submit"
  BY DEF Submit, routerVars, intentVars
<1>2. todo # <<>>
  BY <1>1 DEF TodoPart
<1>3. Grows
  BY <1>1 DEF Grows
<1>4. CASE TxOf(CurrentIntent) \in txCache
  <2>1. EndRun("down") /\ pc' = "down" /\ mempool' = mempool
    BY <1>4 DEF Submit, EndRun
  <2>2. OncePart'
    BY <1>1, <1>3, <2>1, OnceMoves
  <2> QED
    BY <1>1, <1>3, <2>1, <2>2, EndKeeps, TermsStay
<1>5. CASE TxOf(CurrentIntent) \notin txCache
  <2> DEFINE new == TxOf(CurrentIntent)
  <2>1. /\ pc' = "wait" /\ mempool' = mempool \cup {new}
        /\ UNCHANGED <<todo, transferID, file>>
    BY <1>5 DEF Submit
  <2>2. /\ new.deposit = CurrentIntent.deposit /\ new.deposit \in Deposits
        /\ CurrentIntent.terms \in asked[new.deposit]
        /\ new.payload = Payload(CurrentIntent.terms)
    BY <1>2, TodoTyped DEF TxOf, TodoPart
  <2>3. CurrentIntent' = CurrentIntent /\ new' = new
    BY <1>1, <2>1 DEF CurrentIntent, TxOf
  <2> HIDE DEF new
  <2>4. TermsPart'
    <3>1. new.deposit \in applied
      BY <1>1, <2>2 DEF AppliedPart
    <3>2. Warranted(new.deposit, new.payload.asset, new.payload.amount, new.payload.receiver)
      BY <2>2, <3>1 DEF Warranted, Payload
    <3>3. Warranted(new.deposit, new.payload.asset, new.payload.amount, new.payload.receiver)'
      BY <1>1, <2>3, <3>2 DEF Warranted
    <3>4. ASSUME NEW tx \in mempool
          PROVE  /\ tx.deposit \in Deposits
                 /\ Warranted(tx.deposit, tx.payload.asset, tx.payload.amount,
                              tx.payload.receiver)'
      <4>1. /\ tx.deposit \in Deposits
            /\ Warranted(tx.deposit, tx.payload.asset, tx.payload.amount, tx.payload.receiver)
        BY DEF TermsPart
      <4> QED
        BY <1>3, <4>1, WarrantStays
    <3>5. /\ Existing' = Existing /\ \A d : TransfersFor(d)' = TransfersFor(d)
          /\ \A i : StatusOf(i)' = StatusOf(i)
      BY <1>1 DEF Existing, TransfersFor, StatusOf
    <3>6. ASSUME NEW d \in Deposits, NEW i \in TransfersFor(d)
          PROVE  Warranted(d, transfers[i].asset, transfers[i].amount, transfers[i].receiver)'
      <4>1. Warranted(d, transfers[i].asset, transfers[i].amount, transfers[i].receiver)
        BY DEF TermsPart
      <4> QED
        BY <1>1, <4>1 DEF Warranted
    <3> HIDE DEF AutoInv
    <3>7. /\ nextSequence \in Nat \ {0} /\ DOMAIN transfers = TransferIDs
          /\ \A i \in TransferIDs : i >= nextSequence => transfers[i] = NoTransfer
          /\ \A i \in Existing : StatusOf(i) \in {"pending", "ack_failed"}
      BY DEF AutoInv, TermsPart
    <3>8. \A tx \in mempool' :
             /\ tx.deposit \in Deposits
             /\ Warranted(tx.deposit, tx.payload.asset, tx.payload.amount,
                          tx.payload.receiver)'
      BY <2>1, <2>2, <2>3, <3>3, <3>4
    <3> QED
      BY <1>1, <3>5, <3>6, <3>7, <3>8 DEF TermsPart
  <2>5. ASSUME NEW d \in Deposits, Steady(d)' PROVE SentOnce(d)'
    <3>1. SentOnce(d)
      BY <1>3, <2>5, SteadyBefore DEF OncePart
    <3>2. \A tx \in mempool : tx.deposit # d
      BY <1>1, <3>1 DEF SentOnce, Awaited
    <3>3. TransfersFor(d)' = TransfersFor(d)
      BY <1>1 DEF TransfersFor, Existing
    <3>4. CurrentIntent.deposit = d => TransfersFor(d) = {}
      BY <1>1, <3>1 DEF SentOnce
    <3>5. \A tx \in mempool' : tx.deposit = d => tx = new /\ CurrentIntent.deposit = d
      BY <2>1, <2>2, <3>2
    <3>6. \A tx \in mempool' : tx.deposit = d => Awaited(tx)' /\ CurrentIntent'.deposit = d
      BY <2>1, <2>3, <3>5 DEF Awaited, new
    <3> QED
      BY <2>3, <3>1, <3>3, <3>4, <3>6 DEF SentOnce
  <2>6. OncePart'
    BY <2>5 DEF OncePart
  <2> QED
    BY <1>1, <1>3, <2>1, <2>4, <2>6, PostsStay, RegisteredStays, AppliedStays, TodoStays
<1> QED
  BY <1>4, <1>5

(* The coordinator registers like a web page, with the transfer it sent. *)
LEMMA RecordKeeps ==
    ASSUME AutoInv, LoadForRecord \/ SaveRecord
    PROVE  AutoInv'
<1> USE DEF AutoInv
<1>1. CASE LoadForRecord
  <2>1. /\ UNCHANGED <<asked, posting, intents, overlapped>>
        /\ UNCHANGED <<transfers, nextSequence, mempool>>
        /\ UNCHANGED <<todo, transferID, unanswered, applied>>
        /\ pc = "load" /\ pc' = "save" /\ file' = intents
    BY <1>1 DEF LoadForRecord, Quiet, routerVars, zoneVars, intentVars
  <2>2. PostsPart'
    BY <2>1 DEF PostsPart, FileIsAsked
  <2>3. Grows
    BY <2>1 DEF Grows
  <2>4. OncePart'
    BY <2>1, <2>3, OnceMoves
  <2> QED
    BY <2>1, <2>2, <2>3, <2>4, TermsStay, RegisteredStays, AppliedStays, TodoStays
<1>2. CASE SaveRecord
  <2>1. /\ UNCHANGED <<asked, posting>>
        /\ UNCHANGED <<transfers, nextSequence, mempool>>
        /\ UNCHANGED <<todo, unanswered, applied>>
        /\ transferID' = NoTransferID /\ file' = NoFile
        /\ overlapped' = (overlapped \/ file # intents)
        /\ pc = "save" /\ pc' = "flush"
    BY <1>2 DEF SaveRecord, routerVars, zoneVars
  <2>2. /\ CurrentIntent.deposit \in Deposits
        /\ CurrentIntent.terms \in asked[CurrentIntent.deposit]
    BY <2>1, TodoTyped DEF TodoPart
  <2>3. transferID \in TransferIDs \cup {NoTransferID} /\ FileIsAsked(file)
    BY DEF TodoPart, PostsPart
  <2>4. intents' = WithIntent(file, CurrentIntent.deposit,
                              IntentWith(CurrentIntent.terms, transferID))
    BY <1>2 DEF SaveRecord
  <2>5. /\ FileIsAsked(intents)'
        /\ \A e \in Deposits : file[e] # NoIntent => intents'[e] # NoIntent
    BY <2>1, <2>2, <2>3, <2>4, WrittenIsAsked
  <2>6. PostsPart'
    <3>1. FileIsAsked(file)'
      BY <2>1 DEF FileIsAsked, NoFile
    <3>2. ASSUME NEW d \in Deposits, posting'[d] # NoPost
          PROVE  /\ posting'[d].terms \in asked'[d] /\ posting'[d].transfer \in PostedIDs[d]
                 /\ FileIsAsked(posting[d].file)'
      BY <2>1, <3>2 DEF PostsPart, FileIsAsked
    <3> QED
      BY <2>1, <2>5, <3>1, <3>2 DEF PostsPart
  <2>7. RegisteredPart'
    <3> SUFFICES ASSUME ~overlapped'
                 PROVE  \A n \in DOMAIN todo' : intents'[todo'[n].deposit] # NoIntent
      BY DEF RegisteredPart
    <3>1. ~overlapped /\ file = intents
      BY <2>1
    <3>2. \A n \in DOMAIN todo : todo[n].deposit \in Deposits
      BY TodoTyped
    <3> QED
      BY <2>1, <2>5, <3>1, <3>2 DEF RegisteredPart
  <2>8. Grows
    BY <2>1 DEF Grows
  <2>9. OncePart'
    BY <2>1, <2>8, OnceMoves
  <2>10. TodoPart'
    BY <2>1 DEF TodoPart
  <2> QED
    BY <2>1, <2>6, <2>7, <2>8, <2>9, <2>10, TermsStay, AppliedStays
<1> QED
  BY <1>1, <1>2

(* A flush changes the destination, and the run goes on. *)
LEMMA FlushKeeps ==
    ASSUME AutoInv, Flush
    PROVE  AutoInv'
<1>1. /\ UNCHANGED <<asked, posting, intents, file, overlapped>>
      /\ UNCHANGED <<transfers, nextSequence, mempool>>
      /\ UNCHANGED <<transferID, unanswered, applied>>
      /\ pc = "flush" /\ NextIntent
  BY DEF Flush, routerVars, zoneVars, intentVars
<1>2. todo # <<>>
  BY <1>1 DEF AutoInv, TodoPart
<1> QED
  BY <1>1, <1>2, NextIntentKeeps

(* A submitter that gives up leaves a transaction behind, and its deposit is not
   steady any more. *)
LEMMA FailKeeps ==
    ASSUME AutoInv, NEW relayed, Fail(relayed)
    PROVE  AutoInv'
<1> USE DEF AutoInv
<1>1. /\ UNCHANGED <<asked, posting, intents, overlapped>>
      /\ UNCHANGED <<transfers, nextSequence, mempool, applied>>
      /\ \E place \in {"down", "idle"} : EndRun(place)
      /\ unanswered \subseteq unanswered'
      /\ pc = "wait" => CurrentIntent.deposit \in unanswered'
  BY DEF Fail, routerVars, zoneVars, intentVars
<1>0. pc' \in {"down", "idle"}
  BY <1>1 DEF EndRun
<1>2. Grows
  BY <1>1 DEF Grows
<1>3. ASSUME NEW d \in Deposits, Steady(d)' PROVE SentOnce(d)'
  <2>1. SentOnce(d)
    BY <1>2, <1>3, SteadyBefore DEF OncePart
  <2>2. pc = "wait" => CurrentIntent.deposit # d
    BY <1>1, <1>3 DEF Steady
  <2>3. \A tx \in mempool : tx.deposit # d
    BY <2>1, <2>2 DEF SentOnce, Awaited
  <2>4. TransfersFor(d)' = TransfersFor(d)
    BY <1>1 DEF TransfersFor, Existing
  <2> QED
    BY <1>0, <1>1, <2>1, <2>3, <2>4 DEF SentOnce
<1>4. OncePart'
  BY <1>3 DEF OncePart
<1>5. PostsPart' /\ TodoPart' /\ RegisteredPart' /\ AppliedPart'
  BY <1>1, EndKeeps
<1> QED
  BY <1>1, <1>2, <1>4, <1>5, TermsStay

(* An error of the bridge run, or a file that cannot be read. *)
LEMMA EndProcessKeeps ==
    ASSUME AutoInv, EndProcess
    PROVE  AutoInv'
<1>1. /\ UNCHANGED <<asked, posting, intents, overlapped>>
      /\ UNCHANGED <<transfers, nextSequence, mempool, unanswered, applied>>
      /\ EndRun("down") /\ pc' = "down" /\ pc # "wait"
  BY DEF EndProcess, EndRun, Quiet, routerVars, zoneVars, intentVars
<1>2. Grows
  BY <1>1 DEF Grows
<1>3. PostsPart' /\ TodoPart' /\ RegisteredPart' /\ AppliedPart'
  BY <1>1, EndKeeps
<1>4. TermsPart' /\ OncePart'
  BY <1>1, <1>2, TermsStay, OnceMoves DEF AutoInv
<1> QED
  BY <1>3, <1>4 DEF AutoInv

(* The node dies: pool and handlers are gone, and so is a run that calls it. *)
LEMMA CrashNodeKeeps ==
    ASSUME AutoInv, NEW torn \in BOOLEAN, CrashNode(torn)
    PROVE  AutoInv'
<1>1. /\ UNCHANGED <<asked, intents, overlapped>>
      /\ UNCHANGED <<transfers, nextSequence, unanswered, applied>>
      /\ mempool' = {} /\ posting' = [d \in Deposits |-> NoPost]
  BY DEF CrashNode, routerVars
<1>2. Grows
  BY <1>1 DEF Grows
<1>3. TermsPart'
  BY <1>1, <1>2, TermsStay DEF AutoInv
<1>4. \/ EndRun("down")
      \/ UNCHANGED <<pc, todo, transferID, file>> /\ pc \notin {"submit", "wait"}
  BY DEF CrashNode
<1>5. pc' \notin {"submit", "wait"}
  BY <1>4 DEF EndRun
<1>6. OncePart'
  <2> SUFFICES ASSUME NEW d \in Deposits, Steady(d)' PROVE SentOnce(d)'
    BY DEF OncePart
  <2>1. SentOnce(d)
    BY <1>2, SteadyBefore DEF AutoInv, OncePart
  <2>2. TransfersFor(d)' = TransfersFor(d)
    BY <1>1 DEF TransfersFor, Existing
  <2> QED
    BY <1>1, <1>5, <2>1, <2>2 DEF SentOnce
<1>7. PostsPart' /\ TodoPart' /\ RegisteredPart' /\ AppliedPart'
  <2>1. CASE EndRun("down")
    BY <1>1, <2>1, EndKeeps
  <2>2. CASE UNCHANGED <<pc, todo, transferID, file>>
    <3>1. PostsPart'
      BY <1>1, <2>2 DEF AutoInv, PostsPart, FileIsAsked
    <3> QED
      BY <1>1, <1>2, <2>2, <3>1, TodoStays, RegisteredStays, AppliedStays DEF AutoInv
  <2> QED
    BY <1>4, <2>1, <2>2
<1> QED
  BY <1>3, <1>6, <1>7 DEF AutoInv

-----------------------------------------------------------------------------
(* The blocks of the zone. *)

(* A transaction leaves the pool, and at most a transfer with its memo and its
   terms is new; the coordinator that waits for it goes on. *)
Executes(tx) ==
    /\ nextSequence \in TransferIDs
    /\ nextSequence' = nextSequence + 1
    /\ DOMAIN transfers' = TransferIDs
    /\ \A i \in TransferIDs : i # nextSequence => transfers'[i] = transfers[i]
    /\ transfers'[nextSequence].memo = Memo(tx.deposit)
    /\ transfers'[nextSequence].asset = tx.payload.asset
    /\ transfers'[nextSequence].receiver = tx.payload.receiver
    /\ transfers'[nextSequence].amount = tx.payload.amount
    /\ transfers'[nextSequence].status \in {"pending", "ack_failed"}

(* The new transfer has the terms of its transaction, and is its deposit's. *)
LEMMA ExecutesKeepsTerms ==
    ASSUME AutoInv, NEW tx \in mempool, Executes(tx), Grows,
           mempool' \subseteq mempool
    PROVE  /\ TermsPart'
           /\ \A d \in Deposits : d # tx.deposit => TransfersFor(d)' = TransfersFor(d)
           /\ TransfersFor(tx.deposit)' = TransfersFor(tx.deposit) \cup {nextSequence}
<1> USE DEF AutoInv
<1> DEFINE s == nextSequence
<1>1. s \in Nat \ {0} /\ s \in TransferIDs /\ s' = s + 1
  BY DEF TermsPart, Executes
<1>2. transfers'[s].status # "none"
  BY DEF Executes
<1>3. transfers'[s] # NoTransfer
  BY <1>2 DEF NoTransfer
<1>4. transfers[s] = NoTransfer
  BY <1>1 DEF TermsPart
<1>5. \A i \in TransferIDs : i # s => transfers'[i] = transfers[i]
  BY DEF Executes
<1>6. Existing' = Existing \cup {s} /\ s \notin Existing
  <2>1. s \notin Existing
    BY <1>4 DEF Existing
  <2>2. ASSUME NEW i PROVE i \in Existing' <=> i \in Existing \cup {s}
    <3>1. CASE i = s
      BY <1>1, <1>3, <3>1 DEF Existing
    <3>2. CASE i # s
      BY <1>5, <3>2 DEF Existing
    <3> QED
      BY <3>1, <3>2
  <2> QED
    BY <2>1, <2>2
<1>7. \A d \in Deposits : d # tx.deposit => Memo(tx.deposit) # Memo(d)
  BY DEF Memo
<1>8. transfers'[s].memo = Memo(tx.deposit)
  BY DEF Executes
<1>9. \A i \in Existing : i # s /\ transfers'[i] = transfers[i]
  BY <1>5, <1>6 DEF Existing
<1>10. \A d \in Deposits : d # tx.deposit => TransfersFor(d)' = TransfersFor(d)
  BY <1>6, <1>7, <1>8, <1>9 DEF TransfersFor
<1>11. TransfersFor(tx.deposit)' = TransfersFor(tx.deposit) \cup {s}
  BY <1>6, <1>8, <1>9 DEF TransfersFor
<1>12. \A u \in mempool :
          /\ u.deposit \in Deposits
          /\ Warranted(u.deposit, u.payload.asset, u.payload.amount, u.payload.receiver)'
  <2> SUFFICES ASSUME NEW u \in mempool
               PROVE  /\ u.deposit \in Deposits
                      /\ Warranted(u.deposit, u.payload.asset, u.payload.amount,
                                   u.payload.receiver)'
    OBVIOUS
  <2>1. /\ u.deposit \in Deposits
        /\ Warranted(u.deposit, u.payload.asset, u.payload.amount, u.payload.receiver)
    BY DEF TermsPart
  <2> QED
    BY <2>1, WarrantStays
<1>13. ASSUME NEW i \in TransferIDs, i >= s' PROVE transfers'[i] = NoTransfer
  <2>1. i # s /\ i >= s
    BY <1>1, <1>13 DEF TransferIDs
  <2> QED
    BY <1>5, <2>1 DEF TermsPart
<1>14. ASSUME NEW i \in Existing' PROVE StatusOf(i)' \in {"pending", "ack_failed"}
  <2>1. CASE i = s
    BY <2>1 DEF Executes, StatusOf
  <2>2. CASE i \in Existing
    BY <1>9, <2>2 DEF TermsPart, StatusOf
  <2> QED
    BY <1>6, <2>1, <2>2
<1>15. ASSUME NEW d \in Deposits, NEW i \in TransfersFor(d)'
       PROVE  Warranted(d, transfers[i].asset, transfers[i].amount, transfers[i].receiver)'
  <2>1. CASE i \in TransfersFor(d)
    <3>1. transfers'[i] = transfers[i]
      BY <1>9, <2>1 DEF TransfersFor
    <3>2. Warranted(d, transfers[i].asset, transfers[i].amount, transfers[i].receiver)
      BY <2>1 DEF TermsPart
    <3> QED
      BY <3>1, <3>2 DEF Warranted, Grows
  <2>2. CASE i \notin TransfersFor(d)
    <3>1. d = tx.deposit /\ i = s
      BY <1>10, <1>11, <2>2
    <3>2. Warranted(tx.deposit, tx.payload.asset, tx.payload.amount, tx.payload.receiver)'
      BY <1>12
    <3>3. /\ transfers'[i].asset = tx.payload.asset /\ transfers'[i].amount = tx.payload.amount
          /\ transfers'[i].receiver = tx.payload.receiver
      BY <3>1 DEF Executes
    <3> QED
      BY <3>1, <3>2, <3>3 DEF Warranted
  <2> QED
    BY <2>1, <2>2
<1>16. TermsPart'
  <2>1. nextSequence' \in Nat \ {0} /\ DOMAIN transfers' = TransferIDs
    BY <1>1 DEF Executes
  <2>2. \A u \in mempool' :
           /\ u.deposit \in Deposits
           /\ Warranted(u.deposit, u.payload.asset, u.payload.amount, u.payload.receiver)'
    BY <1>12
  <2> HIDE DEF AutoInv
  <2> QED
    BY <1>13, <1>14, <1>15, <2>1, <2>2 DEF TermsPart
<1> QED
  BY <1>10, <1>11, <1>16

(* It is the first for a steady deposit, whose transaction was awaited. *)
LEMMA ExecutesKeepsOnce ==
    ASSUME AutoInv, NEW tx \in mempool, Executes(tx), Grows,
           mempool' = mempool \ {tx}, UNCHANGED timeoutHeight,
           Awaited(tx) => pc' \in {"load", "down"},
           ~Awaited(tx) => UNCHANGED <<pc, todo>>
    PROVE  OncePart'
<1> SUFFICES ASSUME NEW d \in Deposits, Steady(d)' PROVE SentOnce(d)'
  BY DEF OncePart
<1>1. SentOnce(d)
  BY SteadyBefore DEF OncePart, AutoInv
<1>2. ~Awaited(tx) => CurrentIntent' = CurrentIntent
  BY DEF CurrentIntent
<1>3. CASE tx.deposit # d
  <2>1. TransfersFor(d)' = TransfersFor(d)
    BY <1>3, ExecutesKeepsTerms
  <2>2. ASSUME NEW u \in mempool', u.deposit = d
        PROVE  Awaited(u)' /\ CurrentIntent'.deposit = d
    <3>1. Awaited(u) /\ CurrentIntent.deposit = d /\ u # tx
      BY <1>1, <2>2 DEF SentOnce
    <3>2. ~Awaited(tx)
      BY <3>1 DEF Awaited
    <3> QED
      BY <1>2, <3>1, <3>2 DEF Awaited, TxOf
  <2>3. pc' \in {"submit", "wait"} => pc' = pc /\ CurrentIntent' = CurrentIntent
    BY <1>2
  <2> QED
    BY <1>1, <1>2, <2>1, <2>2, <2>3 DEF SentOnce
<1>4. CASE tx.deposit = d
  <2>1. Awaited(tx) /\ CurrentIntent.deposit = d
    BY <1>1, <1>4 DEF SentOnce
  <2>2. TransfersFor(d) = {}
    BY <1>1, <2>1 DEF SentOnce, Awaited
  <2>3. TransfersFor(d)' = {nextSequence}
    BY <1>4, <2>2, ExecutesKeepsTerms
  <2>4. \A u \in mempool : u.deposit = d => u = tx
    BY <1>1, <2>1 DEF SentOnce, Awaited
  <2>5. pc' \notin {"submit", "wait"}
    BY <2>1
  <2> QED
    BY <2>3, <2>4, <2>5 DEF SentOnce
<1> QED
  BY <1>3, <1>4

(* The transfer leaves. *)
LEMMA ExecuteTxKeeps ==
    ASSUME AutoInv, NEW tx \in mempool, ExecuteTx(tx)
    PROVE  AutoInv'
<1> USE DEF AutoInv
<1>1. /\ UNCHANGED <<asked, posting, intents, file, overlapped>>
      /\ UNCHANGED <<todo, unanswered, applied, timeoutHeight>>
      /\ mempool' = mempool \ {tx}
      /\ Awaited(tx) => pc' = "load" /\ transferID' = nextSequence
      /\ ~Awaited(tx) => pc' = pc /\ transferID' = transferID
  BY DEF ExecuteTx, intentVars
<1>2. /\ nextSequence <= MaxTransfers
      /\ nextSequence' = nextSequence + 1
      /\ transfers' = [transfers EXCEPT ![nextSequence] =
             [asset |-> tx.payload.asset, amount |-> tx.payload.amount,
              receiver |-> tx.payload.receiver, denom |-> routeProfiles[theRoute].denom,
              memo |-> Memo(tx.deposit), status |-> "pending"]]
  BY DEF ExecuteTx, InitiateTransferWithProfile, InitiateOver
<1>3. nextSequence \in TransferIDs /\ DOMAIN transfers = TransferIDs
  BY <1>2, RouterAssumption DEF TermsPart, TransferIDs
<1>4. Executes(tx)
  BY <1>2, <1>3 DEF Executes
<1>5. Grows
  BY <1>1 DEF Grows
<1>6. TermsPart' /\ OncePart'
  BY <1>1, <1>4, <1>5, ExecutesKeepsTerms, ExecutesKeepsOnce
<1>7. TodoPart'
  <2>1. transferID' \in TransferIDs \cup {NoTransferID}
    BY <1>1, <1>3 DEF TodoPart
  <2>2. pc' \notin {"down", "idle"} => todo # <<>>
    BY <1>1 DEF TodoPart, Awaited
  <2> QED
    BY <1>1, <2>1, <2>2 DEF TodoPart
<1> QED
  BY <1>1, <1>5, <1>6, <1>7, PostsStay, RegisteredStays, AppliedStays

(* The transaction is refused, or its transfer fails at once. *)
LEMMA RefuseKeeps ==
    ASSUME AutoInv, NEW tx \in mempool, RefuseTx(tx) \/ FailTx(tx)
    PROVE  AutoInv'
<1> USE DEF AutoInv
<1>1. /\ UNCHANGED <<asked, posting, intents, overlapped>>
      /\ UNCHANGED <<unanswered, applied, timeoutHeight>>
      /\ mempool' = mempool \ {tx}
      /\ Awaited(tx) => EndRun("down") /\ pc' = "down"
      /\ ~Awaited(tx) => UNCHANGED <<pc, todo, transferID, file>>
  BY DEF RefuseTx, FailTx, Refused, EndRun, intentVars
<1>2. Grows
  BY <1>1 DEF Grows
<1>3. PostsPart' /\ TodoPart' /\ RegisteredPart' /\ AppliedPart'
  <2>1. CASE Awaited(tx)
    BY <1>1, <2>1, EndKeeps
  <2>2. CASE ~Awaited(tx)
    BY <1>1, <1>2, <2>2, PostsStay, RegisteredStays, AppliedStays, TodoStays
  <2> QED
    BY <2>1, <2>2
<1>4. CASE RefuseTx(tx)
  <2>1. UNCHANGED <<transfers, nextSequence>>
    BY <1>4 DEF RefuseTx, routerVars
  <2>2. TermsPart'
    BY <1>1, <1>2, <2>1, TermsStay
  <2>3. ASSUME NEW d \in Deposits, Steady(d)' PROVE SentOnce(d)'
    <3>1. SentOnce(d)
      BY <1>2, <2>3, SteadyBefore DEF OncePart
    <3>2. TransfersFor(d)' = TransfersFor(d)
      BY <2>1 DEF TransfersFor, Existing
    <3>3. ~Awaited(tx) => CurrentIntent' = CurrentIntent
      BY <1>1 DEF CurrentIntent
    <3>4. ASSUME NEW u \in mempool', u.deposit = d
          PROVE  Awaited(u)' /\ CurrentIntent'.deposit = d
      <4>1. Awaited(u) /\ CurrentIntent.deposit = d /\ u # tx
        BY <1>1, <3>1, <3>4 DEF SentOnce
      <4>2. ~Awaited(tx)
        BY <4>1 DEF Awaited
      <4> QED
        BY <1>1, <3>3, <4>1, <4>2 DEF Awaited, TxOf
    <3>5. pc' \in {"submit", "wait"} => pc' = pc /\ CurrentIntent' = CurrentIntent
      BY <1>1, <3>3
    <3> QED
      BY <3>1, <3>2, <3>3, <3>4, <3>5 DEF SentOnce
  <2>4. OncePart'
    BY <2>3 DEF OncePart
  <2> QED
    BY <1>3, <2>2, <2>4
<1>5. CASE FailTx(tx)
  <2>1. /\ nextSequence <= MaxTransfers
        /\ nextSequence' = nextSequence + 1
        /\ transfers' = [transfers EXCEPT ![nextSequence] =
               [asset |-> tx.payload.asset, amount |-> tx.payload.amount,
                receiver |-> tx.payload.receiver, denom |-> routeProfiles[theRoute].denom,
                memo |-> Memo(tx.deposit), status |-> "ack_failed"]]
    BY <1>5 DEF FailTx
  <2>2. nextSequence \in TransferIDs /\ DOMAIN transfers = TransferIDs
    BY <2>1, RouterAssumption DEF TermsPart, TransferIDs
  <2>3. Executes(tx)
    BY <2>1, <2>2 DEF Executes
  <2>4. TermsPart' /\ OncePart'
    BY <1>1, <1>2, <2>3, ExecutesKeepsTerms, ExecutesKeepsOnce
  <2> QED
    BY <1>3, <2>4
<1> QED
  BY <1>4, <1>5

-----------------------------------------------------------------------------

(* The invariant holds at the start, *)
LEMMA AutoInitially == AutoInit => AutoInv
<1> SUFFICES ASSUME AutoInit PROVE AutoInv
  OBVIOUS
<1>1. FileIsAsked(intents) /\ FileIsAsked(file)
  BY DEF AutoInit, FileIsAsked, NoFile
<1>2. PostsPart
  <2>1. \A d \in Deposits : asked[d] = {} /\ posting[d] = NoPost
    BY DEF AutoInit
  <2>2. DOMAIN asked = Deposits /\ DOMAIN posting = Deposits
    BY DEF AutoInit
  <2> QED
    BY <1>1, <2>1, <2>2, FS_EmptySet DEF PostsPart
<1>3. TodoPart
  <2>1. <<>> \in Seq(RunItem) /\ DOMAIN <<>> = {}
    OBVIOUS
  <2> QED
    BY <2>1 DEF AutoInit, TodoPart
<1>4. RegisteredPart
  <2>1. todo = <<>> /\ DOMAIN todo = {}
    BY DEF AutoInit
  <2> QED
    BY <2>1 DEF RegisteredPart
<1>5. Existing = {} /\ \A d \in Deposits : TransfersFor(d) = {}
  BY DEF AutoInit, Existing, TransfersFor
<1>6. TermsPart
  BY <1>5 DEF AutoInit, TermsPart
<1>7. OncePart
  BY <1>5 DEF AutoInit, OncePart, SentOnce
<1>8. AppliedPart
  BY DEF AutoInit, AppliedPart
<1> QED
  BY <1>2, <1>3, <1>4, <1>6, <1>7, <1>8 DEF AutoInv

(* and every step keeps it. *)
LEMMA AutoStep == AutoInv /\ [AutoNext]_autoVars => AutoInv'
<1> SUFFICES ASSUME AutoInv, [AutoNext]_autoVars PROVE AutoInv'
  OBVIOUS
<1>1. CASE \/ \E d \in Deposits : ProcessClaim(d)
           \/ \E w \in Wallets \X RouteAssets : Spend(w)
           \/ DestinationAdvances \/ BreakBridge
  BY <1>1, UsersKeep
<1>2. CASE \E d \in Deposits : SaveIntents(d)
  BY <1>2, SaveKeeps
<1>3. CASE \E d \in Deposits : \E terms \in Terms(d), id \in PostedIDs[d] :
               LoadIntents(d, terms, id)
  BY <1>3, LoadKeeps
<1>4. CASE \E answers \in BOOLEAN : StartProcess(answers)
  BY <1>4, StartKeeps
<1>5. CASE RunCoordinator
  BY <1>5, StartRunKeeps, QueryKeeps, SubmitKeeps, RecordKeeps, FlushKeeps,
     EndProcessKeeps DEF RunCoordinator
<1>6. CASE MakeBlock
  BY <1>6, ExecuteTxKeeps, RefuseKeeps DEF MakeBlock
<1>7. CASE \E relayed \in SUBSET TransferIDs : Fail(relayed)
  BY <1>7, FailKeeps
<1>8. CASE \E torn \in BOOLEAN : CrashNode(torn)
  BY <1>8, CrashNodeKeeps
<1>9. CASE UNCHANGED autoVars
  <2>1. /\ UNCHANGED <<asked, posting, intents, file, overlapped>>
        /\ UNCHANGED <<transfers, nextSequence, mempool>>
        /\ UNCHANGED <<todo, transferID, pc, timeoutHeight, unanswered, applied>>
    BY <1>9 DEF autoVars, routerVars, zoneVars, intentVars, runVars
  <2>2. Grows
    BY <2>1 DEF Grows
  <2>3. OncePart'
    BY <2>1, <2>2, OnceStays DEF AutoInv
  <2> QED
    BY <2>1, <2>2, <2>3, PostsStay, TermsStay, RegisteredStays, AppliedStays, TodoStays
       DEF AutoInv
<1> QED
  BY <1>1, <1>2, <1>3, <1>4, <1>5, <1>6, <1>7, <1>8, <1>9 DEF AutoNext

(* Intents, runs, pool and transfers of automatic delivery stay related as
   AutoInv says, through every crash and every registration (Coordinator.RunOnce,
   RegisterDeliveryIntent, applyIBCTransferPayload). *)
THEOREM AutoInvariant == AutoSpec => []AutoInv
<1>1. AutoInit => AutoInv
  BY AutoInitially
<1>2. AutoInv /\ [AutoNext]_autoVars => AutoInv'
  BY AutoStep
<1> QED
  BY <1>1, <1>2, PTL DEF AutoSpec

(* A transfer, and a transaction that may become one, is for a deposit whose
   claim was applied and has terms that were posted for it, for any deposits and
   terms and through crashes of either process, repeated posts and replaced
   intents (ResolveBridgeSessionView, Coordinator.RunOnce, recordIntentTransfer). *)
THEOREM NothingIsSentUnasked == AutoSpec => []TransfersAreWarranted
<1>1. AutoInv => TransfersAreWarranted
  BY DEF AutoInv, TermsPart, TransfersAreWarranted
<1> QED
  BY <1>1, AutoInvariant, PTL

(* However often the coordinator dies and starts again, it sends one onward
   transfer for a deposit whose submissions were all answered, whose terms were
   not changed, name the claim's asset and an amount in canonical form, and whose
   intent no overlapping registration removed: the search for a transfer with
   the same terms stands in for the record that the coordinator does not keep
   (RunOnce, findTransferForClaim). *)
THEOREM DepositsAreSentOnce == AutoSpec => []OneTransferPerDeposit
<1>1. AutoInv => OneTransferPerDeposit
  <2> SUFFICES ASSUME AutoInv, NEW d \in Deposits, Regular(d)
               PROVE  Cardinality(LiveTransfers(d)) <= 1
    BY DEF OneTransferPerDeposit
  <2>1. IsFiniteSet(asked[d])
    BY DEF AutoInv, PostsPart
  <2>2. \A s, t \in asked[d] : s = t
    <3> SUFFICES ASSUME NEW s \in asked[d], NEW t \in asked[d], s # t PROVE FALSE
      OBVIOUS
    <3>1. IsFiniteSet({s, t}) /\ Cardinality({s, t}) = 2
      <4>1. IsFiniteSet({s}) /\ Cardinality({s}) = 1
        BY FS_Singleton
      <4>2. IsFiniteSet({s} \cup {t}) /\ Cardinality({s} \cup {t}) = 1 + 1
        BY <4>1, FS_AddElement
      <4>3. {s} \cup {t} = {s, t}
        OBVIOUS
      <4> QED
        BY <4>2, <4>3
    <3>2. Cardinality({s, t}) <= Cardinality(asked[d])
      BY <2>1, FS_Subset
    <3> QED
      BY <2>1, <3>1, <3>2, FS_CardinalityType DEF Regular
  <2>3. SentOnce(d)
    BY <2>2 DEF AutoInv, OncePart, Regular, Steady
  <2>4. \A i, j \in LiveTransfers(d) : i = j
    BY <2>3 DEF SentOnce, LiveTransfers
  <2>5. CASE LiveTransfers(d) = {}
    BY <2>5, FS_EmptySet
  <2>6. CASE LiveTransfers(d) # {}
    <3>1. PICK i \in LiveTransfers(d) : TRUE
      BY <2>6
    <3>2. LiveTransfers(d) = {i}
      BY <2>4, <3>1
    <3>3. Cardinality({i}) = 1
      BY FS_Singleton
    <3> QED
      BY <3>2, <3>3
  <2> QED
    BY <2>5, <2>6
<1> QED
  BY <1>1, AutoInvariant, PTL

-----------------------------------------------------------------------------
(* Types. *)

WalletTypes == applied \subseteq Deposits /\ wallets \in [Wallets \X RouteAssets -> Nat]

FileTypes ==
    /\ File(intents) /\ File(file)
    /\ \A d \in Deposits : posting[d] # NoPost =>
           /\ posting[d].terms \in Terms(d) /\ posting[d].transfer \in PostedIDs[d]
           /\ File(posting[d].file)

Places == {"down", "idle", "query", "submit", "wait", "load", "save", "flush"}

IsTx(tx) == /\ tx.deposit \in Deposits /\ tx.payload \in Payloads(tx.deposit)
            /\ tx.timeout \in Timeouts

PoolTypes ==
    /\ \A tx \in mempool \cup txCache : IsTx(tx)
    /\ mempool \subseteq txCache
    /\ timeoutOf \in [TransferIDs -> Timeouts]
    /\ timeoutHeight \in Timeouts

DestTypes ==
    /\ destHeight \in 0 .. MaxDestHeight
    /\ received \subseteq TransferIDs
    /\ unanswered \subseteq Deposits
    /\ readable \in BOOLEAN /\ bridgeWorks \in BOOLEAN

AutoTypes ==
    RouterTypeOK /\ WalletTypes /\ FileTypes /\ pc \in Places /\ PoolTypes /\ DestTypes

(* With the invariant, these are the types that AutoTypeOK lists. *)
LEMMA AutoTypesSuffice ==
    ASSUME AutoInv, AutoTypes
    PROVE  AutoTypeOK
<1>1. \A n \in DOMAIN todo : /\ todo[n].deposit \in Deposits
                              /\ todo[n].terms \in Terms(todo[n].deposit)
  BY TodoTyped DEF AutoInv, TodoPart, PostsPart
<1>2. pc \in {"query", "submit", "wait", "load", "save", "flush"} => todo # <<>>
  BY DEF AutoInv, TodoPart
<1>3. transferID \in TransferIDs \cup {NoTransferID}
  BY DEF AutoInv, TodoPart
<1> QED
  BY <1>1, <1>2, <1>3
     DEF AutoTypes, AutoTypeOK, WalletTypes, FileTypes, PoolTypes, DestTypes, IsTx, Places

(* What a transaction takes from terms that may be posted. *)
PayloadTypes ==
    [sender : Wallets, asset : RouteAssets, amount : TransferAmounts, receiver : Receivers]

LEMMA PayloadTyped ==
    ASSUME NEW d \in Deposits
    PROVE  Payloads(d) \subseteq PayloadTypes
<1>1. ASSUME NEW t \in Terms(d) PROVE Payload(t) \in PayloadTypes
  <2>1. t \in [sender : Wallets, asset : RouteAssets, amount : TransferAmounts,
               receiver : Receivers, canonical : BOOLEAN]
    BY AutoAssumption
  <2>2. /\ t.sender \in Wallets /\ t.asset \in RouteAssets
        /\ t.amount \in TransferAmounts /\ t.receiver \in Receivers
    BY <2>1
  <2> QED
    BY <2>2 DEF Payload, PayloadTypes
<1> QED
  BY <1>1 DEF Payloads

(* A transfer is stored under the next sequence. *)
LEMMA StoredTransfer ==
    ASSUME AutoInv, AutoTypes, NEW tx \in mempool, tx.payload.amount > 0,
           NEW status \in {"pending", "ack_failed"},
           NEW stage \in {"handshake_pending", "ack_failed"}, NEW denom,
           nextSequence <= MaxTransfers, nextSequence' = nextSequence + 1,
           transfers' = [transfers EXCEPT ![nextSequence] =
               [asset |-> tx.payload.asset, amount |-> tx.payload.amount,
                receiver |-> tx.payload.receiver, denom |-> denom,
                memo |-> Memo(tx.deposit), status |-> status]],
           transportSessions' = [transportSessions EXCEPT ![nextSequence] = stage],
           UNCHANGED policyOfRoutes
    PROVE  RouterTypeOK'
<1> DEFINE r == [asset |-> tx.payload.asset, amount |-> tx.payload.amount,
                 receiver |-> tx.payload.receiver, denom |-> denom,
                 memo |-> Memo(tx.deposit), status |-> status]
<1>1. IsTx(tx)
  BY DEF AutoTypes, PoolTypes
<1>2. tx.payload \in PayloadTypes /\ Memo(tx.deposit) \in Memos
  BY <1>1, PayloadTyped, AutoAssumption DEF IsTx
<1>3. /\ tx.payload.amount \in TransferAmounts \ {0} /\ tx.payload.receiver \in Receivers
      /\ tx.payload.asset \in RouteAssets
  BY <1>2, RouterAssumption DEF PayloadTypes
<1>4. IsTransferRecord(r)
  BY <1>2, <1>3, AutoAssumption DEF IsTransferRecord, TransferStatus
<1>5. nextSequence \in TransferIDs /\ nextSequence' \in 1 .. MaxTransfers + 1
  BY RouterAssumption DEF AutoTypes, RouterTypeOK, TransferIDs
<1> HIDE DEF r
<1>6. DOMAIN transfers = TransferIDs /\ transfers' = [transfers EXCEPT ![nextSequence] = r]
  BY DEF AutoTypes, RouterTypeOK, r
<1>7. DOMAIN transfers' = TransferIDs
  BY <1>6
<1>8. \A i \in TransferIDs : transfers'[i] = NoTransfer \/ IsTransferRecord(transfers'[i])
  <2> SUFFICES ASSUME NEW i \in TransferIDs
               PROVE  transfers'[i] = NoTransfer \/ IsTransferRecord(transfers'[i])
    OBVIOUS
  <2>1. CASE i = nextSequence
    <3>1. transfers'[i] = r
      BY <1>6, <2>1
    <3> QED
      BY <1>4, <3>1
  <2>2. CASE i # nextSequence
    <3>1. transfers'[i] = transfers[i]
      BY <1>6, <2>2
    <3> QED
      BY <3>1 DEF AutoTypes, RouterTypeOK
  <2> QED
    BY <2>1, <2>2
<1>9. transportSessions' \in [TransferIDs -> TransportStage]
  BY <1>5 DEF AutoTypes, RouterTypeOK, TransportStage
<1>10. /\ routes' \in [RouteAssets -> RouteChoices \cup {NoRoute}]
       /\ routeProfiles' \in [RouteIDs -> ProfileChoices \cup {NoRoute}]
  BY DEF AutoTypes, RouterTypeOK, policyOfRoutes
<1> QED
  BY <1>5, <1>7, <1>8, <1>9, <1>10 DEF RouterTypeOK

(* A debit leaves a natural balance. *)
LEMMA WalletPays ==
    ASSUME AutoTypes, NEW tx \in mempool, CanPay(tx.payload),
           wallets' = [wallets EXCEPT ![Payer(tx.payload)] = @ - tx.payload.amount],
           UNCHANGED applied
    PROVE  WalletTypes'
<1>1. IsTx(tx)
  BY DEF AutoTypes, PoolTypes
<1>2. tx.payload \in PayloadTypes
  BY <1>1, PayloadTyped DEF IsTx
<1>3. Payer(tx.payload) \in Wallets \X RouteAssets /\ tx.payload.amount \in Nat
  BY <1>2, RouterAssumption DEF PayloadTypes, Payer
<1>4. wallets[Payer(tx.payload)] - tx.payload.amount \in Nat
  BY <1>3 DEF CanPay, AutoTypes, WalletTypes
<1> QED
  BY <1>3, <1>4 DEF AutoTypes, WalletTypes

(* What a registration writes. *)
LEMMA WrittenTyped ==
    ASSUME NEW f, File(f), NEW d \in Deposits, NEW t \in Terms(d),
           NEW id \in TransferIDs \cup {NoTransferID}
    PROVE  File(WithIntent(f, d, IntentWith(t, id)))
<1>1. IntentWith(t, id) \in Intents(d)
  BY DEF Intents
<1> DEFINE i == IntentWith(t, id)
<1> HIDE DEF i
<1>2. i \in Intents(d)
  BY <1>1 DEF i
<1>3. File([f EXCEPT ![d] = i])
  BY <1>2 DEF File
<1> QED
  BY <1>3 DEF WithIntent, i

(* The route keeper does not move. *)
LEMMA RouterTypesStay ==
    ASSUME RouterTypeOK, UNCHANGED routerVars
    PROVE  RouterTypeOK'
  BY DEF RouterTypeOK, routerVars

(* Every step keeps the types. *)
LEMMA AutoTypesStep ==
    ASSUME AutoInv, AutoTypes, AutoNext
    PROVE  AutoTypes'
<1> USE DEF AutoTypes
<1>1. ASSUME NEW d \in Deposits, ProcessClaim(d) PROVE AutoTypes'
  <2>1. /\ <<DepositOf[d].recipient, DepositOf[d].asset>> \in Wallets \X RouteAssets
        /\ DepositOf[d].amount \in Nat
    BY AutoAssumption
  <2>2. WalletTypes'
    BY <1>1, <2>1 DEF ProcessClaim, WalletTypes
  <2>3. RouterTypeOK' /\ pc' \in Places
    BY <1>1, RouterTypesStay DEF ProcessClaim, runVars
  <2>4. FileTypes'
    BY <1>1 DEF ProcessClaim, intentVars, runVars, FileTypes, File
  <2>5. PoolTypes'
    BY <1>1 DEF ProcessClaim, runVars, PoolTypes, IsTx
  <2>6. DestTypes'
    BY <1>1 DEF ProcessClaim, intentVars, runVars, destVars, DestTypes
  <2> QED
    BY <2>2, <2>3, <2>4, <2>5, <2>6
<1>2. ASSUME NEW d \in Deposits, SaveIntents(d) PROVE AutoTypes'
  <2>1. RouterTypeOK' /\ pc' \in Places
    BY <1>2, RouterTypesStay DEF SaveIntents, runVars
  <2>2. WalletTypes' /\ PoolTypes'
    BY <1>2 DEF SaveIntents, zoneVars, runVars, WalletTypes, PoolTypes, IsTx
  <2>3. DestTypes'
    BY <1>2 DEF SaveIntents, runVars, destVars, DestTypes
  <2>4. /\ posting[d].terms \in Terms(d) /\ File(posting[d].file)
        /\ posting[d].transfer \in TransferIDs \cup {NoTransferID}
    BY <1>2, AutoAssumption DEF SaveIntents, FileTypes
  <2>5. File(intents)'
    <3>1. File(WithIntent(posting[d].file, d,
                          IntentWith(posting[d].terms, posting[d].transfer)))
      BY <2>4, WrittenTyped
    <3> QED
      BY <1>2, <3>1 DEF SaveIntents, File
  <2>6. DOMAIN posting = Deposits
    BY DEF AutoInv, PostsPart
  <2>7. FileTypes'
    <3>1. File(file)'
      BY <1>2 DEF SaveIntents, runVars, FileTypes, File
    <3>2. ASSUME NEW e \in Deposits, posting'[e] # NoPost
          PROVE  /\ posting'[e].terms \in Terms(e) /\ posting'[e].transfer \in PostedIDs[e]
                 /\ File(posting[e].file)'
      <4>1. posting'[e] = posting[e]
        BY <1>2, <2>6, <3>2 DEF SaveIntents
      <4>2. /\ posting[e].terms \in Terms(e) /\ posting[e].transfer \in PostedIDs[e]
            /\ File(posting[e].file)
        BY <3>2, <4>1 DEF FileTypes
      <4> QED
        BY <4>1, <4>2 DEF File
    <3> QED
      BY <2>5, <3>1, <3>2 DEF FileTypes
  <2> QED
    BY <2>1, <2>2, <2>3, <2>7
<1>3. ASSUME NEW d \in Deposits, NEW t \in Terms(d), NEW id \in PostedIDs[d],
             LoadIntents(d, t, id)
      PROVE  AutoTypes'
  <2>1. RouterTypeOK' /\ pc' \in Places
    BY <1>3, RouterTypesStay DEF LoadIntents, runVars
  <2>2. WalletTypes' /\ PoolTypes'
    BY <1>3 DEF LoadIntents, zoneVars, runVars, WalletTypes, PoolTypes, IsTx
  <2>3. DestTypes'
    BY <1>3 DEF LoadIntents, runVars, destVars, DestTypes
  <2>4. DOMAIN posting = Deposits
    BY DEF AutoInv, PostsPart
  <2>5. File(intents)' /\ File(file)'
    BY <1>3 DEF LoadIntents, runVars, FileTypes, File
  <2>6. ASSUME NEW e \in Deposits, posting'[e] # NoPost
        PROVE  /\ posting'[e].terms \in Terms(e) /\ posting'[e].transfer \in PostedIDs[e]
               /\ File(posting[e].file)'
    <3>1. CASE e = d
      <4>1. /\ posting'[e].terms = t /\ posting'[e].transfer = id
            /\ posting'[e].file = intents'
        BY <1>3, <2>4, <3>1 DEF LoadIntents
      <4> QED
        BY <2>5, <3>1, <4>1 DEF File
    <3>2. CASE e # d
      <4>1. posting'[e] = posting[e]
        BY <1>3, <2>4, <3>2 DEF LoadIntents
      <4>2. /\ posting[e].terms \in Terms(e) /\ posting[e].transfer \in PostedIDs[e]
            /\ File(posting[e].file)
        BY <2>6, <4>1 DEF FileTypes
      <4> QED
        BY <4>1, <4>2 DEF File
    <3> QED
      BY <3>1, <3>2
  <2>7. FileTypes'
    BY <2>5, <2>6 DEF FileTypes
  <2> QED
    BY <2>1, <2>2, <2>3, <2>7
<1>4. ASSUME NEW w \in Wallets \X RouteAssets, Spend(w) PROVE AutoTypes'
  <2>1. RouterTypeOK' /\ pc' \in Places
    BY <1>4, RouterTypesStay DEF Spend, runVars
  <2>2. WalletTypes'
    BY <1>4 DEF Spend, WalletTypes
  <2>3. FileTypes'
    BY <1>4 DEF Spend, intentVars, runVars, FileTypes, File
  <2>4. PoolTypes'
    BY <1>4 DEF Spend, runVars, PoolTypes, IsTx
  <2>5. DestTypes'
    BY <1>4 DEF Spend, intentVars, runVars, destVars, DestTypes
  <2> QED
    BY <2>1, <2>2, <2>3, <2>4, <2>5
<1>5. ASSUME Quiet, File(file)', UNCHANGED unanswered, pc' \in Places,
             timeoutHeight' \in Timeouts
      PROVE  AutoTypes'
  <2>1. RouterTypeOK'
    BY <1>5, RouterTypesStay DEF Quiet
  <2>2. WalletTypes' /\ PoolTypes'
    BY <1>5 DEF Quiet, zoneVars, WalletTypes, PoolTypes, IsTx
  <2>3. FileTypes'
    BY <1>5 DEF Quiet, intentVars, FileTypes, File
  <2>4. DestTypes'
    BY <1>5 DEF Quiet, intentVars, destVars, DestTypes
  <2> QED
    BY <1>5, <2>1, <2>2, <2>3, <2>4
<1>6. timeoutHeight \in Timeouts
  BY DEF PoolTypes
<1>0. /\ file' = file => File(file)'
      /\ file' = NoFile => File(file)'
  BY DEF FileTypes, File, NoFile
<1>7. ASSUME NEW answers \in BOOLEAN, StartProcess(answers) PROVE AutoTypes'
  <2>1. /\ destHeight + Buffer \in Timeouts /\ DefaultTimeout \in Timeouts
        /\ ConfiguredTimeout \in Timeouts
    BY AutoAssumption DEF DestTypes, Timeouts
  <2>2. SafeTimeout(answers) \in Timeouts
    <3>1. destHeight \in Nat /\ Buffer \in Nat \ {0} /\ ConfiguredTimeout \in Nat
      BY AutoAssumption DEF DestTypes
    <3>2. CASE answers /\ ConfiguredTimeout < destHeight + Buffer
      BY <2>1, <3>1, <3>2 DEF SafeTimeout
    <3>3. CASE answers /\ ~(ConfiguredTimeout < destHeight + Buffer)
      BY <2>1, <3>1, <3>3 DEF SafeTimeout
    <3>4. CASE ~answers /\ ConfiguredTimeout > 0
      BY <2>1, <3>1, <3>4 DEF SafeTimeout
    <3>5. CASE ~answers /\ ConfiguredTimeout = 0
      BY <2>1, <3>1, <3>5 DEF SafeTimeout
    <3> QED
      BY <3>1, <3>2, <3>3, <3>4, <3>5
  <2>3. pc' \in Places /\ timeoutHeight' \in Timeouts
    BY <1>7, <2>2 DEF StartProcess, Places
  <2> QED
    BY <1>0, <1>5, <1>7, <2>3 DEF StartProcess
<1>8. CASE StartRun
  BY <1>0, <1>5, <1>6, <1>8 DEF StartRun, Places
<1>9. ASSUME NEW found \in BOOLEAN, QueryStatus(found) PROVE AutoTypes'
  <2> DEFINE status == ResolveBridgeSessionView(CurrentIntent.deposit, found)
  <2>1. pc' \in Places
    <3>1. CASE status = "aegislink_processing"
      BY <1>9, <3>1 DEF QueryStatus, Places
    <3>2. CASE status = "osmosis_pending"
      BY <1>9, <3>2 DEF QueryStatus, Places
    <3>3. CASE status # "aegislink_processing" /\ status # "osmosis_pending"
      BY <1>9, <3>3 DEF QueryStatus, NextIntent, Places
    <3> QED
      BY <3>1, <3>2, <3>3
  <2> QED
    BY <1>0, <1>5, <1>6, <1>9, <2>1 DEF QueryStatus
<1>10. CASE Submit
  <2>1. RouterTypeOK' /\ pc' \in Places
    BY <1>10, RouterTypesStay DEF Submit, EndRun, Places
  <2>2. WalletTypes'
    BY <1>10 DEF Submit, WalletTypes
  <2>3. FileTypes'
    <3>1. File(file)'
      BY <1>0, <1>10 DEF Submit, EndRun
    <3> QED
      BY <1>10, <3>1 DEF Submit, intentVars, FileTypes, File
  <2>4. DestTypes'
    BY <1>10 DEF Submit, intentVars, destVars, DestTypes
  <2>5. IsTx(TxOf(CurrentIntent))
    <3>1. todo # <<>>
      BY <1>10 DEF Submit, AutoInv, TodoPart
    <3>2. CurrentIntent.deposit \in Deposits /\ CurrentIntent.terms \in asked[CurrentIntent.deposit]
      BY <3>1, TodoTyped DEF AutoInv, TodoPart
    <3>3. CurrentIntent.terms \in Terms(CurrentIntent.deposit)
      BY <3>2 DEF AutoInv, PostsPart
    <3>4. Payload(CurrentIntent.terms) \in Payloads(CurrentIntent.deposit)
      BY <3>3 DEF Payloads
    <3> QED
      BY <1>6, <3>2, <3>4 DEF IsTx, TxOf
  <2>6. PoolTypes'
    BY <1>10, <2>5 DEF Submit, PoolTypes
  <2> QED
    BY <2>1, <2>2, <2>3, <2>4, <2>6
<1>11. CASE LoadForRecord
  <2>1. RouterTypeOK' /\ pc' \in Places
    BY <1>11, RouterTypesStay DEF LoadForRecord, Quiet, Places
  <2>2. WalletTypes' /\ PoolTypes'
    BY <1>11 DEF LoadForRecord, Quiet, zoneVars, WalletTypes, PoolTypes, IsTx
  <2>3. FileTypes'
    BY <1>11 DEF LoadForRecord, Quiet, intentVars, FileTypes, File
  <2>4. DestTypes'
    BY <1>11 DEF LoadForRecord, Quiet, intentVars, destVars, DestTypes
  <2> QED
    BY <2>1, <2>2, <2>3, <2>4
<1>12. CASE SaveRecord
  <2>1. RouterTypeOK' /\ pc' \in Places
    BY <1>12, RouterTypesStay DEF SaveRecord, Places
  <2>2. WalletTypes' /\ PoolTypes'
    BY <1>12 DEF SaveRecord, zoneVars, WalletTypes, PoolTypes, IsTx
  <2>3. DestTypes'
    BY <1>12 DEF SaveRecord, destVars, DestTypes
  <2>4. CurrentIntent.deposit \in Deposits /\ CurrentIntent.terms \in Terms(CurrentIntent.deposit)
    <3>1. todo # <<>>
      BY <1>12 DEF SaveRecord, AutoInv, TodoPart
    <3>2. CurrentIntent.deposit \in Deposits /\ CurrentIntent.terms \in asked[CurrentIntent.deposit]
      BY <3>1, TodoTyped DEF AutoInv, TodoPart
    <3> QED
      BY <3>2 DEF AutoInv, PostsPart
  <2>5. transferID \in TransferIDs \cup {NoTransferID} /\ File(file)
    BY DEF AutoInv, TodoPart, FileTypes
  <2>6. File(intents)'
    <3>1. File(WithIntent(file, CurrentIntent.deposit, IntentWith(CurrentIntent.terms, transferID)))
      BY <2>4, <2>5, WrittenTyped
    <3> QED
      BY <1>12, <3>1 DEF SaveRecord, File
  <2>7. FileTypes'
    BY <1>0, <1>12, <2>6 DEF SaveRecord, FileTypes, File
  <2> QED
    BY <2>1, <2>2, <2>3, <2>7
<1>13. ASSUME NEW relayed \in SUBSET TransferIDs, received' = received \cup relayed,
              UNCHANGED <<routerVars, zoneVars, intentVars, destHeight>>,
              UNCHANGED <<timeoutHeight, bridgeWorks>>, File(file)', pc' \in Places,
              unanswered' \subseteq Deposits
       PROVE  AutoTypes'
  <2>1. RouterTypeOK'
    BY <1>13, RouterTypesStay
  <2>2. WalletTypes' /\ PoolTypes'
    BY <1>13 DEF zoneVars, WalletTypes, PoolTypes, IsTx
  <2>3. FileTypes'
    BY <1>13 DEF intentVars, FileTypes, File
  <2>4. DestTypes'
    BY <1>13 DEF intentVars, DestTypes
  <2> QED
    BY <1>13, <2>1, <2>2, <2>3, <2>4
<1>14. CASE Flush
  <2>1. Deliverable \in SUBSET TransferIDs
    BY DEF Deliverable, Existing
  <2>2. pc' \in Places /\ unanswered' \subseteq Deposits
    BY <1>14 DEF Flush, NextIntent, Places, DestTypes
  <2> QED
    BY <1>0, <1>13, <1>14, <2>1, <2>2 DEF Flush
<1>15. ASSUME NEW relayed \in SUBSET TransferIDs, Fail(relayed) PROVE AutoTypes'
  <2>1. pc = "wait" => CurrentIntent.deposit \in Deposits
    BY TodoTyped DEF AutoInv, TodoPart
  <2>2. unanswered' \subseteq Deposits
    BY <1>15, <2>1 DEF Fail, DestTypes
  <2>3. pc' \in Places /\ File(file)'
    BY <1>0, <1>15 DEF Fail, EndRun, Places
  <2> QED
    BY <1>13, <1>15, <2>2, <2>3 DEF Fail
<1>16. ASSUME NEW tx \in mempool, ExecuteTx(tx) PROVE AutoTypes'
  <2>1. RouterTypeOK'
    <3>1. /\ nextSequence <= MaxTransfers /\ nextSequence' = nextSequence + 1
          /\ tx.payload.amount > 0 /\ UNCHANGED policyOfRoutes
          /\ transportSessions' = [transportSessions EXCEPT
                                      ![nextSequence] = "handshake_pending"]
      BY <1>16 DEF ExecuteTx, InitiateTransferWithProfile, InitiateOver
    <3>2. PICK denom :
             transfers' = [transfers EXCEPT ![nextSequence] =
                 [asset |-> tx.payload.asset, amount |-> tx.payload.amount,
                  receiver |-> tx.payload.receiver, denom |-> denom,
                  memo |-> Memo(tx.deposit), status |-> "pending"]]
      BY <1>16 DEF ExecuteTx, InitiateTransferWithProfile, InitiateOver
    <3> QED
      BY <3>1, <3>2, StoredTransfer
  <2>2. WalletTypes'
    BY <1>16, WalletPays DEF ExecuteTx
  <2>3. FileTypes'
    BY <1>16 DEF ExecuteTx, intentVars, FileTypes, File
  <2>4. PoolTypes'
    BY <1>16 DEF ExecuteTx, PoolTypes, IsTx
  <2>5. DestTypes'
    BY <1>16 DEF ExecuteTx, intentVars, destVars, DestTypes
  <2>6. pc' \in Places
    BY <1>16 DEF ExecuteTx, Places
  <2> QED
    BY <2>1, <2>2, <2>3, <2>4, <2>5, <2>6
<1>17. ASSUME NEW tx \in mempool, RefuseTx(tx) \/ FailTx(tx) PROVE AutoTypes'
  <2>1. Refused(tx)
    BY <1>17 DEF RefuseTx, FailTx
  <2>2. WalletTypes'
    BY <2>1 DEF Refused, WalletTypes
  <2>3. FileTypes'
    <3>1. File(file)'
      BY <1>0, <2>1 DEF Refused, EndRun
    <3> QED
      BY <2>1, <3>1 DEF Refused, intentVars, FileTypes, File
  <2>4. PoolTypes'
    BY <2>1 DEF Refused, PoolTypes, IsTx
  <2>5. DestTypes'
    BY <2>1 DEF Refused, intentVars, destVars, DestTypes
  <2>6. pc' \in Places
    BY <2>1 DEF Refused, EndRun, Places
  <2>7. CASE RefuseTx(tx)
    BY <2>2, <2>3, <2>4, <2>5, <2>6, <2>7, RouterTypesStay DEF RefuseTx
  <2>8. CASE FailTx(tx)
    <3>1. /\ nextSequence <= MaxTransfers /\ nextSequence' = nextSequence + 1
          /\ tx.payload.amount > 0 /\ UNCHANGED policyOfRoutes
          /\ transportSessions' = [transportSessions EXCEPT ![nextSequence] = "ack_failed"]
      BY <2>8 DEF FailTx, MayLeave, CanPay
    <3>2. PICK denom :
             transfers' = [transfers EXCEPT ![nextSequence] =
                 [asset |-> tx.payload.asset, amount |-> tx.payload.amount,
                  receiver |-> tx.payload.receiver, denom |-> denom,
                  memo |-> Memo(tx.deposit), status |-> "ack_failed"]]
      BY <2>8 DEF FailTx
    <3>3. RouterTypeOK'
      BY <3>1, <3>2, StoredTransfer
    <3> QED
      BY <2>2, <2>3, <2>4, <2>5, <2>6, <3>3
  <2> QED
    BY <1>17, <2>7, <2>8
<1>18. CASE DestinationAdvances
  <2>1. RouterTypeOK' /\ pc' \in Places
    BY <1>18, RouterTypesStay DEF DestinationAdvances, runVars
  <2>2. WalletTypes' /\ PoolTypes'
    BY <1>18 DEF DestinationAdvances, zoneVars, runVars, WalletTypes, PoolTypes, IsTx
  <2>3. FileTypes'
    BY <1>18 DEF DestinationAdvances, intentVars, runVars, FileTypes, File
  <2>4. DestTypes'
    BY <1>18, AutoAssumption DEF DestinationAdvances, intentVars, runVars, DestTypes
  <2> QED
    BY <2>1, <2>2, <2>3, <2>4
<1>21. CASE EndProcess
  <2>1. pc' \in Places /\ File(file)'
    BY <1>0, <1>21 DEF EndProcess, EndRun, Places
  <2> QED
    BY <1>5, <1>6, <1>21, <2>1 DEF EndProcess
<1>22. CASE BreakBridge
  <2>1. RouterTypeOK' /\ pc' \in Places
    BY <1>22, RouterTypesStay DEF BreakBridge, runVars
  <2>2. WalletTypes' /\ PoolTypes'
    BY <1>22 DEF BreakBridge, zoneVars, runVars, WalletTypes, PoolTypes, IsTx
  <2>3. FileTypes'
    BY <1>22 DEF BreakBridge, intentVars, runVars, FileTypes, File
  <2>4. DestTypes'
    BY <1>22 DEF BreakBridge, intentVars, runVars, destVars, DestTypes
  <2> QED
    BY <2>1, <2>2, <2>3, <2>4
<1>23. ASSUME NEW torn \in BOOLEAN, CrashNode(torn) PROVE AutoTypes'
  <2>1. RouterTypeOK' /\ pc' \in Places
    BY <1>23, RouterTypesStay DEF CrashNode, EndRun, Places
  <2>2. WalletTypes' /\ PoolTypes'
    BY <1>23 DEF CrashNode, WalletTypes, PoolTypes
  <2>3. File(file)'
    BY <1>0, <1>23 DEF CrashNode, EndRun
  <2>4. FileTypes'
    BY <1>23, <2>3 DEF CrashNode, FileTypes, File
  <2>5. DestTypes'
    BY <1>23 DEF CrashNode, destVars, DestTypes
  <2> QED
    BY <2>1, <2>2, <2>4, <2>5
<1> HIDE DEF AutoTypes
<1>19. CASE RunCoordinator
  BY <1>8, <1>9, <1>10, <1>11, <1>12, <1>14, <1>19, <1>21 DEF RunCoordinator
<1>20. CASE MakeBlock
  BY <1>16, <1>17, <1>20 DEF MakeBlock
<1> QED
  BY <1>1, <1>2, <1>3, <1>4, <1>7, <1>15, <1>18, <1>19, <1>20, <1>22, <1>23 DEF AutoNext

(* Wallets never go below zero, a transaction is in the pool only while its hash
   is in the cache, and every part of the state keeps its type
   (applyIBCTransferPayload, Keeper.Debit, RegisterDeliveryIntent). *)
THEOREM AutoTypeCorrect == AutoSpec => []AutoTypeOK
<1>1. AutoInit => AutoTypes
  <2> SUFFICES ASSUME AutoInit PROVE AutoTypes
    OBVIOUS
  <2>1. RouterTypeOK
    <3>1. nextSequence \in 1 .. MaxTransfers + 1
      BY RouterAssumption DEF AutoInit
    <3> QED
      BY <3>1 DEF AutoInit, RouterTypeOK, TransportStage
  <2>2. WalletTypes
    BY DEF AutoInit, WalletTypes
  <2>3. FileTypes
    BY DEF AutoInit, FileTypes, File, NoFile
  <2>4. PoolTypes
    <3>1. 0 \in Timeouts
      BY AutoAssumption DEF Timeouts
    <3> QED
      BY <3>1 DEF AutoInit, PoolTypes
  <2>5. DestTypes
    BY AutoAssumption DEF AutoInit, DestTypes
  <2>6. pc \in Places
    BY DEF AutoInit, Places
  <2> QED
    BY <2>1, <2>2, <2>3, <2>4, <2>5, <2>6 DEF AutoTypes
<1>2. AutoInv /\ AutoTypes /\ [AutoNext]_autoVars => AutoTypes'
  <2>1. CASE UNCHANGED autoVars
    <3> SUFFICES ASSUME AutoTypes PROVE AutoTypes'
      BY <2>1
    <3>1. RouterTypeOK'
      BY <2>1, RouterTypesStay DEF autoVars, AutoTypes
    <3> QED
      BY <2>1, <3>1 DEF autoVars, zoneVars, intentVars, runVars, destVars, AutoTypes,
         WalletTypes, FileTypes, File, PoolTypes, IsTx, DestTypes
  <2> QED
    BY <2>1, AutoTypesStep
<1>3. AutoInv /\ AutoTypes => AutoTypeOK
  BY AutoTypesSuffice
<1> QED
  BY <1>1, <1>2, <1>3, AutoInvariant, PTL DEF AutoSpec
=============================================================================
