------------------------- MODULE ZoneCommandsProofs -------------------------
(***************************************************************************)
(* What the commands of the zone and its daemon keep on disk, for any set of *)
(* processes, deposits, withdrawals and proposals.                           *)
(***************************************************************************)
EXTENDS ZoneCommands, TotalsProofs, SequenceTheorems

Statuses == {"pending", "completed", "ack_failed", "timed_out", "refunded"}

Home == [height : Nat, queue : Seq(Claims),
         claims : SUBSET Claims, credited : SUBSET Claims,
         burned : SUBSET Withdrawals, debited : SUBSET Withdrawals,
         assetOn : BOOLEAN, limit : Nat, policy : {"none", "open", "closed"},
         transfers : Seq(Statuses), proposals : SUBSET ProposalIDs,
         dropped : SUBSET Claims, effects : [ProposalIDs -> Nat]]

(* Nobody has spent what he does not have. *)
Solvent(z) ==
    /\ IsFiniteSet(z.claims) /\ IsFiniteSet(z.credited)
    /\ IsFiniteSet(z.burned) /\ IsFiniteSet(z.debited)
    /\ \A h \in Holders : Balance(z, h) >= 0
    /\ Supply(z) >= 0

(* A state in which no movement of coins is half done. *)
Sound(z) == z.claims = z.credited /\ z.burned = z.debited

(* The effects of proposals in z, when k counts the kills between a change and
   its record; and in a state in which proposal j is not recorded yet. *)
Recorded(z, id) == IF id \in z.proposals THEN 1 ELSE 0

Explained(z, k) == \A id \in ProposalIDs : z.effects[id] = k[id] + Recorded(z, id)

Ahead(z, k, j) ==
    /\ j \in ProposalIDs
    /\ \A id \in ProposalIDs :
           z.effects[id] = k[id] + Recorded(z, id) + IF id = j THEN 1 ELSE 0

(* The same proposals, applied as often. *)
Level(y, z) == z.effects = y.effects /\ z.proposals = y.proposals

(* Whatever was reported as done in y is done in z. *)
Extends(y, z) ==
    /\ y.claims \subseteq z.claims
    /\ y.dropped \subseteq z.claims \cup z.dropped
    /\ y.burned \subseteq z.burned
    /\ y.proposals \subseteq z.proposals
    /\ y.policy # "none" => z.policy # "none"
    /\ \A i \in DOMAIN y.transfers :
           /\ i \in DOMAIN z.transfers
           /\ y.transfers[i] # "pending" => z.transfers[i] # "pending"
    /\ \A i \in DOMAIN y.queue :
           \/ y.queue[i] \in z.claims \cup z.dropped
           \/ \E j \in DOMAIN z.queue : z.queue[j] = y.queue[i]

-----------------------------------------------------------------------------
(* The invariant. *)

States(s) == s \in Seq(Home) /\ \A i \in DOMAIN s : Solvent(s[i])

(* A process, with the fields it has. *)
ClientRecord(c, b) ==
    [step : {"run", "close"}, command : {c}, known : {b}, started : BOOLEAN,
     ok : BOOLEAN, commits : Seq(Home)]

DaemonRecord(b) ==
    [step : {"run", "close"}, known : {b}, started : BOOLEAN, ok : {TRUE},
     memory : Home, commits : Seq(Home)]

IsClient(r) ==
    /\ r \in ClientRecord(r.command, r.known) /\ States(r.commits)
    /\ r.step = "close" => Len(r.commits) = 1

IsDaemon(r) ==
    /\ r \in DaemonRecord(r.known) /\ States(r.commits)
    /\ r.step = "close" => Len(r.commits) = 1
    /\ Solvent(r.memory)
    /\ r.step = "run" /\ r.commits # <<>> => r.memory = Last(r.commits)

(* What is left to write agrees with the kills k; the change of a proposal is
   ahead of its record, and two commits come after it. *)
ProposalAccounts(r, k) ==
    /\ Len(r.commits) <= 3
    /\ r.step = "run" /\ r.commits # <<>> => r.ok
    /\ Len(r.commits) = 3 => ~r.started /\ Ahead(r.commits[1], k, r.command.argument)
    /\ \A i \in DOMAIN r.commits : i >= Len(r.commits) - 1 => Explained(r.commits[i], k)

AllExplained(s, k) == \A i \in DOMAIN s : Explained(s[i], k)

Accounts(r, k) == IF r.command.name = "apply-proposal" THEN ProposalAccounts(r, k)
                  ELSE AllExplained(r.commits, k)

(* It keeps what the process knows to be saved, *)
KeepsKnown(known, z) == \A c \in known : Kept(c, z)

Remembers(r) == \A i \in DOMAIN r.commits : KeepsKnown(r.known, r.commits[i])

(* and what the command is for. *)
Delivers(r, done) ==
    r.step = "run" /\ r.ok =>
        IF r.commits = <<>> THEN r.command \in done ELSE Kept(r.command, Last(r.commits))

ClientOK(r, k, done) ==
    IsClient(r) /\ Accounts(r, k) /\ Remembers(r) /\ Delivers(r, done)

DaemonOK(r, k) ==
    /\ IsDaemon(r) /\ AllExplained(r.commits, k) /\ Remembers(r)
    /\ Explained(r.memory, k) /\ KeepsKnown(r.known, r.memory)

TypePart ==
    /\ mode \in {"json", "sdk"} /\ nodeFile \in {"whole", "truncated"}
    /\ disk \in Home /\ Solvent(disk)
    /\ proc = [p \in Processes |-> proc[p]]
    /\ commands \in 0 .. MaxCommands /\ ticks \in 0 .. MaxTicks
    /\ torn \in BOOLEAN /\ cuts \in [ProposalIDs -> Nat]

ProcessPart ==
    /\ \A p \in Clients : proc[p] = Off \/ ClientOK(proc[p], cuts, saved)
    /\ proc[daemon] = Off \/ DaemonOK(proc[daemon], cuts)

(* The json mode has one file, which is whole.  In the sdk mode one process runs,
   and it knows of all that was saved. *)
JsonPart ==
    mode = "json" =>
        /\ nodeFile = "whole"
        /\ \A p \in Processes : proc[p] # Off => proc[p].step = "run" /\ ~proc[p].started

SdkPart ==
    mode = "sdk" =>
        /\ overwritten = {}
        /\ \A p, q \in Processes : proc[p] # Off /\ proc[q] # Off => p = q
        /\ \A p \in Processes : proc[p] # Off => proc[p].known = saved

FilePart ==
    nodeFile = "truncated" =>
        \A p \in Processes :
            proc[p] # Off => proc[p].commits # <<>> /\ ~KeepersLeft(proc[p])

(* The state on disk is whole unless a process of the sdk mode is in the middle
   of its commits; what any process ends with is whole, with the queue and
   before the queue is written. *)
EndsSound(r) ==
    /\ r.commits # <<>> => Sound(Last(r.commits))
    /\ r.ok /\ Len(r.commits) > 1 => Sound(r.commits[Len(r.commits) - 1])

SoundPart ==
    /\ AtRest => Sound(disk)
    /\ \A p \in Processes : proc[p] # Off => EndsSound(proc[p])
    /\ proc[daemon] # Off => Sound(proc[daemon].memory)

(* The effects on disk are explained, unless a proposal is half applied. *)
HalfDone(r) == MidCommit(r) /\ r.command.name = "apply-proposal"

AccountPart ==
    /\ (\A p \in Clients : ~HalfDone(proc[p])) => Explained(disk, cuts)
    /\ \A p \in Clients : HalfDone(proc[p]) => Ahead(disk, cuts, proc[p].command.argument)

SavedPart ==
    /\ reported \subseteq saved
    /\ \A c \in saved :
           \/ c \in overwritten
           \/ Kept(c, disk)
           \/ nodeFile = "truncated" /\ c.name = "queue-deposit-claim"

CommandsInv ==
    /\ TypePart /\ ProcessPart /\ JsonPart /\ SdkPart /\ FilePart
    /\ ~torn => SoundPart
    /\ AccountPart /\ SavedPart

-----------------------------------------------------------------------------
(* Results of operations. *)

EndsWhole(s) == s # <<>> => Sound(Last(s))

(* A state that an operation on z may write, unless it is a proposal. *)
Writable(z, a) ==
    a \in Home /\ Solvent(a) /\ Extends(z, a) /\ Level(z, a)

GoodResult(z, r) ==
    /\ r.ok \in BOOLEAN /\ States(r.commits)
    /\ \A i \in DOMAIN r.commits : Extends(z, r.commits[i]) /\ Level(z, r.commits[i])
    /\ r.ok => r.commits # <<>>
    /\ Sound(z) => EndsWhole(r.commits)

LEMMA RefusedIsGood ==
    ASSUME NEW z
    PROVE  GoodResult(z, Refused) /\ ~Refused.ok
BY DEF GoodResult, Refused, Result, States, EndsWhole

GoodCommits(z, s) ==
    /\ States(s) /\ s # <<>>
    /\ \A i \in DOMAIN s : Extends(z, s[i]) /\ Level(z, s[i])
    /\ Sound(z) => EndsWhole(s)

LEMMA GoodIfCommitsAre ==
    ASSUME NEW z, NEW s, GoodCommits(z, s)
    PROVE  GoodResult(z, Result(TRUE, s)) /\ GoodResult(z, Result(FALSE, s))
BY DEF GoodCommits, GoodResult, Result

LEMMA OneCommit ==
    ASSUME NEW z, NEW a, Writable(z, a), Sound(z) => Sound(a)
    PROVE  GoodCommits(z, <<a>>) /\ Last(<<a>>) = a
<1> DEFINE s == <<a>>
<1>1. s \in Seq(Home) /\ s # <<>> /\ Last(s) = a /\ \A i \in DOMAIN s : s[i] = a
  BY DEF Writable, Last
<1> HIDE DEF s
<1> QED
  BY <1>1 DEF GoodCommits, Writable, States, EndsWhole, s

LEMMA TwoCommits ==
    ASSUME NEW z, NEW a, NEW b, Writable(z, a), Writable(z, b), Sound(z) => Sound(b)
    PROVE  GoodCommits(z, <<a, b>>) /\ Last(<<a, b>>) = b
<1> DEFINE s == <<a, b>>
<1>1. s \in Seq(Home) /\ s # <<>> /\ Last(s) = b /\ \A i \in DOMAIN s : s[i] = a \/ s[i] = b
  BY DEF Writable, Last
<1> HIDE DEF s
<1> QED
  BY <1>1 DEF GoodCommits, Writable, States, EndsWhole, s

LEMMA ThreeCommits ==
    ASSUME NEW z, NEW a, NEW b, NEW c,
           Writable(z, a), Writable(z, b), Writable(z, c), Sound(z) => Sound(c)
    PROVE  GoodCommits(z, <<a, b, c>>) /\ Last(<<a, b, c>>) = c
<1> DEFINE s == <<a, b, c>>
<1>1. /\ s \in Seq(Home) /\ s # <<>> /\ Last(s) = c
      /\ \A i \in DOMAIN s : s[i] = a \/ s[i] = b \/ s[i] = c
  BY DEF Writable, Last
<1> HIDE DEF s
<1> QED
  BY <1>1 DEF GoodCommits, Writable, States, EndsWhole, s

(* What depends on the ledger only. *)
LEMMA SameLedger ==
    ASSUME NEW z, NEW a, a.claims = z.claims, a.credited = z.credited,
           a.burned = z.burned, a.debited = z.debited
    PROVE  Solvent(z) => Solvent(a)
BY DEF Solvent, Balance, Supply

LEMMA ExtendsItself ==
    ASSUME NEW z
    PROVE  Extends(z, z) /\ Level(z, z)
BY DEF Extends, Level

(* Claims. *)
LEMMA MintedIsSolvent ==
    ASSUME NEW z \in Home, Solvent(z), NEW claim, claim \notin z.claims, NEW a,
           a.claims = z.claims \cup {claim}, a.burned = z.burned, a.debited = z.debited,
           a.credited \in {z.credited, z.credited \cup {claim}}
    PROVE  Solvent(a)
<1>1. /\ IsFiniteSet(a.claims) /\ Cardinality(a.claims) = Cardinality(z.claims) + 1
      /\ IsFiniteSet(z.credited \cup {claim})
  BY FS_AddElement DEF Solvent
<1>2. Cardinality(z.claims) \in Nat /\ Cardinality(z.burned) \in Nat
  BY FS_CardinalityType DEF Solvent
<1>3. Supply(a) >= 0
  BY <1>1, <1>2 DEF Solvent, Supply
<1>4. ASSUME NEW h \in Holders PROVE Balance(a, h) >= 0
  <2> DEFINE C == {c \in z.credited : c.recipient = h}
             D == {c \in a.credited : c.recipient = h}
             B == {w \in z.debited : w.owner = h}
  <2>1. C \subseteq D
    OBVIOUS
  <2>2. IsFiniteSet(C) /\ IsFiniteSet(D) /\ IsFiniteSet(B)
    <3>1. IsFiniteSet(a.credited) /\ IsFiniteSet(z.credited) /\ IsFiniteSet(z.debited)
      BY <1>1 DEF Solvent
    <3> QED
      BY <3>1, FS_Subset
  <2>3. /\ Cardinality(C) \in Nat /\ Cardinality(D) \in Nat /\ Cardinality(B) \in Nat
        /\ Cardinality(C) <= Cardinality(D)
    <3> HIDE DEF C, D, B
    <3> QED
      BY <2>1, <2>2, FS_CardinalityType, FS_Subset
  <2>4. Cardinality(C) - Cardinality(B) >= 0
    BY DEF Solvent, Balance
  <2>5. Balance(a, h) = Cardinality(D) - Cardinality(B)
    BY DEF Balance
  <2> HIDE DEF C, D, B
  <2> QED
    BY <2>3, <2>4, <2>5
<1> QED
  BY <1>1, <1>3, <1>4 DEF Solvent

(* The commits of a claim that is accepted. *)
LEMMA ClaimCommits ==
    ASSUME NEW z \in Home, Solvent(z), NEW claim \in Claims, claim \notin z.claims
    PROVE  LET minted == [z EXCEPT !.claims = @ \cup {claim}]
               done == [minted EXCEPT !.credited = @ \cup {claim}]
           IN  /\ Writable(z, minted) /\ Writable(z, done)
               /\ Sound(z) => Sound(done)
               /\ minted.claims = z.claims \cup {claim} /\ done.claims = z.claims \cup {claim}
               /\ minted.queue = z.queue /\ done.queue = z.queue
               /\ minted.dropped = z.dropped /\ done.dropped = z.dropped
<1> DEFINE minted == [z EXCEPT !.claims = @ \cup {claim}]
           done == [minted EXCEPT !.credited = @ \cup {claim}]
<1>1. minted \in Home /\ done \in Home
  BY DEF Home
<1>2. /\ minted.claims = z.claims \cup {claim} /\ minted.credited = z.credited
      /\ minted.burned = z.burned /\ minted.debited = z.debited
      /\ minted.effects = z.effects /\ minted.proposals = z.proposals
      /\ minted.queue = z.queue /\ minted.dropped = z.dropped
      /\ minted.policy = z.policy /\ minted.transfers = z.transfers
  BY DEF Home
<1>3. /\ done.claims = z.claims \cup {claim} /\ done.credited = z.credited \cup {claim}
      /\ done.burned = z.burned /\ done.debited = z.debited
      /\ done.effects = z.effects /\ done.proposals = z.proposals
      /\ done.queue = z.queue /\ done.dropped = z.dropped
      /\ done.policy = z.policy /\ done.transfers = z.transfers
  BY DEF Home
<1> HIDE DEF minted, done
<1>4. Solvent(minted)
  BY <1>2, MintedIsSolvent
<1>5. Solvent(done)
  BY <1>3, MintedIsSolvent
<1>6. Extends(z, minted) /\ Extends(z, done) /\ Level(z, minted) /\ Level(z, done)
  BY <1>2, <1>3 DEF Extends, Level
<1>7. Sound(z) => Sound(done)
  BY <1>3 DEF Sound
<1> QED
  BY <1>1, <1>2, <1>3, <1>4, <1>5, <1>6, <1>7 DEF Writable, minted, done

LEMMA ClaimIsGood ==
    ASSUME NEW z \in Home, Solvent(z), NEW claim \in Claims
    PROVE  LET r == SubmitDepositClaim(z, claim)
           IN  /\ GoodResult(z, r)
               /\ r.ok => claim \in Last(r.commits).claims
               /\ r.commits # <<>> => /\ Last(r.commits).queue = z.queue
                                      /\ Last(r.commits).dropped = z.dropped
<1>1. CASE claim \in z.claims \/ ~z.assetOn
  <2>1. SubmitDepositClaim(z, claim) = Refused
    BY <1>1 DEF SubmitDepositClaim
  <2>2. Refused.commits = <<>>
    BY DEF Refused, Result
  <2> QED
    BY <2>1, <2>2, RefusedIsGood
<1>2. CASE ~ (claim \in z.claims \/ ~z.assetOn)
  <2> DEFINE minted == [z EXCEPT !.claims = @ \cup {claim}]
             done == [minted EXCEPT !.credited = @ \cup {claim}]
  <2>1. SubmitDepositClaim(z, claim) = Result(TRUE, <<minted, done>>)
    BY <1>2 DEF SubmitDepositClaim
  <2>2. /\ Writable(z, minted) /\ Writable(z, done) /\ (Sound(z) => Sound(done))
        /\ done.claims = z.claims \cup {claim}
        /\ done.queue = z.queue /\ done.dropped = z.dropped
    BY <1>2, ClaimCommits
  <2> HIDE DEF minted, done
  <2>3. GoodResult(z, Result(TRUE, <<minted, done>>)) /\ Last(<<minted, done>>) = done
    BY <2>2, TwoCommits, GoodIfCommitsAre
  <2>4. Result(TRUE, <<minted, done>>).commits = <<minted, done>>
    BY DEF Result
  <2> QED
    BY <2>1, <2>2, <2>3, <2>4
<1> QED
  BY <1>1, <1>2

(* The result of a command: what it reports is kept by what it writes. *)
Serves(z, c, r) ==
    /\ c.name # "apply-proposal"
    /\ GoodResult(z, r) /\ (r.ok => Kept(c, Last(r.commits)))

LEMMA RefusalServes ==
    ASSUME NEW z, NEW c, c.name # "apply-proposal"
    PROVE  Serves(z, c, Refused)
BY RefusedIsGood DEF Serves

LEMMA OneCommitServes ==
    ASSUME NEW z, NEW c, c.name # "apply-proposal", NEW a, Writable(z, a),
           Sound(z) => Sound(a), Kept(c, a)
    PROVE  Serves(z, c, Result(TRUE, <<a>>))
<1>1. GoodResult(z, Result(TRUE, <<a>>)) /\ Last(<<a>>) = a
  BY OneCommit, GoodIfCommitsAre
<1>2. Result(TRUE, <<a>>).commits = <<a>>
  BY DEF Result
<1> QED
  BY <1>1, <1>2 DEF Serves

LEMMA SubmitServes ==
    ASSUME NEW z \in Home, Solvent(z), NEW claim \in Claims
    PROVE  Serves(z, Named("submit-deposit-claim", claim), SubmitDepositClaim(z, claim))
BY ClaimIsGood DEF Serves, Named, Kept

LEMMA QueueServes ==
    ASSUME NEW z \in Home, Solvent(z), NEW claim \in Claims
    PROVE  Serves(z, Named("queue-deposit-claim", claim), QueueDepositClaim(z, claim))
<1> DEFINE a == [z EXCEPT !.queue = Append(@, claim)]
<1>1. z.queue \in Seq(Claims)
  BY DEF Home
<1>2. /\ a.claims = z.claims /\ a.credited = z.credited
      /\ a.burned = z.burned /\ a.debited = z.debited
      /\ a.effects = z.effects /\ a.proposals = z.proposals /\ a.dropped = z.dropped
      /\ a.policy = z.policy /\ a.transfers = z.transfers
      /\ a.queue = Append(z.queue, claim)
  BY DEF Home
<1>3. a \in Home
  <2>1. Append(z.queue, claim) \in Seq(Claims)
    BY <1>1
  <2> QED
    BY <2>1 DEF Home
<1>4. /\ \A i \in DOMAIN z.queue : i \in DOMAIN a.queue /\ a.queue[i] = z.queue[i]
      /\ Len(z.queue) + 1 \in DOMAIN a.queue /\ a.queue[Len(z.queue) + 1] = claim
  BY <1>1, <1>2
<1> HIDE DEF a
<1>5. Extends(z, a)
  BY <1>2, <1>4 DEF Extends
<1>6. (Sound(z) => Sound(a)) /\ Level(z, a)
  BY <1>2 DEF Sound, Level
<1>7. Writable(z, a)
  BY <1>2, <1>3, <1>5, <1>6, SameLedger DEF Writable
<1>8. Kept(Named("queue-deposit-claim", claim), a)
  BY <1>4 DEF Kept, Named
<1>9. Named("queue-deposit-claim", claim).name # "apply-proposal"
  BY DEF Named
<1> QED
  BY <1>6, <1>7, <1>8, <1>9, OneCommitServes DEF QueueDepositClaim, a

LEMMA RouteServes ==
    ASSUME NEW z \in Home, Solvent(z), NEW policy \in {"open", "closed"}
    PROVE  Serves(z, Named("set-route-profile", policy), SetRouteProfile(z, policy))
<1> DEFINE a == [z EXCEPT !.policy = policy]
<1>1. /\ a.claims = z.claims /\ a.credited = z.credited
      /\ a.burned = z.burned /\ a.debited = z.debited
      /\ a.effects = z.effects /\ a.proposals = z.proposals /\ a.dropped = z.dropped
      /\ a.policy = policy /\ a.transfers = z.transfers /\ a.queue = z.queue
  BY DEF Home
<1>2. a \in Home
  BY DEF Home
<1> HIDE DEF a
<1>3. Extends(z, a)
  BY <1>1 DEF Extends
<1>4. (Sound(z) => Sound(a)) /\ Level(z, a)
  BY <1>1 DEF Sound, Level
<1>5. Writable(z, a)
  BY <1>1, <1>2, <1>3, <1>4, SameLedger DEF Writable
<1>6. Kept(Named("set-route-profile", policy), a)
  BY <1>1 DEF Kept, Named
<1>7. Named("set-route-profile", policy).name # "apply-proposal"
  BY DEF Named
<1> QED
  BY <1>4, <1>5, <1>6, <1>7, OneCommitServes DEF SetRouteProfile, a

LEMMA InitiateServes ==
    ASSUME NEW z \in Home, Solvent(z)
    PROVE  Serves(z, Named("initiate-ibc-transfer", Len(z.transfers) + 1),
                  InitiateIBCTransfer(z))
<1> DEFINE a == [z EXCEPT !.transfers = Append(@, "pending")]
           c == Named("initiate-ibc-transfer", Len(z.transfers) + 1)
<1>1. z.transfers \in Seq(Statuses)
  BY DEF Home
<1>2. /\ a.claims = z.claims /\ a.credited = z.credited
      /\ a.burned = z.burned /\ a.debited = z.debited
      /\ a.effects = z.effects /\ a.proposals = z.proposals /\ a.dropped = z.dropped
      /\ a.policy = z.policy /\ a.queue = z.queue
      /\ a.transfers = Append(z.transfers, "pending")
  BY DEF Home
<1>3. a \in Home
  <2>1. Append(z.transfers, "pending") \in Seq(Statuses)
    BY <1>1 DEF Statuses
  <2> QED
    BY <2>1 DEF Home
<1>4. /\ \A i \in DOMAIN z.transfers :
             i \in DOMAIN a.transfers /\ a.transfers[i] = z.transfers[i]
      /\ Len(z.transfers) + 1 \in DOMAIN a.transfers
  BY <1>1, <1>2
<1>5. c.name = "initiate-ibc-transfer" /\ c.argument = Len(z.transfers) + 1
  BY DEF Named
<1> HIDE DEF a, c
<1>6. Extends(z, a)
  BY <1>2, <1>4 DEF Extends
<1>7. (Sound(z) => Sound(a)) /\ Level(z, a)
  BY <1>2 DEF Sound, Level
<1>8. Writable(z, a)
  BY <1>2, <1>3, <1>6, <1>7, SameLedger DEF Writable
<1>9. Kept(c, a)
  BY <1>4, <1>5 DEF Kept
<1>10. Serves(z, c, Result(TRUE, <<a>>))
  BY <1>5, <1>7, <1>8, <1>9, OneCommitServes
<1>11. Serves(z, c, InitiateIBCTransfer(z))
  BY <1>5, <1>10, RefusalServes DEF InitiateIBCTransfer, a
<1> QED
  BY <1>11 DEF c

SettleNames == {"complete-ibc-transfer", "fail-ibc-transfer", "timeout-ibc-transfer",
                "refund-ibc-transfer"}

LEMMA SettleServes ==
    ASSUME NEW z \in Home, Solvent(z), NEW name \in SettleNames, NEW i, NEW from,
           NEW to \in Statuses \ {"pending"}
    PROVE  Serves(z, Named(name, i), SettleTransfer(z, i, from, to))
<1> DEFINE a == [z EXCEPT !.transfers[i] = to]
           c == Named(name, i)
<1>1. z.transfers \in Seq(Statuses)
  BY DEF Home
<1>0. c.name = name /\ name # "apply-proposal"
  BY DEF Named, SettleNames
<1>2. CASE i \notin DOMAIN z.transfers
  BY <1>0, <1>2, RefusalServes DEF SettleTransfer
<1>3. CASE i \in DOMAIN z.transfers /\ z.transfers[i] \notin from
  BY <1>0, <1>3, RefusalServes DEF SettleTransfer
<1>4. CASE i \in DOMAIN z.transfers /\ z.transfers[i] \in from
  <2>1. /\ a.claims = z.claims /\ a.credited = z.credited
        /\ a.burned = z.burned /\ a.debited = z.debited
        /\ a.effects = z.effects /\ a.proposals = z.proposals /\ a.dropped = z.dropped
        /\ a.policy = z.policy /\ a.queue = z.queue
        /\ a.transfers = [z.transfers EXCEPT ![i] = to]
    BY DEF Home
  <2>2. /\ a.transfers \in Seq(Statuses) /\ DOMAIN a.transfers = DOMAIN z.transfers
        /\ a.transfers[i] # "pending"
        /\ \A j \in DOMAIN z.transfers : j # i => a.transfers[j] = z.transfers[j]
    BY <1>1, <1>4, <2>1, ExceptSeq
  <2>3. a \in Home
    BY <2>1, <2>2 DEF Home
  <2>4. c.name = name /\ c.argument = i
    BY DEF Named
  <2> HIDE DEF a, c
  <2>5. Extends(z, a)
    BY <2>1, <2>2 DEF Extends
  <2>6. (Sound(z) => Sound(a)) /\ Level(z, a)
    BY <2>1 DEF Sound, Level
  <2>7. Writable(z, a)
    BY <2>1, <2>3, <2>5, <2>6, SameLedger DEF Writable
  <2>8. Kept(c, a)
    BY <1>4, <2>2, <2>4 DEF Kept, SettleNames
  <2>9. Serves(z, c, Result(TRUE, <<a>>))
    BY <1>0, <2>6, <2>7, <2>8, OneCommitServes
  <2> QED
    BY <1>4, <2>9 DEF SettleTransfer, a, c
<1> QED
  BY <1>2, <1>3, <1>4

(* A proposal takes effect in one keeper and is recorded in another. *)
Proposes(z, c, done, filed) ==
    /\ done \in Home /\ Solvent(done) /\ Extends(z, done)
    /\ filed \in Home /\ Solvent(filed) /\ Extends(z, filed)
    /\ Sound(z) => Sound(filed)
    /\ Kept(c, filed)
    /\ \A k \in [ProposalIDs -> Nat] :
           Explained(z, k) => Ahead(done, k, c.argument) /\ Explained(filed, k)

Enacts(z, c, r) ==
    /\ c.name = "apply-proposal"
    /\ \/ r = Refused
       \/ \E done, filed :
              Proposes(z, c, done, filed) /\ r = Result(TRUE, <<done, filed>>)

LEMMA ProposalServes ==
    ASSUME NEW z \in Home, Solvent(z), NEW p, p.id \in ProposalIDs, NEW changed \in Home,
           changed.claims = z.claims, changed.credited = z.credited,
           changed.burned = z.burned, changed.debited = z.debited,
           changed.queue = z.queue, changed.dropped = z.dropped,
           changed.transfers = z.transfers, changed.effects = z.effects,
           changed.proposals = z.proposals,
           z.policy # "none" => changed.policy # "none"
    PROVE  Enacts(z, Named("apply-proposal", p.id), Effective(z, p, changed))
<1> DEFINE c == Named("apply-proposal", p.id)
           done == [changed EXCEPT !.effects[p.id] = @ + 1]
           filed == [done EXCEPT !.proposals = @ \cup {p.id}]
<1>0. c.name = "apply-proposal" /\ c.argument = p.id
  BY DEF Named
<1>1. CASE ~AssertProposalNotApplied(z, p) \/ ~Authorize(p)
  BY <1>0, <1>1 DEF Effective, Enacts
<1>2. CASE ~ (~AssertProposalNotApplied(z, p) \/ ~Authorize(p))
  <2>1. p.id \notin z.proposals
    BY <1>2 DEF AssertProposalNotApplied
  <2> DEFINE more == [z.effects EXCEPT ![p.id] = @ + 1]
  <2>2. /\ more \in [ProposalIDs -> Nat] /\ z.effects \in [ProposalIDs -> Nat]
        /\ \A id \in ProposalIDs :
               more[id] = z.effects[id] + IF id = p.id THEN 1 ELSE 0
    BY DEF Home
  <2>3. /\ done.claims = z.claims /\ done.credited = z.credited
        /\ done.burned = z.burned /\ done.debited = z.debited
        /\ done.queue = z.queue /\ done.dropped = z.dropped
        /\ done.transfers = z.transfers /\ done.policy = changed.policy
        /\ done.effects = more /\ done.proposals = z.proposals
        /\ done \in Home
    BY <2>2 DEF Home
  <2>4. /\ filed.claims = z.claims /\ filed.credited = z.credited
        /\ filed.burned = z.burned /\ filed.debited = z.debited
        /\ filed.queue = z.queue /\ filed.dropped = z.dropped
        /\ filed.transfers = z.transfers /\ filed.policy = changed.policy
        /\ filed.effects = more
        /\ filed.proposals = z.proposals \cup {p.id}
        /\ filed \in Home
    <3> HIDE DEF done
    <3> QED
      BY <2>3 DEF Home
  <2> HIDE DEF done, filed, c, more
  <2>5. Extends(z, done) /\ Extends(z, filed)
    BY <2>3, <2>4 DEF Extends
  <2>6. Solvent(done) /\ Solvent(filed)
    BY <2>3, <2>4, SameLedger
  <2>7. Sound(z) => Sound(filed)
    BY <2>4 DEF Sound
  <2>8. Kept(c, filed)
    BY <1>0, <2>4 DEF Kept
  <2>9. ASSUME NEW k \in [ProposalIDs -> Nat], Explained(z, k)
        PROVE  Ahead(done, k, c.argument) /\ Explained(filed, k)
    <3>1. ASSUME NEW id \in ProposalIDs
          PROVE  /\ more[id] = k[id] + Recorded(done, id) + IF id = p.id THEN 1 ELSE 0
                 /\ more[id] = k[id] + Recorded(filed, id)
      <4>1. z.effects[id] = k[id] + Recorded(z, id) /\ k[id] \in Nat
        BY <2>9 DEF Explained
      <4>2. Recorded(done, id) = Recorded(z, id) /\ Recorded(z, id) \in Nat
        BY <2>3 DEF Recorded
      <4>3. CASE id = p.id
        <5>1. Recorded(z, id) = 0 /\ Recorded(filed, id) = 1
          BY <2>1, <2>4, <4>3 DEF Recorded
        <5> QED
          BY <2>2, <4>1, <4>2, <4>3, <5>1
      <4>4. CASE id # p.id
        <5>1. Recorded(filed, id) = Recorded(z, id)
          BY <2>4, <4>4 DEF Recorded
        <5> QED
          BY <2>2, <4>1, <4>2, <4>4, <5>1
      <4> QED
        BY <4>3, <4>4
    <3> QED
      BY <1>0, <2>3, <2>4, <3>1 DEF Ahead, Explained
  <2>10. Proposes(z, c, done, filed)
    BY <2>3, <2>4, <2>5, <2>6, <2>7, <2>8, <2>9 DEF Proposes
  <2>11. Enacts(z, c, Result(TRUE, <<done, filed>>))
    BY <1>0, <2>10 DEF Enacts
  <2> QED
    BY <1>2, <2>11 DEF Effective, done, filed, c
<1> QED
  BY <1>1, <1>2

LEMMA AssetProposalServes ==
    ASSUME NEW z \in Home, Solvent(z), NEW p \in AssetProposals
    PROVE  Enacts(z, Named("apply-proposal", p.id), ApplyAssetStatusProposal(z, p))
<1> DEFINE changed == [z EXCEPT !.assetOn = p.enabled]
<1>1. changed \in Home /\ p.id \in ProposalIDs
  BY CommandsAssumption DEF Home, ProposalIDs
<1>2. /\ changed.claims = z.claims /\ changed.credited = z.credited
      /\ changed.burned = z.burned /\ changed.debited = z.debited
      /\ changed.queue = z.queue /\ changed.dropped = z.dropped
      /\ changed.transfers = z.transfers /\ changed.effects = z.effects
      /\ changed.proposals = z.proposals /\ changed.policy = z.policy
  BY DEF Home
<1> HIDE DEF changed
<1>3. Enacts(z, Named("apply-proposal", p.id), Effective(z, p, changed))
  BY <1>1, <1>2, ProposalServes
<1> QED
  BY <1>3 DEF ApplyAssetStatusProposal, changed

LEMMA LimitProposalServes ==
    ASSUME NEW z \in Home, Solvent(z), NEW p \in LimitProposals
    PROVE  Enacts(z, Named("apply-proposal", p.id), ApplyLimitUpdateProposal(z, p))
<1> DEFINE changed == [z EXCEPT !.limit = p.limit]
<1>1. changed \in Home /\ p.id \in ProposalIDs
  BY CommandsAssumption DEF Home, ProposalIDs
<1>2. /\ changed.claims = z.claims /\ changed.credited = z.credited
      /\ changed.burned = z.burned /\ changed.debited = z.debited
      /\ changed.queue = z.queue /\ changed.dropped = z.dropped
      /\ changed.transfers = z.transfers /\ changed.effects = z.effects
      /\ changed.proposals = z.proposals /\ changed.policy = z.policy
  BY DEF Home
<1> HIDE DEF changed
<1>3. Enacts(z, Named("apply-proposal", p.id), Effective(z, p, changed))
  BY <1>1, <1>2, ProposalServes
<1> QED
  BY <1>3 DEF ApplyLimitUpdateProposal, changed

LEMMA PolicyProposalServes ==
    ASSUME NEW z \in Home, Solvent(z), NEW p \in PolicyProposals
    PROVE  Enacts(z, Named("apply-proposal", p.id), ApplyRoutePolicyUpdateProposal(z, p))
<1> DEFINE changed == [z EXCEPT !.policy = p.policy]
<1>1. changed \in Home /\ p.id \in ProposalIDs
  BY CommandsAssumption DEF Home, ProposalIDs
<1>2. /\ changed.claims = z.claims /\ changed.credited = z.credited
      /\ changed.burned = z.burned /\ changed.debited = z.debited
      /\ changed.queue = z.queue /\ changed.dropped = z.dropped
      /\ changed.transfers = z.transfers /\ changed.effects = z.effects
      /\ changed.proposals = z.proposals /\ changed.policy # "none"
  BY CommandsAssumption DEF Home
<1> HIDE DEF changed
<1>3. Enacts(z, Named("apply-proposal", p.id), Effective(z, p, changed))
  BY <1>1, <1>2, ProposalServes
<1>4. Enacts(z, Named("apply-proposal", p.id), Refused)
  BY DEF Enacts, Named
<1> QED
  BY <1>3, <1>4 DEF ApplyRoutePolicyUpdateProposal, changed

(* Withdrawals. *)
LEMMA BurntIsSolvent ==
    ASSUME NEW z \in Home, Solvent(z), NEW w, w \notin z.burned, Supply(z) >= 1, NEW a,
           a.claims = z.claims, a.credited = z.credited, a.burned = z.burned \cup {w},
           \/ a.debited = z.debited
           \/ a.debited = z.debited \cup {w} /\ Balance(z, w.owner) > 0
    PROVE  Solvent(a)
<1>1. /\ IsFiniteSet(a.burned) /\ Cardinality(a.burned) = Cardinality(z.burned) + 1
      /\ IsFiniteSet(z.debited \cup {w})
  <2>1. IsFiniteSet(z.burned) /\ IsFiniteSet(z.debited)
    BY DEF Solvent
  <2>2. /\ IsFiniteSet(z.burned \cup {w})
        /\ Cardinality(z.burned \cup {w}) = Cardinality(z.burned) + 1
    BY <2>1, FS_AddElement
  <2> QED
    BY <2>1, <2>2, FS_AddElement
<1>2. Cardinality(z.claims) \in Nat /\ Cardinality(z.burned) \in Nat
  BY FS_CardinalityType DEF Solvent
<1>3. Supply(a) >= 0
  BY <1>1, <1>2 DEF Supply
<1>4. ASSUME NEW h \in Holders PROVE Balance(a, h) >= 0
  <2> DEFINE C == {c \in z.credited : c.recipient = h}
             B == {v \in z.debited : v.owner = h}
             D == {v \in a.debited : v.owner = h}
  <2>1. IsFiniteSet(C) /\ IsFiniteSet(B)
    BY FS_Subset DEF Solvent
  <2>2. Cardinality(C) \in Nat /\ Cardinality(B) \in Nat
    <3> HIDE DEF C, B
    <3> QED
      BY <2>1, FS_CardinalityType
  <2>3. Cardinality(C) - Cardinality(B) >= 0
    BY DEF Solvent, Balance
  <2>4. Balance(a, h) = Cardinality(C) - Cardinality(D)
    BY DEF Balance
  <2>5. CASE D = B
    <3> HIDE DEF C, B, D
    <3> QED
      BY <2>2, <2>3, <2>4, <2>5
  <2>6. CASE D # B
    <3>1. D = B \cup {w} /\ h = w.owner /\ Balance(z, w.owner) > 0
      BY <2>6
    <3>2. Cardinality(C) - Cardinality(B) > 0
      BY <3>1 DEF Balance
    <3> HIDE DEF C, B, D
    <3>3. Cardinality(D) <= Cardinality(B) + 1 /\ Cardinality(D) \in Nat
      <4>1. IsFiniteSet(D) /\ Cardinality(D) = IF w \in B THEN Cardinality(B)
                                                ELSE Cardinality(B) + 1
        BY <2>1, <3>1, FS_AddElement
      <4> QED
        BY <2>2, <4>1
    <3> QED
      BY <2>2, <2>4, <3>2, <3>3
  <2> QED
    BY <2>5, <2>6
<1> QED
  BY <1>1, <1>3, <1>4 DEF Solvent

(* With or without a commit of the height first. *)
LEMMA AfterHeight ==
    ASSUME NEW z, NEW start, NEW a, NEW b,
           NEW raised, raised = <<>> \/ raised = <<start>>,
           Writable(z, start), Writable(z, a), Writable(z, b), Sound(z) => Sound(b)
    PROVE  GoodCommits(z, raised \o <<a, b>>) /\ Last(raised \o <<a, b>>) = b
<1> DEFINE t == <<a, b>>
<1>1. t \in Seq(Home) /\ Len(t) = 2 /\ t[1] = a /\ t[2] = b
  BY DEF Writable
<1>2. CASE raised = <<>>
  <2>1. raised \o t = t
    <3> HIDE DEF t
    <3> QED
      BY <1>1, <1>2, ConcatEmptySeq
  <2>2. GoodCommits(z, t) /\ Last(t) = b
    BY TwoCommits
  <2> QED
    BY <2>1, <2>2
<1>3. CASE raised = <<start>>
  <2>1. raised \in Seq(Home) /\ Len(raised) = 1 /\ raised[1] = start
    BY <1>3 DEF Writable
  <2> DEFINE u == raised \o t
             v == <<start, a, b>>
  <2>2. /\ u \in Seq(Home) /\ Len(u) = 3
        /\ u[1] = start /\ u[2] = a /\ u[3] = b
    <3> HIDE DEF t
    <3>1. /\ u \in Seq(Home) /\ Len(u) = Len(raised) + Len(t)
          /\ \A i \in 1 .. Len(raised) + Len(t) :
                 u[i] = IF i <= Len(raised) THEN raised[i] ELSE t[i - Len(raised)]
      <4>1. raised \in Seq(Home) /\ t \in Seq(Home)
        BY <1>1, <2>1
      <4> QED
        BY <4>1, ConcatProperties, Zenon
    <3> HIDE DEF u
    <3>2. u[1] = raised[1] /\ u[2] = t[1] /\ u[3] = t[2]
      BY <1>1, <2>1, <3>1
    <3> QED
      BY <1>1, <2>1, <3>1, <3>2
  <2>3. v \in Seq(Home) /\ Len(v) = 3 /\ v[1] = start /\ v[2] = a /\ v[3] = b
    BY DEF Writable
  <2>4. u = v
    <3> HIDE DEF u, v
    <3>1. \A i \in 1 .. 3 : i = 1 \/ i = 2 \/ i = 3
      OBVIOUS
    <3>2. \A i \in 1 .. Len(u) : u[i] = v[i]
      BY <2>2, <2>3, <3>1
    <3> QED
      BY <2>2, <2>3, <3>2, SeqEqual
  <2>5. GoodCommits(z, v) /\ Last(v) = b
    BY ThreeCommits
  <2> QED
    BY <2>4, <2>5
<1> QED
  BY <1>2, <1>3

LEMMA WithdrawalServes ==
    ASSUME NEW z \in Home, Solvent(z), NEW w \in Withdrawals, w \notin z.burned
    PROVE  Serves(z, Named("execute-withdrawal", w), ExecuteWithdrawal(z, w))
<1> DEFINE c == Named("execute-withdrawal", w)
           raised == IF w.height > 0 THEN <<[z EXCEPT !.height = w.height]>> ELSE <<>>
           start == IF w.height > 0 THEN raised[1] ELSE z
           burnt == [start EXCEPT !.burned = @ \cup {w}]
           paid == [burnt EXCEPT !.debited = @ \cup {w}]
<1>1. /\ start \in Home /\ raised \in {<<>>, <<start>>}
      /\ start.claims = z.claims /\ start.credited = z.credited
      /\ start.burned = z.burned /\ start.debited = z.debited
      /\ start.queue = z.queue /\ start.dropped = z.dropped
      /\ start.transfers = z.transfers /\ start.effects = z.effects
      /\ start.proposals = z.proposals /\ start.policy = z.policy
  BY CommandsAssumption DEF Home
<1>2. ExecuteWithdrawal(z, w) =
          IF ~z.assetOn \/ Supply(z) < 1 THEN Result(FALSE, raised)
          ELSE IF ~WalletCovers(z, w) THEN Result(FALSE, raised \o <<burnt, start>>)
          ELSE Result(TRUE, raised \o <<burnt, paid>>)
  BY DEF ExecuteWithdrawal, RolledBack
<1> HIDE DEF start, raised
<1>3. /\ burnt \in Home
      /\ burnt.claims = z.claims /\ burnt.credited = z.credited
      /\ burnt.burned = z.burned \cup {w} /\ burnt.debited = z.debited
      /\ burnt.queue = z.queue /\ burnt.dropped = z.dropped
      /\ burnt.transfers = z.transfers /\ burnt.effects = z.effects
      /\ burnt.proposals = z.proposals /\ burnt.policy = z.policy
  BY <1>1 DEF Home
<1> HIDE DEF burnt
<1>4. /\ paid \in Home
      /\ paid.claims = z.claims /\ paid.credited = z.credited
      /\ paid.burned = z.burned \cup {w} /\ paid.debited = z.debited \cup {w}
      /\ paid.queue = z.queue /\ paid.dropped = z.dropped
      /\ paid.transfers = z.transfers /\ paid.effects = z.effects
      /\ paid.proposals = z.proposals /\ paid.policy = z.policy
  BY <1>3 DEF Home
<1> HIDE DEF paid
<1>5. Extends(z, start) /\ Extends(z, burnt) /\ Extends(z, paid)
  BY <1>1, <1>3, <1>4 DEF Extends
<1>6. Level(z, start) /\ Level(z, burnt) /\ Level(z, paid)
  BY <1>1, <1>3, <1>4 DEF Level
<1>7. Sound(z) => Sound(start) /\ Sound(paid)
  BY <1>1, <1>4 DEF Sound
<1>9. c.name # "apply-proposal"
  BY DEF Named
<1>8. Writable(z, start)
  BY <1>1, <1>5, <1>6, SameLedger DEF Writable
<1>10. CASE ~z.assetOn \/ Supply(z) < 1
  <2>1. GoodResult(z, Result(FALSE, raised))
    <3>1. CASE raised = <<>>
      BY <3>1, RefusedIsGood DEF Refused
    <3>2. CASE raised = <<start>>
      <4>1. GoodResult(z, Result(FALSE, <<start>>))
        BY <1>7, <1>8, OneCommit, GoodIfCommitsAre
      <4> QED
        BY <3>2, <4>1
    <3> QED
      BY <1>1, <3>1, <3>2
  <2>2. ~Result(FALSE, raised).ok
    BY DEF Result
  <2> QED
    BY <1>2, <1>9, <1>10, <2>1, <2>2 DEF Serves
<1>11. CASE ~ (~z.assetOn \/ Supply(z) < 1)
  <2>1. Supply(z) >= 1
    <3>1. Cardinality(z.claims) \in Nat /\ Cardinality(z.burned) \in Nat
      BY FS_CardinalityType DEF Solvent
    <3>2. Supply(z) \in Int
      BY <3>1 DEF Supply
    <3> QED
      BY <1>11, <3>2
  <2>2. Writable(z, burnt)
    BY <1>3, <1>5, <1>6, <2>1, BurntIsSolvent DEF Writable
  <2>3. CASE ~WalletCovers(z, w)
    <3> DEFINE s == raised \o <<burnt, start>>
    <3>1. GoodResult(z, Result(FALSE, s))
      <4>1. (raised = <<>> \/ raised = <<start>>) /\ (Sound(z) => Sound(start))
        BY <1>1, <1>7
      <4>2. GoodCommits(z, s)
        BY <1>8, <2>2, <4>1, AfterHeight
      <4> QED
        BY <4>2, GoodIfCommitsAre
    <3>2. ~Result(FALSE, s).ok
      BY DEF Result
    <3>3. ExecuteWithdrawal(z, w) = Result(FALSE, s)
      BY <1>2, <1>11, <2>3
    <3> QED
      BY <1>9, <3>1, <3>2, <3>3 DEF Serves
  <2>4. CASE WalletCovers(z, w)
    <3> DEFINE s == raised \o <<burnt, paid>>
    <3>1. Balance(z, w.owner) > 0
      BY <2>4 DEF WalletCovers
    <3>2. Writable(z, paid)
      BY <1>4, <1>5, <1>6, <2>1, <3>1, BurntIsSolvent DEF Writable
    <3>3. GoodResult(z, Result(TRUE, s)) /\ Last(s) = paid
      <4>1. (raised = <<>> \/ raised = <<start>>) /\ (Sound(z) => Sound(paid))
        BY <1>1, <1>7
      <4>2. GoodCommits(z, s) /\ Last(s) = paid
        BY <1>8, <2>2, <3>2, <4>1, AfterHeight
      <4> QED
        BY <4>2, GoodIfCommitsAre
    <3>4. Result(TRUE, s).commits = s
      BY DEF Result
    <3>5. Kept(c, paid)
      BY <1>4 DEF Kept, Named
    <3>6. ExecuteWithdrawal(z, w) = Result(TRUE, s)
      BY <1>2, <1>11, <2>4
    <3> HIDE DEF s, c
    <3>7. Serves(z, c, Result(TRUE, s))
      BY <1>9, <3>3, <3>4, <3>5 DEF Serves
    <3> QED
      BY <3>6, <3>7 DEF c
  <2> QED
    BY <2>3, <2>4
<1> QED
  BY <1>10, <1>11

-----------------------------------------------------------------------------
(* A block of the daemon. *)

(* Save changes only the queue: what it finds is sound as well. *)
EndsTwice(s) == Len(s) > 1 => Sound(s[Len(s) - 1])

LEMMA ExtendsOn ==
    ASSUME NEW x, NEW y, NEW z, Extends(x, y), Extends(y, z)
    PROVE  Extends(x, z)
<1>1. /\ x.claims \subseteq z.claims /\ x.burned \subseteq z.burned
      /\ x.proposals \subseteq z.proposals
      /\ x.dropped \subseteq z.claims \cup z.dropped
      /\ x.policy # "none" => z.policy # "none"
  BY DEF Extends
<1>2. \A i \in DOMAIN x.transfers :
          /\ i \in DOMAIN z.transfers
          /\ x.transfers[i] # "pending" => z.transfers[i] # "pending"
  BY DEF Extends
<1>3. ASSUME NEW i \in DOMAIN x.queue
      PROVE  \/ x.queue[i] \in z.claims \cup z.dropped
             \/ \E j \in DOMAIN z.queue : z.queue[j] = x.queue[i]
  <2>1. CASE x.queue[i] \in y.claims \cup y.dropped
    BY <2>1 DEF Extends
  <2>2. CASE \E k \in DOMAIN y.queue : y.queue[k] = x.queue[i]
    BY <2>2 DEF Extends
  <2> QED
    BY <2>1, <2>2 DEF Extends
<1> QED
  BY <1>1, <1>2, <1>3 DEF Extends

LEMMA Joined ==
    ASSUME NEW s \in Seq(Home), s # <<>>, NEW t \in Seq(Home)
    PROVE  /\ s \o t \in Seq(Home) /\ s \o t # <<>>
           /\ \A i \in DOMAIN (s \o t) : \/ \E j \in DOMAIN s : (s \o t)[i] = s[j]
                                       \/ \E j \in DOMAIN t : (s \o t)[i] = t[j]
           /\ Last(s \o t) = IF t = <<>> THEN Last(s) ELSE Last(t)
<1> DEFINE u == s \o t
           m == Len(s)
           n == Len(t)
<1>1. /\ u \in Seq(Home) /\ Len(u) = m + n
      /\ \A i \in 1 .. m + n : u[i] = IF i <= m THEN s[i] ELSE t[i - m]
  BY ConcatProperties, Zenon
<1>2. /\ m \in Nat /\ n \in Nat /\ m # 0 /\ (t = <<>> <=> n = 0)
      /\ DOMAIN s = 1 .. m /\ DOMAIN t = 1 .. n
  BY EmptySeq, LenProperties
<1> HIDE DEF u, m, n
<1>3. DOMAIN u = 1 .. m + n
  BY <1>1, LenProperties
<1>4. u # <<>>
  BY <1>1, <1>2, EmptySeq
<1>5. ASSUME NEW i \in DOMAIN u
      PROVE  \/ \E j \in DOMAIN s : u[i] = s[j]
             \/ \E j \in DOMAIN t : u[i] = t[j]
  <2>1. CASE i <= m
    BY <1>1, <1>2, <1>3, <2>1
  <2>2. CASE ~ (i <= m)
    <3>1. i - m \in 1 .. n /\ u[i] = t[i - m]
      BY <1>1, <1>2, <1>3, <2>2
    <3> QED
      BY <1>2, <3>1
  <2> QED
    BY <2>1, <2>2
<1>6. u[m + n] = IF n = 0 THEN s[m] ELSE t[n]
  BY <1>1, <1>2
<1>7. Last(u) = IF t = <<>> THEN Last(s) ELSE Last(t)
  BY <1>1, <1>2, <1>6 DEF Last, m, n
<1> QED
  BY <1>1, <1>4, <1>5, <1>7 DEF u

(* What a block has written so far. *)
Block(z) == {s \in Seq(Home) : /\ GoodCommits(z, s)
                               /\ Last(s).queue = z.queue /\ Last(s).dropped = z.dropped}

LEMMA LastOfGood ==
    ASSUME NEW z, NEW s, GoodCommits(z, s)
    PROVE  /\ Last(s) \in Home /\ Solvent(Last(s)) /\ Extends(z, Last(s))
           /\ Level(z, Last(s)) /\ (Sound(z) => Sound(Last(s)))
<1>1. s \in Seq(Home) /\ s # <<>>
  BY DEF GoodCommits, States
<1>2. Len(s) \in DOMAIN s /\ s[Len(s)] \in Home
  BY <1>1
<1> QED
  BY <1>1, <1>2 DEF GoodCommits, States, EndsWhole, Last

LEMMA BlockGoesOn ==
    ASSUME NEW z \in Home, NEW s \in Block(z), NEW claim \in Claims
    PROVE  s \o SubmitDepositClaim(Last(s), claim).commits \in Block(z)
<1> DEFINE y == Last(s)
           t == SubmitDepositClaim(y, claim).commits
           u == s \o t
<1>1. s \in Seq(Home) /\ s # <<>> /\ GoodCommits(z, s)
  BY DEF Block, GoodCommits
<1>2. y \in Home /\ Solvent(y) /\ Extends(z, y) /\ Level(z, y) /\ (Sound(z) => Sound(y))
  BY <1>1, LastOfGood
<1> HIDE DEF y
<1>3. /\ GoodResult(y, SubmitDepositClaim(y, claim))
      /\ t # <<>> => Last(t).queue = y.queue /\ Last(t).dropped = y.dropped
  BY <1>2, ClaimIsGood
<1>4. /\ t \in Seq(Home) /\ (\A i \in DOMAIN t : Solvent(t[i]))
      /\ \A i \in DOMAIN t : Extends(y, t[i]) /\ Level(y, t[i])
      /\ Sound(y) => EndsWhole(t)
  BY <1>3 DEF GoodResult, States
<1> HIDE DEF t
<1>5. /\ u \in Seq(Home) /\ u # <<>>
      /\ \A i \in DOMAIN u : \/ \E j \in DOMAIN s : u[i] = s[j]
                            \/ \E j \in DOMAIN t : u[i] = t[j]
      /\ Last(u) = IF t = <<>> THEN y ELSE Last(t)
  BY <1>1, <1>4, Joined DEF y
<1> HIDE DEF u
<1>6. ASSUME NEW i \in DOMAIN u PROVE Solvent(u[i]) /\ Extends(z, u[i]) /\ Level(z, u[i])
  <2>1. CASE \E j \in DOMAIN s : u[i] = s[j]
    BY <1>1, <2>1 DEF GoodCommits, States
  <2>2. CASE \E j \in DOMAIN t : u[i] = t[j]
    BY <1>2, <1>4, <2>2, ExtendsOn DEF Level
  <2> QED
    BY <1>5, <2>1, <2>2
<1>7. ASSUME Sound(z) PROVE EndsWhole(u)
  <2>1. EndsWhole(s) /\ EndsWhole(t) /\ Sound(y)
    BY <1>1, <1>2, <1>4, <1>7 DEF GoodCommits
  <2> QED
    BY <1>5, <2>1 DEF EndsWhole
<1>8. Last(u).queue = z.queue /\ Last(u).dropped = z.dropped
  <2>1. y.queue = z.queue /\ y.dropped = z.dropped
    BY DEF Block, y
  <2> QED
    BY <1>3, <1>5, <2>1
<1>9. GoodCommits(z, u)
  BY <1>5, <1>6, <1>7 DEF GoodCommits, States
<1> QED
  BY <1>5, <1>8, <1>9 DEF Block, u, t, y

LEMMA BlockBegins ==
    ASSUME NEW z \in Home, Solvent(z)
    PROVE  <<[z EXCEPT !.height = @ + 1]>> \in Block(z)
<1> DEFINE a == [z EXCEPT !.height = @ + 1]
<1>0. a \in Home
  <2>1. z.height + 1 \in Nat
    BY DEF Home
  <2> QED
    BY <2>1 DEF Home
<1>1. /\ a.claims = z.claims /\ a.credited = z.credited
      /\ a.burned = z.burned /\ a.debited = z.debited
      /\ a.effects = z.effects /\ a.proposals = z.proposals /\ a.dropped = z.dropped
      /\ a.policy = z.policy /\ a.transfers = z.transfers /\ a.queue = z.queue
  BY DEF Home
<1> HIDE DEF a
<1>2. Extends(z, a)
  BY <1>1 DEF Extends
<1>3. (Sound(z) => Sound(a)) /\ Level(z, a)
  BY <1>1 DEF Sound, Level
<1>4. Writable(z, a)
  BY <1>0, <1>1, <1>2, <1>3, SameLedger DEF Writable
<1>5. GoodCommits(z, <<a>>) /\ Last(<<a>>) = a
  BY <1>3, <1>4, OneCommit
<1>6. <<a>> \in Seq(Home)
  BY <1>0
<1> QED
  BY <1>1, <1>5, <1>6 DEF Block, a

(* The last commit empties the queue: each claim was accepted or is dropped. *)
LEMMA BlockEnds ==
    ASSUME NEW z \in Home, NEW s \in Block(z)
    PROVE  LET refused == Range(z.queue) \ Last(s).claims
               final == [Last(s) EXCEPT !.queue = <<>>, !.dropped = @ \cup refused]
           IN  /\ GoodCommits(z, Append(s, final))
               /\ Last(Append(s, final)) = final
               /\ Sound(z) => EndsTwice(Append(s, final))
<1> DEFINE y == Last(s)
           refused == Range(z.queue) \ y.claims
           final == [y EXCEPT !.queue = <<>>, !.dropped = @ \cup refused]
           u == Append(s, final)
<1>1. s \in Seq(Home) /\ s # <<>> /\ GoodCommits(z, s)
  BY DEF Block, GoodCommits
<1>2. y \in Home /\ Solvent(y) /\ Extends(z, y) /\ Level(z, y) /\ (Sound(z) => Sound(y))
  BY <1>1, LastOfGood
<1> HIDE DEF y
<1>3. refused \subseteq Claims
  <2>1. z.queue \in Seq(Claims)
    BY DEF Home
  <2> QED
    BY <2>1 DEF Range
<1>4. \A i \in DOMAIN z.queue : z.queue[i] \in y.claims \cup refused
  BY DEF Range
<1> HIDE DEF refused
<1>0. final \in Home
  <2>1. <<>> \in Seq(Claims) /\ y.dropped \cup refused \in SUBSET Claims
    BY <1>2, <1>3 DEF Home
  <2> QED
    BY <1>2, <2>1 DEF Home
<1>5. /\ final.claims = y.claims /\ final.credited = y.credited
      /\ final.burned = y.burned /\ final.debited = y.debited
      /\ final.effects = y.effects /\ final.proposals = y.proposals
      /\ final.dropped = y.dropped \cup refused
      /\ final.policy = y.policy /\ final.transfers = y.transfers
  BY <1>2 DEF Home
<1> HIDE DEF final
<1>6. Extends(z, final) /\ Level(z, final)
  BY <1>2, <1>4, <1>5 DEF Extends, Level
<1>7. Sound(z) => Sound(final) /\ Sound(y)
  BY <1>2, <1>5 DEF Sound
<1>8. Solvent(final)
  BY <1>2, <1>5, SameLedger
<1>9. /\ u \in Seq(Home) /\ u # <<>> /\ Last(u) = final /\ u[Len(u) - 1] = y
      /\ \A i \in DOMAIN u : u[i] = final \/ \E j \in DOMAIN s : u[i] = s[j]
  <2>1. /\ u \in Seq(Home) /\ Len(u) = Len(s) + 1 /\ u[Len(s) + 1] = final
        /\ \A i \in 1 .. Len(s) : u[i] = s[i]
    BY <1>0, <1>1, AppendProperties
  <2>2. DOMAIN s = 1 .. Len(s) /\ DOMAIN u = 1 .. Len(s) + 1 /\ Len(s) \in Nat
    BY <1>1, <2>1
  <2> HIDE DEF u
  <2>3. u # <<>>
    BY <2>1, <2>2, EmptySeq
  <2>4. ASSUME NEW i \in DOMAIN u PROVE u[i] = final \/ \E j \in DOMAIN s : u[i] = s[j]
    <3>1. i = Len(s) + 1 \/ i \in 1 .. Len(s)
      BY <2>2
    <3> QED
      BY <2>1, <2>2, <3>1
  <2>5. u[Len(u) - 1] = y
    BY <1>1, <2>1, <2>2, EmptySeq DEF Last, y
  <2> QED
    BY <2>1, <2>3, <2>4, <2>5 DEF Last
<1> HIDE DEF u
<1>10. ASSUME NEW i \in DOMAIN u PROVE Solvent(u[i]) /\ Extends(z, u[i]) /\ Level(z, u[i])
  BY <1>1, <1>6, <1>8, <1>9 DEF GoodCommits, States
<1>11. Sound(z) => EndsWhole(u)
  BY <1>1, <1>7, <1>9 DEF GoodCommits, EndsWhole
<1>12. GoodCommits(z, u)
  BY <1>9, <1>10, <1>11 DEF GoodCommits, States
<1> QED
  BY <1>7, <1>9, <1>12 DEF EndsTwice, u, final, refused, y

LEMMA BlockIsGood ==
    ASSUME NEW z \in Home, Solvent(z)
    PROVE  /\ GoodCommits(z, AdvanceBlock(z).commits)
           /\ Sound(z) => EndsTwice(AdvanceBlock(z).commits)
<1> DEFINE N == Len(z.queue)
           S == Block(z)
           base == <<[z EXCEPT !.height = @ + 1]>>
           next(s, n) == s \o SubmitDepositClaim(Last(s), z.queue[n]).commits
           step == [n \in 1 .. N |-> [s \in S |-> next(s, n)]]
           f == CHOOSE f : f = [n \in 0 .. N |-> IF n = 0 THEN base ELSE next(f[n - 1], n)]
<1>1. N \in Nat /\ \A n \in 1 .. N : z.queue[n] \in Claims
  BY DEF Home
<1>2. base \in S
  BY BlockBegins
<1>3. ASSUME NEW n \in 1 .. N, NEW s \in S PROVE next(s, n) \in S
  BY <1>1, BlockGoesOn
<1>4. \A n \in 1 .. N : \A s \in S : step[n][s] = next(s, n) /\ step[n][s] \in S
  <2> HIDE DEF S, N, next
  <2> QED BY <1>3
<1>5. \E h : IsRun(h, S, step, N, base)
  <2>1. StaysIn(S, step, N)
    <3> HIDE DEF S, N, step
    <3> QED BY <1>4 DEF StaysIn
  <2> HIDE DEF S, N, step, base
  <2> QED BY <1>1, <1>2, <2>1, LoopHasRun
<1>6. PICK h \in [0 .. N -> S] : h[0] = base /\ \A n \in 1 .. N : h[n] = step[n][h[n - 1]]
  <2> HIDE DEF S, N, step, base
  <2> QED BY <1>5 DEF IsRun
<1>7. h = [n \in 0 .. N |-> IF n = 0 THEN base ELSE next(h[n - 1], n)]
  <2>1. ASSUME NEW n \in 0 .. N
        PROVE  h[n] = IF n = 0 THEN base ELSE next(h[n - 1], n)
    <3>1. CASE n = 0
      BY <1>6, <3>1
    <3>2. CASE n # 0
      <4>1. n \in 1 .. N /\ n - 1 \in 0 .. N
        BY <1>1, <3>2
      <4>2. h[n - 1] \in S
        BY <4>1
      <4> HIDE DEF S, N, step, next, base
      <4> QED
        BY <1>4, <1>6, <3>2, <4>1, <4>2
    <3> QED
      BY <3>1, <3>2
  <2> HIDE DEF N, next, base
  <2> QED
    BY <2>1
<1>8. f = [n \in 0 .. N |-> IF n = 0 THEN base ELSE next(f[n - 1], n)]
  <2> HIDE DEF N, next, base
  <2> QED
    BY <1>7
<1> DEFINE states == f[N]
           refused == Range(z.queue) \ Last(states).claims
           final == [Last(states) EXCEPT !.queue = <<>>, !.dropped = @ \cup refused]
<1>9. AdvanceBlock(z).commits = Append(states, final)
  BY DEF AdvanceBlock, Result
<1> HIDE DEF f, S, base, next
<1>10. f[0] = base /\ \A n \in 1 .. N : f[n] = next(f[n - 1], n)
  <2>1. 0 \in 0 .. N /\ \A n \in 1 .. N : n \in 0 .. N /\ n # 0
    BY <1>1
  <2> HIDE DEF N
  <2>2. \A n \in 0 .. N : f[n] = IF n = 0 THEN base ELSE next(f[n - 1], n)
    BY <1>8
  <2> QED
    BY <2>1, <2>2
<1> DEFINE T == {n \in 0 .. N : f[n] \in S}
<1>11. 0 \in T
  BY <1>1, <1>2, <1>10
<1>12. ASSUME NEW n \in 1 .. N, n - 1 \in T PROVE n \in T
  BY <1>3, <1>10, <1>12
<1> HIDE DEF T
<1>13. N \in T
  <2>1. N \in Nat /\ \A n \in 1 .. N : n - 1 \in T => n \in T
    BY <1>1, <1>12
  <2> HIDE DEF N
  <2>2. \A n \in 0 .. N : n \in T
    BY <1>11, <2>1, InductionUpTo
  <2> QED
    BY <2>1, <2>2
<1>14. states \in Block(z)
  BY <1>13 DEF T, S
<1> HIDE DEF states
<1> QED
  BY <1>9, <1>14, BlockEnds

-----------------------------------------------------------------------------
(* What a process may be opened with. *)

Opened(step, c, known, r) ==
    [step |-> step, command |-> c, known |-> known, started |-> FALSE, ok |-> r.ok,
     commits |-> r.commits]

OpensLevel(z, c, s) ==
    IF c.name = "apply-proposal"
    THEN \A k \in [ProposalIDs -> Nat] : Explained(z, k) =>
             /\ Len(s) = 3 => Ahead(s[1], k, c.argument)
             /\ \A i \in DOMAIN s : i >= Len(s) - 1 => Explained(s[i], k)
    ELSE \A i \in DOMAIN s : Level(z, s[i])

OpensSound(ok, s) == /\ s # <<>> => Sound(Last(s))
                     /\ ok /\ Len(s) > 1 => Sound(s[Len(s) - 1])

Opens(z, c, step, r) ==
    /\ r.ok \in BOOLEAN /\ States(r.commits)
    /\ step \in {"run", "close"} /\ (step = "close" => Len(r.commits) = 1)
    /\ \A i \in DOMAIN r.commits : Extends(z, r.commits[i])
    /\ OpensLevel(z, c, r.commits)
    /\ c.name = "apply-proposal" =>
           Len(r.commits) <= 3 /\ (step = "run" /\ r.commits # <<>> => r.ok)
    /\ Sound(z) => OpensSound(r.ok, r.commits)
    /\ step = "run" /\ r.ok => r.commits # <<>> /\ Kept(c, Last(r.commits))

(* The last state once more. *)
Twice(s) == Append(s, Last(s))

LEMMA LastTwice ==
    ASSUME NEW s \in Seq(Home), s # <<>>
    PROVE  LET u == Twice(s) IN
           /\ u \in Seq(Home) /\ u # <<>> /\ Last(u) = Last(s)
           /\ Len(u) = Len(s) + 1 /\ u[Len(u) - 1] = Last(s) /\ u[Len(u)] = Last(s)
           /\ \A i \in DOMAIN u : \E j \in DOMAIN s : u[i] = s[j]
<1> DEFINE u == Twice(s)
<1>1. Len(s) \in Nat /\ Len(s) # 0 /\ DOMAIN s = 1 .. Len(s)
  BY EmptySeq, LenProperties
<1>2. Last(s) = s[Len(s)] /\ Len(s) \in DOMAIN s /\ Last(s) \in Home
  BY <1>1 DEF Last
<1> DEFINE y == Last(s)
<1>0. u = Append(s, y)
  BY DEF Twice
<1> HIDE DEF y, u
<1>3. /\ u \in Seq(Home) /\ Len(u) = Len(s) + 1 /\ u[Len(s) + 1] = y
      /\ \A i \in 1 .. Len(s) : u[i] = s[i]
  BY <1>0, <1>2, AppendProperties DEF y
<1>4. DOMAIN u = 1 .. Len(s) + 1 /\ u # <<>>
  BY <1>1, <1>3, EmptySeq, LenProperties
<1>5. ASSUME NEW i \in DOMAIN u PROVE \E j \in DOMAIN s : u[i] = s[j]
  <2>1. i = Len(s) + 1 \/ i \in 1 .. Len(s)
    BY <1>1, <1>4
  <2> QED
    BY <1>1, <1>2, <1>3, <2>1 DEF y
<1>6. Len(u) - 1 = Len(s)
  BY <1>1, <1>3
<1>7. Last(u) = u[Len(u)]
  BY DEF Last
<1> QED
  BY <1>1, <1>2, <1>3, <1>4, <1>5, <1>6, <1>7 DEF y, u

LEMMA SavedResult ==
    ASSUME NEW ok \in BOOLEAN, NEW s
    PROVE  /\ ThenSave(Result(ok, s)).ok = ok
           /\ ok => ThenSave(Result(ok, s)).commits = Append(s, Last(s))
           /\ ~ok => ThenSave(Result(ok, s)).commits = s
BY DEF ThenSave, Result

LEMMA SavedServes ==
    ASSUME NEW z, NEW c, NEW ok \in BOOLEAN, NEW s, Serves(z, c, Result(ok, s))
    PROVE  Opens(z, c, "run", ThenSave(Result(ok, s)))
<1> DEFINE r == ThenSave(Result(ok, s))
           u == r.commits
<1>1. /\ States(s) /\ (ok => s # <<>>) /\ (Sound(z) => EndsWhole(s))
      /\ \A i \in DOMAIN s : Extends(z, s[i]) /\ Level(z, s[i])
      /\ ok => Kept(c, Last(s))
      /\ c.name # "apply-proposal"
  BY DEF Serves, GoodResult, Result
<1>2. s \in Seq(Home)
  BY <1>1 DEF States
<1>3. r.ok = ok
  BY SavedResult
<1>4. CASE ok
  <2>1. u = Twice(s)
    BY <1>4, SavedResult DEF Twice
  <2> HIDE DEF u, r
  <2>2. /\ u \in Seq(Home) /\ u # <<>> /\ Last(u) = Last(s)
        /\ Len(u) = Len(s) + 1 /\ u[Len(u) - 1] = Last(s)
        /\ \A i \in DOMAIN u : \E j \in DOMAIN s : u[i] = s[j]
    <3>1. s # <<>>
      BY <1>1, <1>4
    <3>2. /\ u \in Seq(Home) /\ u # <<>> /\ Last(u) = Last(s)
          /\ Len(u) = Len(s) + 1 /\ u[Len(u) - 1] = Last(s) /\ u[Len(u)] = Last(s)
          /\ \A i \in DOMAIN u : \E j \in DOMAIN s : u[i] = s[j]
      BY <1>2, <2>1, <3>1, LastTwice, Zenon
    <3> QED
      BY <3>2
  <2>3. States(u)
    BY <1>1, <2>2 DEF States
  <2>4. \A i \in DOMAIN u : Extends(z, u[i]) /\ Level(z, u[i])
    BY <1>1, <2>2
  <2>5. Sound(z) => OpensSound(ok, u)
    BY <1>1, <1>4, <2>2 DEF OpensSound, EndsWhole
  <2>6. OpensLevel(z, c, u)
    BY <1>1, <2>4 DEF OpensLevel
  <2>7. Opens(z, c, "run", r)
    BY <1>1, <1>3, <1>4, <2>2, <2>3, <2>4, <2>5, <2>6 DEF Opens, u
  <2> QED
    BY <2>7 DEF r
<1>5. CASE ~ok
  <2>1. u = s
    BY <1>5, SavedResult
  <2>2. OpensLevel(z, c, s) /\ (Sound(z) => OpensSound(ok, s))
    BY <1>1, <1>5 DEF OpensLevel, OpensSound, EndsWhole
  <2> HIDE DEF u, r
  <2>3. Opens(z, c, "run", r)
    BY <1>1, <1>3, <1>5, <2>1, <2>2 DEF Opens, u
  <2> QED
    BY <2>3 DEF r
<1> QED
  BY <1>4, <1>5

LEMMA RefusalOpens ==
    ASSUME NEW z, NEW c
    PROVE  Opens(z, c, "run", ThenSave(Refused))
<1> DEFINE r == ThenSave(Refused)
<1>1. r.ok = FALSE /\ r.commits = <<>>
  BY SavedResult DEF Refused
<1>2. /\ States(<<>>) /\ Len(<<>>) = 0 /\ DOMAIN <<>> = {}
      /\ <<>> \in Seq(Home)
  BY DEF States
<1> HIDE DEF r
<1>3. OpensLevel(z, c, r.commits) /\ OpensSound(r.ok, r.commits)
  BY <1>1, <1>2 DEF OpensLevel, OpensSound
<1>4. r.ok \in BOOLEAN /\ ~r.ok /\ r.commits = <<>>
  BY <1>1
<1>5. Opens(z, c, "run", r)
  BY <1>2, <1>3, <1>4 DEF Opens
<1> QED
  BY <1>5 DEF r

LEMMA SavedEnacts ==
    ASSUME NEW z, NEW c, NEW e, Enacts(z, c, e)
    PROVE  Opens(z, c, "run", ThenSave(e))
<1>1. CASE e = Refused
  BY <1>1, RefusalOpens
<1>2. CASE e # Refused
  <2>1. PICK done, filed : Proposes(z, c, done, filed) /\ e = Result(TRUE, <<done, filed>>)
    BY <1>2 DEF Enacts
  <2>2. /\ done \in Home /\ Solvent(done) /\ Extends(z, done)
        /\ filed \in Home /\ Solvent(filed) /\ Extends(z, filed)
        /\ Sound(z) => Sound(filed)
        /\ Kept(c, filed)
        /\ \A k \in [ProposalIDs -> Nat] :
               Explained(z, k) => Ahead(done, k, c.argument) /\ Explained(filed, k)
    BY <2>1 DEF Proposes
  <2> DEFINE s == <<done, filed>>
             r == ThenSave(e)
             u == r.commits
  <2>3. s \in Seq(Home) /\ Len(s) = 2 /\ s[1] = done /\ s[2] = filed /\ Last(s) = filed
    BY <2>2 DEF Last
  <2>4. r.ok = TRUE /\ u = Append(s, Last(s))
    BY <2>1, SavedResult
  <2>5. /\ u \in Seq(Home) /\ Len(u) = 3
        /\ u[1] = done /\ u[2] = filed /\ u[3] = filed /\ u # <<>>
    <3> HIDE DEF s, u, r
    <3>1. u = Append(s, filed)
      BY <2>3, <2>4
    <3>2. /\ u \in Seq(Home) /\ Len(u) = Len(s) + 1 /\ u[Len(s) + 1] = filed
          /\ \A i \in 1 .. Len(s) : u[i] = s[i]
      <4>1. filed \in Home /\ s \in Seq(Home)
        BY <2>2, <2>3
      <4> QED
        BY <3>1, <4>1, AppendProperties, Zenon
    <3> QED
      BY <2>3, <3>2, EmptySeq
  <2> HIDE DEF s, u, r
  <2>6. /\ DOMAIN u = {1, 2, 3} /\ Last(u) = filed /\ Len(u) - 1 = 2
    BY <2>5, LenProperties DEF Last
  <2>7. States(u) /\ \A i \in DOMAIN u : Extends(z, u[i])
    BY <2>2, <2>5, <2>6 DEF States
  <2>8. Sound(z) => OpensSound(r.ok, u)
    BY <2>2, <2>5, <2>6 DEF OpensSound
  <2>9. OpensLevel(z, c, u)
    <3>1. c.name = "apply-proposal"
      BY DEF Enacts
    <3>2. ASSUME NEW k \in [ProposalIDs -> Nat], Explained(z, k)
          PROVE  /\ Ahead(u[1], k, c.argument)
                 /\ \A i \in DOMAIN u : i >= Len(u) - 1 => Explained(u[i], k)
      BY <2>2, <2>5, <2>6, <3>2
    <3> QED
      BY <3>1, <3>2 DEF OpensLevel
  <2>11. r.ok \in BOOLEAN /\ r.ok
    BY <2>4
  <2>12. Len(u) <= 3 /\ Kept(c, Last(u))
    BY <2>2, <2>5, <2>6
  <2>10. Opens(z, c, "run", r)
    BY <2>5, <2>7, <2>8, <2>9, <2>11, <2>12 DEF Opens, u
  <2> QED
    BY <2>10 DEF r
<1> QED
  BY <1>1, <1>2

LEMMA QueueOpens ==
    ASSUME NEW z \in Home, Solvent(z), NEW claim \in Claims
    PROVE  Opens(z, Named("queue-deposit-claim", claim), "run", QueueDepositClaim(z, claim))
<1> DEFINE c == Named("queue-deposit-claim", claim)
           a == [z EXCEPT !.queue = Append(@, claim)]
           r == QueueDepositClaim(z, claim)
<1>1. Serves(z, c, r)
  BY QueueServes
<1>2. r.commits = <<a>> /\ Len(<<a>>) = 1
  BY DEF QueueDepositClaim, Result
<1> HIDE DEF a, c, r
<1>3. /\ r.ok \in BOOLEAN /\ States(r.commits) /\ (r.ok => r.commits # <<>>)
      /\ Sound(z) => EndsWhole(r.commits)
      /\ \A i \in DOMAIN r.commits : Extends(z, r.commits[i]) /\ Level(z, r.commits[i])
      /\ r.ok => Kept(c, Last(r.commits))
      /\ c.name # "apply-proposal"
  BY <1>1 DEF Serves, GoodResult
<1>4. OpensLevel(z, c, r.commits)
  BY <1>3 DEF OpensLevel
<1>5. Sound(z) => OpensSound(r.ok, r.commits)
  BY <1>2, <1>3 DEF OpensSound, EndsWhole
<1>6. Opens(z, c, "run", r)
  BY <1>3, <1>4, <1>5 DEF Opens
<1> QED
  BY <1>6 DEF c, r

LEMMA QueryOpens ==
    ASSUME NEW z \in Home, Solvent(z)
    PROVE  Opens(z, Named("query", "none"), "close", Result(FALSE, <<z>>))
<1> DEFINE c == Named("query", "none")
           r == Result(FALSE, <<z>>)
           s == <<z>>
<1>1. r.ok = FALSE /\ r.commits = s /\ c.name # "apply-proposal"
  BY DEF Result, Named
<1>2. /\ s \in Seq(Home) /\ Len(s) = 1 /\ Last(s) = z /\ \A i \in DOMAIN s : s[i] = z
  BY DEF Last
<1> HIDE DEF c, r, s
<1>3. States(s) /\ \A i \in DOMAIN s : Extends(z, s[i]) /\ Level(z, s[i])
  BY <1>2, ExtendsItself DEF States
<1>4. OpensLevel(z, c, s) /\ (Sound(z) => OpensSound(FALSE, s))
  BY <1>1, <1>2, <1>3 DEF OpensLevel, OpensSound
<1>5. Opens(z, c, "close", r)
  BY <1>1, <1>2, <1>3, <1>4 DEF Opens
<1> QED
  BY <1>5 DEF c, r

-----------------------------------------------------------------------------
(* Steps of processes. *)

(* Process p goes over to r. *)
Becomes(p, r) ==
    /\ proc' = [q \in Processes |-> proc'[q]]
    /\ proc'[p] = r
    /\ \A q \in Processes \ {p} : proc'[q] = proc[q]

(* What is kept stays kept. *)
LEMMA KeptOn ==
    ASSUME NEW c, NEW y, NEW z, Kept(c, y), Extends(y, z)
    PROVE  Kept(c, z)
<1>1. CASE c.name = "submit-deposit-claim"
  BY <1>1 DEF Kept, Extends
<1>2. CASE c.name = "queue-deposit-claim"
  <2>1. CASE c.argument \in y.claims \cup y.dropped
    BY <1>2, <2>1 DEF Kept, Extends
  <2>2. CASE \E i \in DOMAIN y.queue : y.queue[i] = c.argument
    BY <1>2, <2>2 DEF Kept, Extends
  <2> QED
    BY <1>2, <2>1, <2>2 DEF Kept
<1>3. CASE c.name = "execute-withdrawal"
  BY <1>3 DEF Kept, Extends
<1>4. CASE c.name = "set-route-profile"
  BY <1>4 DEF Kept, Extends
<1>5. CASE c.name = "initiate-ibc-transfer"
  BY <1>5 DEF Kept, Extends
<1>6. CASE c.name = "apply-proposal"
  BY <1>6 DEF Kept, Extends
<1>7. CASE c.name \notin {"submit-deposit-claim", "queue-deposit-claim",
                         "execute-withdrawal", "set-route-profile",
                         "initiate-ibc-transfer", "apply-proposal"}
  BY <1>7 DEF Kept, Extends
<1> QED
  BY <1>1, <1>2, <1>3, <1>4, <1>5, <1>6, <1>7

LEMMA KnownOn ==
    ASSUME NEW known, NEW y, NEW z, KeepsKnown(known, y), Extends(y, z)
    PROVE  KeepsKnown(known, z)
BY KeptOn DEF KeepsKnown

LEMMA LevelIsExplained ==
    ASSUME NEW k, NEW y, NEW z, Explained(y, k), Level(y, z)
    PROVE  Explained(z, k)
BY DEF Explained, Level, Recorded

(* The first of the commits and the others. *)
LEMMA FirstAndRest ==
    ASSUME NEW s \in Seq(Home), s # <<>>
    PROVE  /\ Head(s) = s[1] /\ 1 \in DOMAIN s /\ Tail(s) \in Seq(Home)
           /\ Len(s) \in Nat /\ Len(s) # 0 /\ Len(Tail(s)) = Len(s) - 1
           /\ DOMAIN s = 1 .. Len(s) /\ DOMAIN Tail(s) = 1 .. Len(Tail(s))
           /\ (Tail(s) = <<>> <=> Len(s) = 1)
           /\ \A i \in DOMAIN Tail(s) : i + 1 \in DOMAIN s /\ Tail(s)[i] = s[i + 1]
           /\ Last(s) = s[Len(s)] /\ Len(s) \in DOMAIN s
           /\ Last(s) = IF Tail(s) = <<>> THEN Head(s) ELSE Last(Tail(s))
<1>1. Len(s) \in Nat /\ Len(s) # 0 /\ DOMAIN s = 1 .. Len(s)
  BY EmptySeq, LenProperties
<1>2. /\ Head(s) = s[1] /\ Tail(s) \in Seq(Home) /\ Len(Tail(s)) = Len(s) - 1
      /\ \A i \in 1 .. Len(Tail(s)) : Tail(s)[i] = s[i + 1]
  BY HeadTailProperties
<1>3. DOMAIN Tail(s) = 1 .. Len(Tail(s)) /\ (Tail(s) = <<>> <=> Len(Tail(s)) = 0)
  BY <1>2, EmptySeq, LenProperties
<1>6. Last(s) = s[Len(s)]
  BY DEF Last
<1>4. CASE Tail(s) = <<>>
  BY <1>1, <1>2, <1>3, <1>4, <1>6
<1>5. CASE Tail(s) # <<>>
  <2>1. Len(s) - 1 \in 1 .. Len(Tail(s)) /\ (Len(s) - 1) + 1 = Len(s)
    BY <1>1, <1>2, <1>3, <1>5
  <2>2. Last(Tail(s)) = s[Len(s)]
    BY <1>2, <2>1 DEF Last
  <2> QED
    BY <1>1, <1>2, <1>3, <1>5, <1>6, <2>2
<1> QED
  BY <1>4, <1>5

(* What is known of a process that runs. *)
LEMMA ProcessFacts ==
    ASSUME ProcessPart, NEW p \in Processes, proc[p] # Off
    PROVE  LET r == proc[p] IN
           /\ p \in Clients \/ p = daemon
           /\ p \in Clients => ClientOK(r, cuts, saved)
           /\ p = daemon => DaemonOK(r, cuts)
           /\ r.step \in {"run", "close"} /\ States(r.commits) /\ r.commits \in Seq(Home)
           /\ r.started \in BOOLEAN /\ r.ok \in BOOLEAN
           /\ r.step = "close" => Len(r.commits) = 1
           /\ Remembers(r)
           /\ r.commits # <<>> => Explained(Last(r.commits), cuts)
<1> DEFINE r == proc[p]
<1>1. p \in Clients \/ p = daemon
  BY DEF Processes
<1>2. (p \in Clients => ClientOK(r, cuts, saved)) /\ (p = daemon => DaemonOK(r, cuts))
  BY DEF ProcessPart
<1> HIDE DEF r
<1>3. CASE p \in Clients
  <2>1. IsClient(r) /\ Accounts(r, cuts) /\ Remembers(r)
    BY <1>2, <1>3 DEF ClientOK
  <2>2. /\ r.step \in {"run", "close"} /\ States(r.commits)
        /\ r.started \in BOOLEAN /\ r.ok \in BOOLEAN
        /\ r.step = "close" => Len(r.commits) = 1
    BY <2>1 DEF IsClient, ClientRecord
  <2>3. r.commits \in Seq(Home)
    BY <2>2 DEF States
  <2>4. ASSUME r.commits # <<>> PROVE Explained(Last(r.commits), cuts)
    <3>1. /\ Len(r.commits) \in DOMAIN r.commits /\ Last(r.commits) = r.commits[Len(r.commits)]
          /\ Len(r.commits) \in Nat
      BY <2>3, <2>4, FirstAndRest, Zenon
    <3> QED
      BY <2>1, <3>1 DEF Accounts, ProposalAccounts, AllExplained
  <2> QED
    BY <1>1, <1>2, <2>1, <2>2, <2>3, <2>4 DEF r
<1>4. CASE p = daemon
  <2>1. IsDaemon(r) /\ AllExplained(r.commits, cuts) /\ Remembers(r)
    BY <1>2, <1>4 DEF DaemonOK
  <2>2. /\ r.step \in {"run", "close"} /\ States(r.commits)
        /\ r.started \in BOOLEAN /\ r.ok \in BOOLEAN
        /\ r.step = "close" => Len(r.commits) = 1
    BY <2>1 DEF IsDaemon, DaemonRecord
  <2>3. r.commits \in Seq(Home)
    BY <2>2 DEF States
  <2>4. ASSUME r.commits # <<>> PROVE Explained(Last(r.commits), cuts)
    <3>1. Len(r.commits) \in DOMAIN r.commits /\ Last(r.commits) = r.commits[Len(r.commits)]
      BY <2>3, <2>4, FirstAndRest, Zenon
    <3> QED
      BY <2>1, <3>1 DEF AllExplained
  <2> QED
    BY <1>1, <1>2, <2>1, <2>2, <2>3, <2>4 DEF r
<1> QED
  BY <1>1, <1>3, <1>4

(* One process changes. *)
LEMMA OneChanges ==
    ASSUME ProcessPart, NEW p \in Processes, NEW r, Becomes(p, r),
           r # Off => /\ p \in Clients => ClientOK(r, cuts', saved')
                      /\ p = daemon => DaemonOK(r, cuts'),
           saved \subseteq saved',
           cuts' = cuts \/ \A q \in Processes \ {p} : proc[q] = Off
    PROVE  ProcessPart'
<1>1. ASSUME NEW q \in Clients PROVE proc'[q] = Off \/ ClientOK(proc'[q], cuts', saved')
  <2>1. CASE q = p
    BY <2>1 DEF Becomes
  <2>2. CASE q # p
    <3>1. q \in Processes /\ proc'[q] = proc[q]
      BY <2>2 DEF Becomes, Processes
    <3>2. CASE proc[q] = Off
      BY <3>1, <3>2
    <3>3. CASE proc[q] # Off
      <4>1. cuts' = cuts /\ ClientOK(proc[q], cuts, saved)
        BY <2>2, <3>1, <3>3 DEF ProcessPart
      <4>2. ClientOK(proc[q], cuts, saved')
        BY <4>1 DEF ClientOK, Delivers
      <4> QED
        BY <3>1, <4>1, <4>2
    <3> QED
      BY <3>2, <3>3
  <2> QED
    BY <2>1, <2>2
<1>2. proc'[daemon] = Off \/ DaemonOK(proc'[daemon], cuts')
  <2>1. daemon \in Processes
    BY DEF Processes
  <2> QED
    BY <2>1 DEF Becomes, ProcessPart
<1> QED
  BY <1>1, <1>2 DEF ProcessPart

(* In the sdk mode the process that runs is the only one. *)
LEMMA Alone ==
    ASSUME SdkPart, mode = "sdk", NEW p \in Processes, proc[p] # Off
    PROVE  \A q \in Processes \ {p} : proc[q] = Off
BY DEF SdkPart

LEMMA OffIsIdle == ~MidCommit(Off) /\ ~HalfDone(Off)
BY DEF MidCommit, HalfDone

-----------------------------------------------------------------------------
(* Opening and ending. *)

OpenedWell(n, z, k, done, step, known) ==
    /\ ClientOK(n, k, done)
    /\ n # Off /\ n.step = step /\ n.started = FALSE /\ n.known = known
    /\ Sound(z) => EndsSound(n)

LEMMA OpenedRecord ==
    ASSUME NEW z \in Home, NEW c, NEW step, NEW known, NEW r, Opens(z, c, step, r),
           NEW k \in [ProposalIDs -> Nat], Explained(z, k), KeepsKnown(known, z), NEW done
    PROVE  OpenedWell(Opened(step, c, known, r), z, k, done, step, known)
<1> DEFINE n == Opened(step, c, known, r)
           s == r.commits
<1>1. /\ n.step = step /\ n.command = c /\ n.known = known /\ n.started = FALSE
      /\ n.ok = r.ok /\ n.commits = s
  BY DEF Opened
<1>2. /\ r.ok \in BOOLEAN /\ States(s)
      /\ step \in {"run", "close"} /\ (step = "close" => Len(s) = 1)
      /\ \A i \in DOMAIN s : Extends(z, s[i])
      /\ OpensLevel(z, c, s)
      /\ c.name = "apply-proposal" =>
             Len(s) <= 3 /\ (step = "run" /\ s # <<>> => r.ok)
      /\ Sound(z) => OpensSound(r.ok, s)
      /\ step = "run" /\ r.ok => s # <<>> /\ Kept(c, Last(s))
  BY DEF Opens
<1>3. n \in ClientRecord(c, known)
  <2>1. s \in Seq(Home)
    BY <1>2 DEF States
  <2> QED
    BY <1>2, <2>1 DEF ClientRecord, Opened
<1>4. n # Off
  <2>1. Off.step = "off"
    BY DEF Off
  <2> QED
    BY <1>1, <1>2, <2>1
<1> HIDE DEF n, s
<1>5. IsClient(n)
  BY <1>1, <1>2, <1>3 DEF IsClient
<1>6. Accounts(n, k)
  <2>1. CASE c.name = "apply-proposal"
    <3>1. /\ Len(s) = 3 => Ahead(s[1], k, c.argument)
          /\ \A i \in DOMAIN s : i >= Len(s) - 1 => Explained(s[i], k)
      BY <1>2, <2>1 DEF OpensLevel
    <3>2. ProposalAccounts(n, k)
      BY <1>1, <1>2, <2>1, <3>1 DEF ProposalAccounts
    <3> QED
      BY <1>1, <2>1, <3>2 DEF Accounts
  <2>2. CASE c.name # "apply-proposal"
    <3>1. \A i \in DOMAIN s : Explained(s[i], k)
      BY <1>2, <2>2, LevelIsExplained DEF OpensLevel
    <3> QED
      BY <1>1, <2>2, <3>1 DEF Accounts, AllExplained
  <2> QED
    BY <2>1, <2>2
<1>7. Remembers(n)
  BY <1>1, <1>2, KnownOn DEF Remembers
<1>8. Delivers(n, done)
  BY <1>1, <1>2 DEF Delivers
<1>9. Sound(z) => EndsSound(n)
  BY <1>1, <1>2 DEF EndsSound, OpensSound
<1> QED
  BY <1>1, <1>4, <1>5, <1>6, <1>7, <1>8, <1>9 DEF ClientOK, OpenedWell, n

(* A state from which a process may be opened. *)
LEMMA OpenState ==
    ASSUME CommandsInv, CanOpen
    PROVE  /\ nodeFile = "whole" /\ Explained(disk, cuts)
           /\ KeepsKnown(saved \ overwritten, disk)
           /\ \A p \in Processes : ~MidCommit(proc[p])
           /\ mode = "sdk" => \A p \in Processes : proc[p] = Off
<1>1. TypePart /\ JsonPart /\ SavedPart /\ AccountPart
  BY DEF CommandsInv
<1>2. mode \in {"json", "sdk"}
  BY <1>1 DEF TypePart
<1>3. nodeFile = "whole"
  BY <1>1, <1>2 DEF JsonPart, CanOpen
<1>4. mode = "sdk" => \A p \in Processes : proc[p] = Off
  BY DEF CanOpen
<1>5. \A p \in Processes : ~MidCommit(proc[p])
  BY <1>1, <1>2, <1>4 DEF JsonPart, MidCommit
<1>6. \A p \in Clients : ~HalfDone(proc[p])
  BY <1>5 DEF HalfDone, Processes
<1>7. KeepsKnown(saved \ overwritten, disk)
  BY <1>1, <1>3 DEF SavedPart, KeepsKnown
<1> QED
  BY <1>1, <1>3, <1>4, <1>5, <1>6, <1>7 DEF AccountPart

LEMMA OpenStep ==
    ASSUME CommandsInv, NEW p \in Clients, NEW c, NEW step, NEW r,
           Opens(disk, c, step, r), mode = "json" => step = "run", Open(p, c, step, r)
    PROVE  CommandsInv'
<1> DEFINE known == saved \ overwritten
           run == Opened(step, c, known, r)
<1>1. /\ TypePart /\ ProcessPart /\ JsonPart /\ SdkPart /\ FilePart
      /\ AccountPart /\ SavedPart
  BY DEF CommandsInv
<1>2. /\ proc[p] = Off /\ CanOpen /\ commands < MaxCommands /\ commands' = commands + 1
      /\ UNCHANGED <<mode, disk, nodeFile, ticks, saved, reported, overwritten, torn, cuts>>
  BY DEF Open, historyVars
<1>3. p \in Processes /\ p # daemon /\ daemon \in Processes
  BY CommandsAssumption DEF Processes
<1>4. Becomes(p, run)
  BY <1>1, <1>3 DEF Open, TypePart, Becomes, Opened
<1>5. /\ nodeFile = "whole" /\ Explained(disk, cuts) /\ KeepsKnown(known, disk)
      /\ \A q \in Processes : ~MidCommit(proc[q])
      /\ mode = "sdk" => \A q \in Processes : proc[q] = Off
  BY <1>2, OpenState
<1> HIDE DEF known
<1>6. /\ ClientOK(run, cuts, saved)
      /\ run # Off /\ run.step = step /\ run.started = FALSE /\ run.known = known
      /\ Sound(disk) => EndsSound(run)
  <2>1. disk \in Home /\ cuts \in [ProposalIDs -> Nat]
    BY <1>1 DEF TypePart
  <2>2. Explained(disk, cuts) /\ KeepsKnown(known, disk)
    BY <1>5
  <2>3. OpenedWell(Opened(step, c, known, r), disk, cuts, saved, step, known)
    BY <2>1, <2>2, OpenedRecord
  <2> QED
    BY <2>3 DEF OpenedWell
<1> HIDE DEF run
<1>7. TypePart'
  <2>1. commands' \in 0 .. MaxCommands
    BY <1>1, <1>2, CommandsAssumption DEF TypePart
  <2> QED
    BY <1>1, <1>2, <1>4, <2>1 DEF TypePart, Becomes, Solvent, Balance, Supply
<1>8. ProcessPart'
  BY <1>1, <1>2, <1>3, <1>4, <1>6, OneChanges
<1>9. JsonPart'
  BY <1>1, <1>2, <1>3, <1>4, <1>6 DEF JsonPart, Becomes
<1>10. SdkPart'
  <2>1. mode = "sdk" => known = saved /\ \A q \in Processes : proc'[q] # Off => q = p
    BY <1>1, <1>4, <1>5 DEF SdkPart, Becomes, known
  <2> QED
    BY <1>1, <1>2, <1>3, <1>4, <1>6, <2>1 DEF SdkPart, Becomes
<1>11. FilePart'
  BY <1>2, <1>5 DEF FilePart
<1>12. ~MidCommit(run) /\ ~HalfDone(run)
  BY <1>6 DEF MidCommit, HalfDone
<1>13. ASSUME ~torn' PROVE SoundPart'
  <2>1. SoundPart
    BY <1>2, <1>13 DEF CommandsInv
  <2>2. Sound(disk)
    BY <1>5, <2>1 DEF SoundPart, AtRest
  <2>3. \A q \in Processes : proc'[q] # Off => EndsSound(proc'[q])
    BY <1>4, <1>6, <2>1, <2>2 DEF SoundPart, Becomes
  <2>4. proc'[daemon] # Off => Sound(proc'[daemon].memory)
    BY <1>3, <1>4, <2>1 DEF SoundPart, Becomes
  <2> QED
    BY <1>2, <2>2, <2>3, <2>4 DEF SoundPart
<1>14. AccountPart'
  <2>1. \A q \in Clients : ~HalfDone(proc'[q])
    BY <1>3, <1>4, <1>5, <1>12 DEF Becomes, HalfDone, Processes
  <2> QED
    BY <1>2, <1>5, <2>1 DEF AccountPart
<1>15. SavedPart'
  BY <1>1, <1>2 DEF SavedPart
<1> QED
  BY <1>7, <1>8, <1>9, <1>10, <1>11, <1>13, <1>14, <1>15 DEF CommandsInv

(* The record with some of its fields replaced. *)
Committing(r, cs) == [r EXCEPT !.commits = cs, !.started = TRUE]
Written(r, known) == [r EXCEPT !.commits = <<>>, !.known = known]
Closing(r, cs) == [r EXCEPT !.step = "close", !.commits = cs]
Ticking(r, cs) == [r EXCEPT !.commits = cs, !.memory = Last(cs), !.started = FALSE]

LEMMA ClientCommits ==
    ASSUME NEW r, IsClient(r), NEW cs, States(cs)
    PROVE  LET n == Committing(r, cs) IN
           /\ n.step = r.step /\ n.started = TRUE /\ n.commits = cs
           /\ n.command = r.command /\ n.ok = r.ok /\ n.known = r.known
           /\ r.step = "run" => IsClient(n)
<1> DEFINE n == Committing(r, cs)
<1>1. r \in ClientRecord(r.command, r.known) /\ cs \in Seq(Home)
  BY DEF IsClient, States
<1>2. /\ n.step = r.step /\ n.started = TRUE /\ n.commits = cs
      /\ n.command = r.command /\ n.ok = r.ok /\ n.known = r.known
  BY <1>1 DEF ClientRecord, Committing
<1>3. n \in ClientRecord(r.command, r.known)
  BY <1>1 DEF ClientRecord, Committing
<1> HIDE DEF n
<1>4. r.step = "run" => IsClient(n)
  BY <1>1, <1>2, <1>3 DEF IsClient
<1> QED
  BY <1>2, <1>4 DEF n

LEMMA ClientWrites ==
    ASSUME NEW r, IsClient(r), NEW known
    PROVE  LET n == Written(r, known) IN
           /\ n.step = r.step /\ n.started = r.started /\ n.commits = <<>>
           /\ n.command = r.command /\ n.ok = r.ok /\ n.known = known
           /\ r.step = "run" => IsClient(n)
<1> DEFINE n == Written(r, known)
<1>1. r \in ClientRecord(r.command, r.known) /\ <<>> \in Seq(Home) /\ States(<<>>)
  BY DEF IsClient, States
<1>2. /\ n.step = r.step /\ n.started = r.started /\ n.commits = <<>>
      /\ n.command = r.command /\ n.ok = r.ok /\ n.known = known
  BY <1>1 DEF ClientRecord, Written
<1>3. n \in ClientRecord(r.command, known)
  BY <1>1 DEF ClientRecord, Written
<1> HIDE DEF n
<1>4. r.step = "run" => IsClient(n)
  BY <1>1, <1>2, <1>3 DEF IsClient
<1> QED
  BY <1>2, <1>4 DEF n

LEMMA ClientCloses ==
    ASSUME NEW r, IsClient(r), NEW cs, States(cs), Len(cs) = 1
    PROVE  LET n == Closing(r, cs) IN
           /\ n.step = "close" /\ n.started = r.started /\ n.commits = cs
           /\ n.command = r.command /\ n.ok = r.ok /\ n.known = r.known
           /\ IsClient(n)
<1> DEFINE n == Closing(r, cs)
<1>1. r \in ClientRecord(r.command, r.known) /\ cs \in Seq(Home)
  BY DEF IsClient, States
<1>2. /\ n.step = "close" /\ n.started = r.started /\ n.commits = cs
      /\ n.command = r.command /\ n.ok = r.ok /\ n.known = r.known
  BY <1>1 DEF ClientRecord, Closing
<1>3. n \in ClientRecord(r.command, r.known)
  BY <1>1 DEF ClientRecord, Closing
<1> HIDE DEF n
<1>4. IsClient(n)
  BY <1>1, <1>2, <1>3 DEF IsClient
<1> QED
  BY <1>2, <1>4 DEF n

LEMMA DaemonCommits ==
    ASSUME NEW r, IsDaemon(r), NEW cs, States(cs)
    PROVE  LET n == Committing(r, cs) IN
           /\ n.step = r.step /\ n.started = TRUE /\ n.commits = cs
           /\ n.memory = r.memory /\ n.ok = r.ok /\ n.known = r.known
           /\ r.step = "run" /\ (cs # <<>> => r.memory = Last(cs)) => IsDaemon(n)
<1> DEFINE n == Committing(r, cs)
<1>1. r \in DaemonRecord(r.known) /\ cs \in Seq(Home) /\ Solvent(r.memory)
  BY DEF IsDaemon, States
<1>2. /\ n.step = r.step /\ n.started = TRUE /\ n.commits = cs
      /\ n.memory = r.memory /\ n.ok = r.ok /\ n.known = r.known
  BY <1>1 DEF DaemonRecord, Committing
<1>3. n \in DaemonRecord(r.known)
  BY <1>1 DEF DaemonRecord, Committing
<1> HIDE DEF n
<1>4. r.step = "run" /\ (cs # <<>> => r.memory = Last(cs)) => IsDaemon(n)
  BY <1>1, <1>2, <1>3 DEF IsDaemon
<1> QED
  BY <1>2, <1>4 DEF n

LEMMA DaemonWrites ==
    ASSUME NEW r, IsDaemon(r), NEW known
    PROVE  LET n == Written(r, known) IN
           /\ n.step = r.step /\ n.started = r.started /\ n.commits = <<>>
           /\ n.memory = r.memory /\ n.ok = r.ok /\ n.known = known
           /\ r.step = "run" => IsDaemon(n)
<1> DEFINE n == Written(r, known)
<1>1. r \in DaemonRecord(r.known) /\ <<>> \in Seq(Home) /\ States(<<>>) /\ Solvent(r.memory)
  BY DEF IsDaemon, States
<1>2. /\ n.step = r.step /\ n.started = r.started /\ n.commits = <<>>
      /\ n.memory = r.memory /\ n.ok = r.ok /\ n.known = known
  BY <1>1 DEF DaemonRecord, Written
<1>3. n \in DaemonRecord(known)
  BY <1>1 DEF DaemonRecord, Written
<1> HIDE DEF n
<1>4. r.step = "run" => IsDaemon(n)
  BY <1>1, <1>2, <1>3 DEF IsDaemon
<1> QED
  BY <1>2, <1>4 DEF n

LEMMA DaemonCloses ==
    ASSUME NEW r, IsDaemon(r), NEW cs, States(cs), Len(cs) = 1
    PROVE  LET n == Closing(r, cs) IN
           /\ n.step = "close" /\ n.started = r.started /\ n.commits = cs
           /\ n.memory = r.memory /\ n.ok = r.ok /\ n.known = r.known
           /\ IsDaemon(n)
<1> DEFINE n == Closing(r, cs)
<1>1. r \in DaemonRecord(r.known) /\ cs \in Seq(Home) /\ Solvent(r.memory)
  BY DEF IsDaemon, States
<1>2. /\ n.step = "close" /\ n.started = r.started /\ n.commits = cs
      /\ n.memory = r.memory /\ n.ok = r.ok /\ n.known = r.known
  BY <1>1 DEF DaemonRecord, Closing
<1>3. n \in DaemonRecord(r.known)
  BY <1>1 DEF DaemonRecord, Closing
<1> HIDE DEF n
<1>4. IsDaemon(n)
  BY <1>1, <1>2, <1>3 DEF IsDaemon
<1> QED
  BY <1>2, <1>4 DEF n

(* The record of a process that ends. *)
LEMMA ClosedClient ==
    ASSUME NEW r, NEW k, NEW done, ClientOK(r, k, done), NEW z \in Home, Solvent(z),
           Explained(z, k), KeepsKnown(r.known, z)
    PROVE  LET n == Closing(r, <<z>>) IN
           /\ ClientOK(n, k, done)
           /\ n.step = "close" /\ n.known = r.known /\ n.commits = <<z>> /\ n.ok = r.ok
<1> DEFINE n == Closing(r, <<z>>)
           s == <<z>>
<1>1. s \in Seq(Home) /\ Len(s) = 1 /\ \A i \in DOMAIN s : s[i] = z
  OBVIOUS
<1> HIDE DEF s
<1>2. States(s)
  BY <1>1 DEF States
<1>3. IsClient(r)
  BY DEF ClientOK
<1>4. LET m == Closing(r, s) IN
      /\ m.step = "close" /\ m.started = r.started /\ m.commits = s
      /\ m.command = r.command /\ m.ok = r.ok /\ m.known = r.known
      /\ IsClient(m)
  BY <1>1, <1>2, <1>3, ClientCloses
<1>5. /\ n.step = "close" /\ n.commits = s /\ n.command = r.command
      /\ n.ok = r.ok /\ n.known = r.known /\ IsClient(n)
  BY <1>1, <1>4 DEF s
<1> HIDE DEF n
<1>6. Accounts(n, k)
  <2>1. AllExplained(s, k)
    BY <1>1 DEF AllExplained
  <2>2. ProposalAccounts(n, k)
    <3>1. Len(n.commits) = 1 /\ n.step # "run" /\ AllExplained(n.commits, k)
      BY <1>1, <1>5, <2>1
    <3> QED
      BY <3>1 DEF ProposalAccounts, AllExplained
  <2> QED
    BY <1>5, <2>1, <2>2 DEF Accounts
<1>7. Remembers(n) /\ Delivers(n, done)
  BY <1>1, <1>5 DEF Remembers, Delivers
<1> QED
  BY <1>5, <1>6, <1>7 DEF ClientOK, n, s

LEMMA ClosedDaemon ==
    ASSUME NEW r, NEW k, DaemonOK(r, k), NEW z \in Home, Solvent(z),
           Explained(z, k), KeepsKnown(r.known, z)
    PROVE  LET n == Closing(r, <<z>>) IN
           /\ DaemonOK(n, k)
           /\ n.step = "close" /\ n.known = r.known /\ n.commits = <<z>> /\ n.ok = r.ok
           /\ n.memory = r.memory
<1> DEFINE n == Closing(r, <<z>>)
           s == <<z>>
<1>1. s \in Seq(Home) /\ Len(s) = 1 /\ \A i \in DOMAIN s : s[i] = z
  OBVIOUS
<1> HIDE DEF s
<1>2. States(s)
  BY <1>1 DEF States
<1>3. IsDaemon(r) /\ Explained(r.memory, k) /\ KeepsKnown(r.known, r.memory)
  BY DEF DaemonOK
<1>4. LET m == Closing(r, s) IN
      /\ m.step = "close" /\ m.started = r.started /\ m.commits = s
      /\ m.memory = r.memory /\ m.ok = r.ok /\ m.known = r.known
      /\ IsDaemon(m)
  BY <1>1, <1>2, <1>3, DaemonCloses
<1>5. /\ n.step = "close" /\ n.commits = s /\ n.memory = r.memory
      /\ n.ok = r.ok /\ n.known = r.known /\ IsDaemon(n)
  BY <1>1, <1>4 DEF s
<1> HIDE DEF n
<1>6. AllExplained(n.commits, k) /\ Remembers(n)
  BY <1>1, <1>5 DEF AllExplained, Remembers
<1> QED
  BY <1>3, <1>5, <1>6 DEF DaemonOK, n, s

(* A process ends, because it has reported or was told to stop. *)
LEMMA EndStep ==
    ASSUME CommandsInv, NEW p \in Processes, proc[p] # Off, proc[p].step = "run",
           proc[p].commits = <<>> \/ mode = "json", Becomes(p, Ended(p)),
           UNCHANGED <<mode, disk, nodeFile, commands, ticks, saved, overwritten, torn, cuts>>,
           reported' \subseteq saved
    PROVE  CommandsInv'
<1> DEFINE r == proc[p]
           new == Ended(p)
<1>1. /\ TypePart /\ ProcessPart /\ JsonPart /\ SdkPart /\ FilePart
      /\ AccountPart /\ SavedPart
  BY DEF CommandsInv
<1>0. daemon \in Processes /\ (\A q \in Clients : q \in Processes)
      /\ mode \in {"json", "sdk"}
  BY <1>1 DEF Processes, TypePart
<1>2. mode = "sdk" => \A q \in Processes \ {p} : proc[q] = Off
  BY <1>1, Alone
<1>3. ~MidCommit(r) /\ ~HalfDone(r)
  BY <1>0, <1>1 DEF MidCommit, KeepersLeft, JsonPart, HalfDone
<1>4. \A q \in Processes : ~MidCommit(proc[q])
  BY <1>0, <1>1, <1>2, <1>3, OffIsIdle DEF JsonPart, MidCommit
<1>5. Explained(disk, cuts)
  BY <1>0, <1>1, <1>4 DEF AccountPart, HalfDone
<1>6. mode = "sdk" => nodeFile = "whole"
  BY <1>1 DEF TypePart, FilePart
<1>7. mode = "sdk" => KeepsKnown(r.known, disk)
  BY <1>1, <1>6 DEF SdkPart, SavedPart, KeepsKnown
<1>8. /\ p \in Clients => ClientOK(r, cuts, saved)
      /\ p = daemon => DaemonOK(r, cuts)
      /\ p \in Clients \/ p = daemon
  BY <1>1, ProcessFacts
<1>9. /\ mode = "json" => new = Off
      /\ mode = "sdk" => new = Closing(r, <<disk>>)
  BY DEF Ended, Closing
<1>10. mode = "sdk" =>
           /\ p \in Clients => ClientOK(new, cuts, saved)
           /\ p = daemon => DaemonOK(new, cuts) /\ new.memory = r.memory
           /\ new.step = "close" /\ new.known = r.known /\ new.commits = <<disk>>
  <2> HIDE DEF r, new
  <2> SUFFICES ASSUME mode = "sdk"
               PROVE  /\ p \in Clients => ClientOK(new, cuts, saved)
                      /\ p = daemon => DaemonOK(new, cuts) /\ new.memory = r.memory
                      /\ new.step = "close" /\ new.known = r.known
                      /\ new.commits = <<disk>>
    OBVIOUS
  <2>1. disk \in Home /\ Solvent(disk) /\ KeepsKnown(r.known, disk)
    BY <1>1, <1>7 DEF TypePart
  <2>2. CASE p \in Clients
    <3>1. LET n == Closing(r, <<disk>>) IN
          /\ ClientOK(n, cuts, saved)
          /\ n.step = "close" /\ n.known = r.known /\ n.commits = <<disk>> /\ n.ok = r.ok
      BY <1>5, <1>8, <2>1, <2>2, ClosedClient, Zenon
    <3> QED
      BY <1>9, <2>2, <3>1, CommandsAssumption
  <2>3. CASE p = daemon
    <3>1. LET n == Closing(r, <<disk>>) IN
          /\ DaemonOK(n, cuts)
          /\ n.step = "close" /\ n.known = r.known /\ n.commits = <<disk>> /\ n.ok = r.ok
          /\ n.memory = r.memory
      BY <1>5, <1>8, <2>1, <2>3, ClosedDaemon, Zenon
    <3> QED
      BY <1>9, <2>3, <3>1, CommandsAssumption
  <2> QED
    BY <1>8, <2>2, <2>3
<1>11. Len(<<disk>>) = 1 /\ Last(<<disk>>) = disk /\ <<disk>> # <<>>
  BY DEF Last
<1> HIDE DEF r, new
<1>12. TypePart'
  BY <1>1 DEF TypePart, Becomes, Solvent, Balance, Supply
<1>13. ProcessPart'
  <2>1. new # Off => /\ p \in Clients => ClientOK(new, cuts', saved')
                     /\ p = daemon => DaemonOK(new, cuts')
    BY <1>0, <1>9, <1>10
  <2> QED
    BY <1>1, <2>1, OneChanges DEF new
<1>14. JsonPart'
  BY <1>1, <1>9 DEF JsonPart, Becomes, new
<1>15. SdkPart'
  BY <1>1, <1>2, <1>10 DEF SdkPart, Becomes, new, r
<1>16. FilePart'
  BY <1>0, <1>1, <1>6 DEF FilePart, JsonPart
<1>17. ~MidCommit(new) /\ ~HalfDone(new)
  BY <1>0, <1>9, <1>10, OffIsIdle DEF MidCommit, HalfDone, KeepersLeft
<1>18. ASSUME ~torn' PROVE SoundPart'
  <2>1. SoundPart
    BY <1>18 DEF CommandsInv
  <2>2. Sound(disk)
    BY <1>4, <2>1 DEF SoundPart, AtRest
  <2>3. new # Off => EndsSound(new)
    BY <1>0, <1>9, <1>10, <1>11, <2>2 DEF EndsSound
  <2>4. \A q \in Processes : proc'[q] # Off => EndsSound(proc'[q])
    BY <2>1, <2>3 DEF SoundPart, Becomes, new
  <2>5. proc'[daemon] # Off => Sound(proc'[daemon].memory)
    <3>1. CASE p = daemon
      BY <1>0, <1>9, <1>10, <2>1, <3>1 DEF SoundPart, Becomes, new, r
    <3>2. CASE p # daemon
      BY <1>0, <2>1, <3>2 DEF SoundPart, Becomes
    <3> QED
      BY <3>1, <3>2
  <2> QED
    BY <2>2, <2>4, <2>5 DEF SoundPart
<1>19. AccountPart'
  <2>1. \A q \in Clients : ~HalfDone(proc'[q])
    BY <1>0, <1>4, <1>17 DEF Becomes, HalfDone, new
  <2> QED
    BY <1>5, <2>1 DEF AccountPart
<1>20. SavedPart'
  BY <1>1 DEF SavedPart
<1> QED
  BY <1>12, <1>13, <1>14, <1>15, <1>16, <1>18, <1>19, <1>20 DEF CommandsInv

LEMMA ReportStep ==
    ASSUME CommandsInv, NEW p \in Clients, Report(p)
    PROVE  CommandsInv'
<1>1. TypePart /\ ProcessPart /\ SavedPart /\ p \in Processes
  BY DEF CommandsInv, Processes
<1>2. /\ proc[p] # Off /\ proc[p].step = "run" /\ p # daemon
      /\ proc[p].commits = <<>> \/ (mode = "json" /\ ~proc[p].ok)
      /\ UNCHANGED <<mode, disk, nodeFile, commands, ticks, saved, overwritten, torn, cuts>>
  BY DEF Report
<1>3. Becomes(p, Ended(p))
  BY <1>1 DEF Report, TypePart, Becomes
<1>4. reported' \subseteq saved
  <2>1. reported \subseteq saved
    BY <1>1 DEF SavedPart
  <2>2. CASE ~proc[p].ok
    BY <2>1, <2>2 DEF Report
  <2>3. CASE proc[p].ok
    <3>1. proc[p].commits = <<>> /\ reported' = reported \cup {proc[p].command}
      BY <1>2, <2>3 DEF Report, Commands
    <3>2. proc[p].command \in saved
      BY <1>1, <1>2, <2>3, <3>1 DEF ProcessPart, ClientOK, Delivers
    <3> QED
      BY <2>1, <3>1, <3>2
  <2> QED
    BY <2>2, <2>3
<1> QED
  BY <1>1, <1>2, <1>3, <1>4, EndStep

LEMMA StopStep ==
    ASSUME CommandsInv, StopDaemon
    PROVE  CommandsInv'
<1>1. TypePart /\ SavedPart /\ daemon \in Processes
  BY DEF CommandsInv, Processes
<1>2. /\ proc[daemon] # Off /\ proc[daemon].step = "run" /\ proc[daemon].commits = <<>>
      /\ UNCHANGED <<mode, disk, nodeFile, commands, ticks, saved, overwritten, torn, cuts>>
      /\ reported' = reported
  BY DEF StopDaemon, historyVars
<1>3. Becomes(daemon, Ended(daemon))
  BY <1>1 DEF StopDaemon, TypePart, Becomes
<1> QED
  BY <1>1, <1>2, <1>3, EndStep DEF SavedPart

(* A kill between the change of a proposal and its record is counted. *)
LEMMA KillStep ==
    ASSUME CommandsInv, NEW p \in Processes, Kill(p)
    PROVE  CommandsInv'
<1> DEFINE r == proc[p]
<1>1. /\ TypePart /\ ProcessPart /\ JsonPart /\ SdkPart /\ FilePart
      /\ AccountPart /\ SavedPart
  BY DEF CommandsInv
<1>2. /\ r # Off /\ torn' = (torn \/ MidCommit(r))
      /\ UNCHANGED <<mode, disk, nodeFile, commands, ticks, saved, reported, overwritten>>
      /\ cuts' = [id \in ProposalIDs |-> IF id \in HalfApplied(p) THEN cuts[id] + 1
                                         ELSE cuts[id]]
  BY DEF Kill
<1>3. Becomes(p, Off)
  BY <1>1 DEF Kill, TypePart, Becomes
<1>0. /\ daemon \in Processes /\ (\A q \in Clients : q \in Processes /\ q # daemon)
      /\ mode \in {"json", "sdk"}
  BY <1>1, CommandsAssumption DEF Processes, TypePart
<1>4. mode = "sdk" => \A q \in Processes \ {p} : proc[q] = Off
  BY <1>1, <1>2, Alone
<1>5. cuts \in [ProposalIDs -> Nat] /\ cuts' \in [ProposalIDs -> Nat]
  <2>1. cuts \in [ProposalIDs -> Nat]
    BY <1>1 DEF TypePart
  <2>2. \A id \in ProposalIDs : cuts[id] \in Nat /\ cuts[id] + 1 \in Nat
    BY <2>1
  <2> QED
    BY <1>2, <2>1, <2>2
<1>6. HalfApplied(p) = IF p # daemon /\ HalfDone(r) THEN {r.command.argument} ELSE {}
  BY DEF HalfApplied, HalfDone
<1> HIDE DEF r
<1>7. HalfApplied(p) = {} => cuts' = cuts
  BY <1>2, <1>5
<1>8. mode = "json" => ~MidCommit(r) /\ ~HalfDone(r)
  BY <1>1, <1>2 DEF JsonPart, MidCommit, HalfDone, r
<1>9. cuts' = cuts \/ \A q \in Processes \ {p} : proc[q] = Off
  BY <1>0, <1>4, <1>6, <1>7, <1>8
<1>10. TypePart'
  <2>1. torn' \in BOOLEAN
    BY <1>2
  <2> QED
    BY <1>1, <1>2, <1>3, <1>5, <2>1 DEF TypePart, Becomes, Solvent, Balance, Supply
<1>11. ProcessPart'
  BY <1>1, <1>2, <1>3, <1>9, OneChanges
<1>12. JsonPart' /\ SdkPart' /\ FilePart'
  BY <1>1, <1>2, <1>3 DEF JsonPart, SdkPart, FilePart, Becomes
<1>13. ASSUME ~torn' PROVE SoundPart'
  <2>1. SoundPart /\ ~MidCommit(r)
    BY <1>2, <1>13 DEF CommandsInv
  <2>2. Sound(disk)
    <3>1. \A q \in Processes : ~MidCommit(proc[q])
      BY <1>0, <1>1, <1>4, <2>1, OffIsIdle DEF JsonPart, MidCommit, r
    <3> QED
      BY <2>1, <3>1 DEF SoundPart, AtRest
  <2>3. \A q \in Processes : proc'[q] # Off => EndsSound(proc'[q])
    BY <1>3, <2>1 DEF SoundPart, Becomes
  <2>4. proc'[daemon] # Off => Sound(proc'[daemon].memory)
    BY <1>0, <1>3, <2>1 DEF SoundPart, Becomes
  <2> QED
    BY <1>2, <2>2, <2>3, <2>4 DEF SoundPart
<1>14. AccountPart'
  <2>1. \A q \in Clients : ~HalfDone(proc'[q])
    <3>1. ASSUME NEW q \in Clients PROVE ~HalfDone(proc'[q])
      <4>1. CASE q = p
        BY <1>3, <4>1, OffIsIdle DEF Becomes
      <4>2. CASE q # p
        BY <1>0, <1>1, <1>3, <1>4, <4>2, OffIsIdle DEF Becomes, JsonPart, HalfDone, MidCommit
      <4> QED
        BY <4>1, <4>2
    <3> QED
      BY <3>1
  <2>2. Explained(disk, cuts')
    <3>1. CASE HalfApplied(p) = {}
      <4>1. \A q \in Clients : ~HalfDone(proc[q])
        BY <1>0, <1>1, <1>4, <1>6, <3>1, OffIsIdle DEF JsonPart, HalfDone, MidCommit, r
      <4> QED
        BY <1>1, <1>7, <3>1, <4>1 DEF AccountPart
    <3>2. CASE HalfApplied(p) # {}
      <4>1. p # daemon /\ HalfDone(r) /\ HalfApplied(p) = {r.command.argument}
        BY <1>6, <3>2
      <4>2. p \in Clients
        BY <4>1 DEF Processes
      <4>3. Ahead(disk, cuts, r.command.argument)
        BY <1>1, <4>1, <4>2 DEF AccountPart, r
      <4>4. ASSUME NEW id \in ProposalIDs
            PROVE  disk.effects[id] = cuts'[id] + Recorded(disk, id)
        <5>1. /\ cuts[id] \in Nat /\ Recorded(disk, id) \in Nat
              /\ disk.effects[id] = cuts[id] + Recorded(disk, id)
                                       + IF id = r.command.argument THEN 1 ELSE 0
          BY <1>5, <4>3 DEF Ahead, Recorded
        <5>2. cuts'[id] = IF id = r.command.argument THEN cuts[id] + 1 ELSE cuts[id]
          BY <1>2, <4>1
        <5> QED
          BY <5>1, <5>2
      <4> QED
        BY <4>4 DEF Explained
    <3> QED
      BY <3>1, <3>2
  <2> QED
    BY <1>2, <2>1, <2>2 DEF AccountPart
<1>15. SavedPart'
  BY <1>1, <1>2 DEF SavedPart
<1> QED
  BY <1>10, <1>11, <1>12, <1>13, <1>14, <1>15 DEF CommandsInv

-----------------------------------------------------------------------------
(* Writing. *)

(* The record after one of the keepers has committed. *)
LEMMA CommittedClient ==
    ASSUME NEW r, NEW k, NEW done, ClientOK(r, k, done), KeepersLeft(r)
    PROVE  LET n == Committing(r, Tail(r.commits)) IN
           /\ ClientOK(n, k, done)
           /\ n.step = "run" /\ n.started = TRUE /\ n.commits = Tail(r.commits)
           /\ n.command = r.command /\ n.ok = r.ok /\ n.known = r.known
<1> DEFINE s == r.commits
           t == Tail(s)
           n == Committing(r, t)
<1>1. IsClient(r) /\ Accounts(r, k) /\ Remembers(r) /\ Delivers(r, done)
  BY DEF ClientOK
<1>2. r.step = "run" /\ s # <<>> /\ (r.ok => Len(s) > 1)
  BY DEF KeepersLeft
<1>3. States(s) /\ s \in Seq(Home) /\ r.ok \in BOOLEAN
  BY <1>1 DEF IsClient, ClientRecord, States
<1> HIDE DEF s
<1>4. /\ Head(s) = s[1] /\ 1 \in DOMAIN s /\ t \in Seq(Home)
      /\ Len(s) \in Nat /\ Len(s) # 0 /\ Len(t) = Len(s) - 1
      /\ DOMAIN s = 1 .. Len(s) /\ DOMAIN t = 1 .. Len(t)
      /\ (t = <<>> <=> Len(s) = 1)
      /\ \A i \in DOMAIN t : i + 1 \in DOMAIN s /\ t[i] = s[i + 1]
      /\ Last(s) = IF t = <<>> THEN Head(s) ELSE Last(t)
  BY <1>2, <1>3, FirstAndRest
<1> HIDE DEF t
<1>5. States(t)
  BY <1>3, <1>4 DEF States
<1>6. /\ n.step = r.step /\ n.started = TRUE /\ n.commits = t
      /\ n.command = r.command /\ n.ok = r.ok /\ n.known = r.known
      /\ r.step = "run" => IsClient(n)
  BY <1>1, <1>5, ClientCommits
<1> HIDE DEF n
<1>7. Accounts(n, k)
  <2>1. CASE r.command.name = "apply-proposal"
    <3>1. ProposalAccounts(r, k)
      BY <1>1, <2>1 DEF Accounts
    <3>2. Len(s) <= 3 /\ r.ok
      BY <1>2, <3>1 DEF ProposalAccounts, s
    <3>3. ASSUME NEW i \in DOMAIN t, i >= Len(t) - 1 PROVE Explained(t[i], k)
      <4>1. i + 1 \in DOMAIN s /\ i + 1 >= Len(s) - 1 /\ t[i] = s[i + 1]
        BY <1>4, <3>3
      <4> QED
        BY <3>1, <4>1 DEF ProposalAccounts, s
    <3>4. ProposalAccounts(n, k)
      BY <1>4, <1>6, <3>2, <3>3 DEF ProposalAccounts
    <3> QED
      BY <1>6, <2>1, <3>4 DEF Accounts
  <2>2. CASE r.command.name # "apply-proposal"
    BY <1>1, <1>4, <1>6, <2>2 DEF Accounts, AllExplained, s
  <2> QED
    BY <2>1, <2>2
<1>8. Remembers(n)
  BY <1>1, <1>4, <1>6 DEF Remembers, s
<1>9. Delivers(n, done)
  BY <1>1, <1>2, <1>3, <1>4, <1>6 DEF Delivers, s
<1> QED
  BY <1>2, <1>6, <1>7, <1>8, <1>9 DEF ClientOK, n, t, s

LEMMA CommittedDaemon ==
    ASSUME NEW r, NEW k, DaemonOK(r, k), KeepersLeft(r)
    PROVE  LET n == Committing(r, Tail(r.commits)) IN
           /\ DaemonOK(n, k)
           /\ n.step = "run" /\ n.started = TRUE /\ n.commits = Tail(r.commits)
           /\ n.memory = r.memory /\ n.ok = r.ok /\ n.known = r.known
<1> DEFINE s == r.commits
           t == Tail(s)
           n == Committing(r, t)
<1>1. /\ IsDaemon(r) /\ AllExplained(s, k) /\ Remembers(r)
      /\ Explained(r.memory, k) /\ KeepsKnown(r.known, r.memory)
  BY DEF DaemonOK
<1>2. r.step = "run" /\ s # <<>>
  BY DEF KeepersLeft
<1>3. States(s) /\ s \in Seq(Home) /\ r.memory = Last(s)
  BY <1>1, <1>2 DEF IsDaemon, States
<1> HIDE DEF s
<1>4. /\ t \in Seq(Home)
      /\ \A i \in DOMAIN t : i + 1 \in DOMAIN s /\ t[i] = s[i + 1]
      /\ Last(s) = IF t = <<>> THEN Head(s) ELSE Last(t)
  BY <1>2, <1>3, FirstAndRest
<1> HIDE DEF t
<1>5. States(t) /\ (t # <<>> => r.memory = Last(t))
  BY <1>3, <1>4 DEF States
<1>6. /\ n.step = r.step /\ n.started = TRUE /\ n.commits = t
      /\ n.memory = r.memory /\ n.ok = r.ok /\ n.known = r.known
      /\ r.step = "run" /\ (t # <<>> => r.memory = Last(t)) => IsDaemon(n)
  BY <1>1, <1>5, DaemonCommits
<1> HIDE DEF n
<1>7. AllExplained(n.commits, k) /\ Remembers(n)
  BY <1>1, <1>4, <1>6 DEF AllExplained, Remembers, s
<1> QED
  BY <1>1, <1>2, <1>5, <1>6, <1>7 DEF DaemonOK, n, t, s

LEMMA CommitStep ==
    ASSUME CommandsInv, NEW p \in Processes, CommitKeeper(p)
    PROVE  CommandsInv'
<1> DEFINE r == proc[p]
           s == r.commits
           new == Committing(r, Tail(s))
<1>1. /\ TypePart /\ ProcessPart /\ JsonPart /\ SdkPart /\ FilePart
      /\ AccountPart /\ SavedPart
  BY DEF CommandsInv
<1>2. /\ mode = "sdk" /\ r # Off /\ KeepersLeft(r) /\ disk' = Head(s)
      /\ UNCHANGED <<mode, nodeFile, commands, ticks, saved, reported, overwritten, torn, cuts>>
  BY DEF CommitKeeper, historyVars
<1>3. Becomes(p, new)
  BY <1>1 DEF CommitKeeper, TypePart, Becomes, Committing
<1>4. /\ p \in Clients => ClientOK(r, cuts, saved)
      /\ p = daemon => DaemonOK(r, cuts)
      /\ p \in Clients \/ p = daemon
      /\ States(s) /\ s \in Seq(Home) /\ r.ok \in BOOLEAN /\ Remembers(r)
  BY <1>1, <1>2, ProcessFacts
<1>5. r.step = "run" /\ s # <<>> /\ (r.ok => Len(s) > 1)
  BY <1>2 DEF KeepersLeft
<1>0. /\ daemon \in Processes /\ (\A q \in Clients : q \in Processes /\ q # daemon)
  BY CommandsAssumption DEF Processes
<1>6. \A q \in Processes \ {p} : proc[q] = Off /\ proc'[q] = Off
  BY <1>1, <1>2, <1>3, Alone DEF Becomes
<1>7. /\ p \in Clients => ClientOK(new, cuts, saved) /\ new.command = r.command
      /\ p = daemon => DaemonOK(new, cuts) /\ new.memory = r.memory
      /\ new.step = "run" /\ new.started = TRUE /\ new.commits = Tail(s)
      /\ new.ok = r.ok /\ new.known = r.known
  <2>1. CASE p \in Clients
    BY <1>0, <1>2, <1>4, <2>1, CommittedClient
  <2>2. CASE p = daemon
    BY <1>0, <1>2, <1>4, <2>2, CommittedDaemon
  <2> QED
    BY <1>4, <2>1, <2>2
<1> DEFINE t == Tail(s)
<1> HIDE DEF new, r, s
<1>8. /\ Head(s) = s[1] /\ 1 \in DOMAIN s /\ t \in Seq(Home)
      /\ Len(s) \in Nat /\ Len(s) # 0 /\ Len(t) = Len(s) - 1
      /\ DOMAIN s = 1 .. Len(s) /\ DOMAIN t = 1 .. Len(t)
      /\ (t = <<>> <=> Len(s) = 1)
      /\ \A i \in DOMAIN t : i + 1 \in DOMAIN s /\ t[i] = s[i + 1]
      /\ Last(s) = s[Len(s)]
      /\ Last(s) = IF t = <<>> THEN Head(s) ELSE Last(t)
  BY <1>4, <1>5, FirstAndRest
<1> HIDE DEF t
<1>9. new # Off
  <2>1. Off.step = "off"
    BY DEF Off
  <2> QED
    BY <1>7, <2>1
<1>10. nodeFile = "whole"
  BY <1>1, <1>2 DEF TypePart, FilePart, r
<1>11. disk' \in Home /\ Solvent(disk')
  BY <1>2, <1>4, <1>8 DEF States
<1>12. TypePart'
  <2>1. (Solvent(disk))'
    BY <1>11 DEF Solvent, Balance, Supply
  <2> QED
    BY <1>1, <1>2, <1>3, <1>11, <2>1 DEF TypePart, Becomes
<1>13. ProcessPart'
  <2>1. new # Off => /\ p \in Clients => ClientOK(new, cuts', saved')
                     /\ p = daemon => DaemonOK(new, cuts')
    BY <1>2, <1>7
  <2> QED
    BY <1>1, <1>2, <1>3, <2>1, OneChanges
<1>14. JsonPart' /\ FilePart'
  BY <1>2, <1>10 DEF JsonPart, FilePart
<1>15. SdkPart'
  BY <1>1, <1>2, <1>3, <1>6, <1>7 DEF SdkPart, Becomes, r
<1>16. /\ proc'[p] = new
       /\ MidCommit(new) <=> (t # <<>> /\ (r.ok => Len(t) > 1))
  BY <1>3, <1>7, <1>9 DEF Becomes, MidCommit, KeepersLeft, t
<1>17. ASSUME ~torn' PROVE SoundPart'
  <2>1. SoundPart
    BY <1>2, <1>17 DEF CommandsInv
  <2>2. EndsSound(r)
    BY <1>2, <2>1 DEF SoundPart, r
  <2>3. Sound(Last(s)) /\ (r.ok => Sound(s[Len(s) - 1]))
    BY <1>5, <1>8, <2>2 DEF EndsSound, s
  <2>4. ~MidCommit(new) => Sound(disk')
    <3>1. CASE t = <<>>
      BY <1>2, <1>8, <2>3, <3>1
    <3>2. CASE t # <<>> /\ r.ok /\ ~ (Len(t) > 1)
      <4>1. Len(s) - 1 = 1
        BY <1>8, <3>2
      <4> QED
        BY <1>2, <1>8, <2>3, <3>2, <4>1
    <3> QED
      BY <1>4, <1>16, <3>1, <3>2
  <2>5. EndsSound(new)
    <3>1. t # <<>> => Sound(Last(t))
      BY <1>8, <2>3
    <3>2. ASSUME r.ok, Len(t) > 1 PROVE Sound(t[Len(t) - 1])
      <4>1. Len(t) - 1 \in DOMAIN t /\ (Len(t) - 1) + 1 = Len(s) - 1
        BY <1>8, <3>2
      <4> QED
        BY <1>8, <2>3, <3>2, <4>1
    <3> QED
      BY <1>7, <3>1, <3>2 DEF EndsSound, t
  <2>6. \A q \in Processes : proc'[q] # Off => EndsSound(proc'[q])
    BY <1>6, <1>16, <2>5
  <2>7. proc'[daemon] # Off => Sound(proc'[daemon].memory)
    BY <1>0, <1>2, <1>6, <1>7, <1>16, <2>1 DEF SoundPart, r
  <2>8. (AtRest => Sound(disk))'
    BY <1>16, <2>4 DEF AtRest
  <2> QED
    BY <2>6, <2>7, <2>8 DEF SoundPart
<1>18. AccountPart'
  <2>1. \A q \in Clients : q # p => ~HalfDone(proc'[q])
    BY <1>0, <1>6, OffIsIdle
  <2>2. CASE p \in Clients /\ r.command.name = "apply-proposal"
    <3>1. ProposalAccounts(r, cuts)
      BY <1>4, <2>2 DEF ClientOK, Accounts
    <3>2. Len(s) <= 3 /\ r.ok
      BY <1>5, <3>1 DEF ProposalAccounts, s
    <3>3. CASE MidCommit(new)
      <4>1. Len(s) = 3
        BY <1>8, <1>16, <3>2, <3>3
      <4>2. Ahead(disk', cuts, r.command.argument)
        BY <1>2, <1>8, <3>1, <4>1 DEF ProposalAccounts, s
      <4>3. HalfDone(proc'[p]) /\ proc'[p].command = r.command
        BY <1>7, <1>16, <2>2, <3>3 DEF HalfDone
      <4> QED
        BY <1>2, <2>1, <2>2, <4>2, <4>3 DEF AccountPart
    <3>4. CASE ~MidCommit(new)
      <4>1. 1 >= Len(s) - 1
        BY <1>8, <1>16, <3>2, <3>4
      <4>2. Explained(disk', cuts)
        BY <1>2, <1>8, <3>1, <4>1 DEF ProposalAccounts, s
      <4>3. ~HalfDone(proc'[p])
        BY <1>16, <3>4 DEF HalfDone
      <4> QED
        BY <1>2, <2>1, <4>2, <4>3 DEF AccountPart
    <3> QED
      BY <3>3, <3>4
  <2>3. CASE ~ (p \in Clients /\ r.command.name = "apply-proposal")
    <3>1. AllExplained(s, cuts)
      BY <1>4, <2>3 DEF ClientOK, Accounts, DaemonOK, s
    <3>2. Explained(disk', cuts)
      BY <1>2, <1>8, <3>1 DEF AllExplained
    <3>3. \A q \in Clients : ~HalfDone(proc'[q])
      BY <1>7, <1>16, <2>1, <2>3 DEF HalfDone
    <3> QED
      BY <1>2, <3>2, <3>3 DEF AccountPart
  <2> QED
    BY <2>2, <2>3
<1>19. SavedPart'
  <2>1. \A c \in saved : Kept(c, disk')
    BY <1>1, <1>2, <1>4, <1>8 DEF SdkPart, Remembers, KeepsKnown, r, s
  <2> QED
    BY <1>1, <1>2, <2>1 DEF SavedPart
<1> QED
  BY <1>12, <1>13, <1>14, <1>15, <1>17, <1>18, <1>19 DEF CommandsInv

(* The queue is gone until it is written; the rest of the state is there. *)
LEMMA TruncateStep ==
    ASSUME CommandsInv, NEW p \in Processes, TruncateNodeFile(p)
    PROVE  CommandsInv'
<1>1. /\ TypePart /\ ProcessPart /\ JsonPart /\ SdkPart /\ FilePart
      /\ AccountPart /\ SavedPart
  BY DEF CommandsInv
<1>2. /\ mode = "sdk" /\ proc[p] # Off /\ proc[p].commits # <<>> /\ ~KeepersLeft(proc[p])
      /\ nodeFile' = "truncated" /\ disk' = [disk EXCEPT !.queue = <<>>]
      /\ UNCHANGED <<mode, proc, commands, ticks, saved, reported, overwritten, torn, cuts>>
  BY DEF TruncateNodeFile, historyVars
<1>3. disk \in Home /\ Solvent(disk)
  BY <1>1 DEF TypePart
<1>4. /\ disk' \in Home
      /\ disk'.claims = disk.claims /\ disk'.credited = disk.credited
      /\ disk'.burned = disk.burned /\ disk'.debited = disk.debited
      /\ disk'.dropped = disk.dropped /\ disk'.transfers = disk.transfers
      /\ disk'.effects = disk.effects /\ disk'.proposals = disk.proposals
      /\ disk'.policy = disk.policy
  <2>1. <<>> \in Seq(Claims)
    OBVIOUS
  <2> QED
    BY <1>2, <1>3, <2>1 DEF Home
<1>5. Solvent(disk')
  BY <1>3, <1>4, SameLedger
<1>6. TypePart'
  <2>1. (Solvent(disk))'
    BY <1>5 DEF Solvent, Balance, Supply
  <2> QED
    BY <1>1, <1>2, <1>4, <2>1 DEF TypePart
<1>7. ProcessPart'
  BY <1>1, <1>2 DEF ProcessPart
<1>8. JsonPart' /\ SdkPart'
  BY <1>1, <1>2 DEF JsonPart, SdkPart
<1>9. FilePart'
  BY <1>1, <1>2 DEF FilePart, SdkPart
<1>10. ASSUME ~torn' PROVE SoundPart'
  <2>1. SoundPart
    BY <1>2, <1>10 DEF CommandsInv
  <2> QED
    BY <1>2, <1>4, <2>1 DEF SoundPart, AtRest, Sound
<1>11. AccountPart'
  BY <1>1, <1>2, <1>4 DEF AccountPart, Explained, Ahead, Recorded
<1>12. SavedPart'
  <2>1. ASSUME NEW c \in saved, c.name # "queue-deposit-claim" PROVE Kept(c, disk')
    <3>1. Kept(c, disk)
      BY <1>1, <1>2, <2>1 DEF SavedPart, SdkPart
    <3> QED
      BY <1>4, <2>1, <3>1 DEF Kept
  <2> QED
    BY <1>1, <1>2, <2>1 DEF SavedPart
<1> QED
  BY <1>6, <1>7, <1>8, <1>9, <1>10, <1>11, <1>12 DEF CommandsInv

(* The record after Save. *)
LEMMA WrittenClient ==
    ASSUME NEW r, NEW k, NEW done, ClientOK(r, k, done), r.step = "run", NEW known,
           r.command \in done
    PROVE  LET n == Written(r, known) IN
           /\ ClientOK(n, k, done)
           /\ n.step = "run" /\ n.started = r.started /\ n.commits = <<>> /\ n.known = known
<1> DEFINE n == Written(r, known)
<1>1. IsClient(r)
  BY DEF ClientOK
<1>2. /\ n.step = r.step /\ n.started = r.started /\ n.commits = <<>>
      /\ n.command = r.command /\ n.ok = r.ok /\ n.known = known
      /\ r.step = "run" => IsClient(n)
  BY <1>1, ClientWrites
<1> HIDE DEF n
<1>3. Len(<<>>) = 0 /\ DOMAIN <<>> = {}
  OBVIOUS
<1>4. Accounts(n, k) /\ Remembers(n) /\ Delivers(n, done)
  BY <1>2, <1>3 DEF Accounts, ProposalAccounts, AllExplained, Remembers, Delivers
<1> QED
  BY <1>2, <1>4 DEF ClientOK, n

LEMMA WrittenDaemon ==
    ASSUME NEW r, NEW k, DaemonOK(r, k), r.step = "run", NEW known, known = r.known
    PROVE  LET n == Written(r, known) IN
           /\ DaemonOK(n, k)
           /\ n.step = "run" /\ n.started = r.started /\ n.commits = <<>> /\ n.known = known
           /\ n.memory = r.memory
<1> DEFINE n == Written(r, known)
<1>1. IsDaemon(r) /\ Explained(r.memory, k) /\ KeepsKnown(r.known, r.memory)
  BY DEF DaemonOK
<1>2. /\ n.step = r.step /\ n.started = r.started /\ n.commits = <<>>
      /\ n.memory = r.memory /\ n.ok = r.ok /\ n.known = known
      /\ r.step = "run" => IsDaemon(n)
  BY <1>1, DaemonWrites
<1> HIDE DEF n
<1>3. Len(<<>>) = 0 /\ DOMAIN <<>> = {}
  OBVIOUS
<1>4. AllExplained(n.commits, k) /\ Remembers(n)
  BY <1>2, <1>3 DEF AllExplained, Remembers
<1> QED
  BY <1>1, <1>2, <1>4 DEF DaemonOK, n

(* What the process that saves knows of, and what it has done itself, is kept by
   the last of its commits. *)
LEMMA SavedRecord ==
    ASSUME ProcessPart, NEW p \in Processes, proc[p] # Off, proc[p].step = "run",
           proc[p].ok, proc[p].commits # <<>>,
           saved' = saved \cup Commands(p), cuts' = cuts
    PROVE  LET r == proc[p]
               n == Written(r, r.known \cup Commands(p)) IN
           /\ p \in Clients => ClientOK(n, cuts', saved')
           /\ p = daemon => DaemonOK(n, cuts') /\ n.memory = r.memory
           /\ n # Off /\ n.step = "run" /\ n.started = r.started /\ n.commits = <<>>
           /\ n.known = r.known \cup Commands(p)
           /\ \A c \in r.known \cup Commands(p) : Kept(c, Last(r.commits))
<1> DEFINE r == proc[p]
           known == r.known \cup Commands(p)
           n == Written(r, known)
<1>1. /\ p \in Clients => ClientOK(r, cuts, saved)
      /\ p = daemon => DaemonOK(r, cuts)
      /\ p \in Clients \/ p = daemon
      /\ r.commits \in Seq(Home) /\ Remembers(r)
  BY ProcessFacts
<1>2. p \in Clients => Commands(p) = {r.command}
  BY CommandsAssumption DEF Commands
<1>3. p = daemon => Commands(p) = {} /\ known = r.known
  BY DEF Commands
<1>4. r.step = "run" /\ r.ok /\ r.commits # <<>>
  OBVIOUS
<1> HIDE DEF r, known
<1>5. ASSUME p \in Clients
      PROVE  /\ p \in Clients => ClientOK(n, cuts', saved')
             /\ p = daemon => DaemonOK(n, cuts') /\ n.memory = r.memory
             /\ n.step = "run" /\ n.started = r.started /\ n.commits = <<>>
             /\ n.known = known
  <2>1. ClientOK(r, cuts, saved')
    BY <1>1, <1>5 DEF ClientOK, Delivers
  <2>2. r.command \in saved'
    BY <1>2, <1>5
  <2>3. /\ ClientOK(n, cuts, saved')
        /\ n.step = "run" /\ n.started = r.started /\ n.commits = <<>> /\ n.known = known
    BY <1>4, <2>1, <2>2, WrittenClient
  <2> QED
    BY <1>5, <2>3, CommandsAssumption
<1>6. ASSUME p = daemon
      PROVE  /\ p \in Clients => ClientOK(n, cuts', saved')
             /\ p = daemon => DaemonOK(n, cuts') /\ n.memory = r.memory
             /\ n.step = "run" /\ n.started = r.started /\ n.commits = <<>>
             /\ n.known = known
  <2>1. /\ DaemonOK(n, cuts)
        /\ n.step = "run" /\ n.started = r.started /\ n.commits = <<>> /\ n.known = known
        /\ n.memory = r.memory
    BY <1>1, <1>3, <1>4, <1>6, WrittenDaemon
  <2> QED
    BY <1>6, <2>1, CommandsAssumption
<1>7. /\ p \in Clients => ClientOK(n, cuts', saved')
      /\ p = daemon => DaemonOK(n, cuts') /\ n.memory = r.memory
      /\ n.step = "run" /\ n.started = r.started /\ n.commits = <<>>
      /\ n.known = known
  BY <1>1, <1>5, <1>6
<1> HIDE DEF n
<1>8. n # Off
  <2>1. Off.step = "off"
    BY DEF Off
  <2> QED
    BY <1>7, <2>1
<1>9. Len(r.commits) \in DOMAIN r.commits /\ Last(r.commits) = r.commits[Len(r.commits)]
  BY <1>1, <1>4, FirstAndRest, Zenon
<1>10. \A c \in r.known : Kept(c, Last(r.commits))
  BY <1>1, <1>9 DEF Remembers, KeepsKnown
<1>11. \A c \in Commands(p) : Kept(c, Last(r.commits))
  BY <1>1, <1>2, <1>3, <1>4 DEF ClientOK, Delivers
<1> QED
  BY <1>7, <1>8, <1>10, <1>11 DEF n, known, r

LEMMA WriteStep ==
    ASSUME CommandsInv, NEW p \in Processes, WriteNodeFile(p)
    PROVE  CommandsInv'
<1> DEFINE r == proc[p]
           s == r.commits
<1>1. /\ TypePart /\ ProcessPart /\ JsonPart /\ SdkPart /\ FilePart
      /\ AccountPart /\ SavedPart
  BY DEF CommandsInv
<1>2. /\ mode = "sdk" /\ r # Off /\ s # <<>> /\ ~KeepersLeft(r)
      /\ nodeFile' = "whole" /\ disk' = Head(s)
      /\ UNCHANGED <<mode, commands, ticks, reported, overwritten, torn, cuts>>
  BY DEF WriteNodeFile
<1>3. /\ p \in Clients => ClientOK(r, cuts, saved)
      /\ p = daemon => DaemonOK(r, cuts)
      /\ p \in Clients \/ p = daemon
      /\ r.step \in {"run", "close"} /\ States(s) /\ s \in Seq(Home)
      /\ r.ok \in BOOLEAN /\ Remembers(r)
      /\ r.step = "close" => Len(s) = 1
      /\ s # <<>> => Explained(Last(s), cuts)
  BY <1>1, <1>2, ProcessFacts
<1>0. /\ daemon \in Processes /\ (\A q \in Clients : q \in Processes /\ q # daemon)
  BY CommandsAssumption DEF Processes
<1>4. /\ r.known = saved /\ overwritten = {}
      /\ \A q \in Processes \ {p} : proc[q] = Off
  BY <1>1, <1>2, Alone DEF SdkPart
<1>5. ASSUME r.step = "run" PROVE r.ok /\ ~ (Len(s) > 1)
  BY <1>2, <1>3, <1>5 DEF KeepersLeft
<1>6. CASE \/ /\ r.step = "run"
              /\ saved' = saved \cup Commands(p)
              /\ proc' = [proc EXCEPT ![p].commits = <<>>, ![p].known = @ \cup Commands(p)]
           \/ /\ r.step = "close"
              /\ saved' = saved
              /\ proc' = [proc EXCEPT ![p] = Off]
  <2> DEFINE new == IF r.step = "run" THEN Written(r, r.known \cup Commands(p)) ELSE Off
  <2>1. Becomes(p, new)
    BY <1>1, <1>6 DEF TypePart, Becomes, Written
  <2>2. r.step = "run" =>
            /\ p \in Clients => ClientOK(new, cuts', saved')
            /\ p = daemon => DaemonOK(new, cuts') /\ new.memory = r.memory
            /\ new # Off /\ new.step = "run" /\ new.commits = <<>>
            /\ new.known = r.known \cup Commands(p) /\ saved' = saved \cup Commands(p)
            /\ \A c \in r.known \cup Commands(p) : Kept(c, Last(s))
    BY <1>1, <1>2, <1>5, <1>6, SavedRecord
  <2>3. r.step # "run" => new = Off /\ saved' = saved
    BY <1>6
  <2> HIDE DEF r, s, new
  <2>4. /\ Head(s) = s[1] /\ 1 \in DOMAIN s /\ Len(s) \in Nat /\ Len(s) # 0
        /\ Last(s) = s[Len(s)]
    BY <1>2, <1>3, FirstAndRest
  <2>5. Len(s) = 1 /\ disk' = Last(s) /\ disk' = s[1]
    <3>1. CASE r.step = "run"
      <4>1. ~ (Len(s) > 1)
        BY <1>5, <3>1
      <4>2. \A n \in Nat : n # 0 /\ ~ (n > 1) => n = 1
        OBVIOUS
      <4>3. Len(s) = 1
        BY <2>4, <4>1, <4>2, Zenon
      <4> QED
        BY <1>2, <2>4, <4>3
    <3>2. CASE r.step = "close"
      <4>1. Len(s) = 1
        BY <1>3, <3>2
      <4> QED
        BY <1>2, <2>4, <4>1
    <3> QED
      BY <1>3, <3>1, <3>2
  <2>6. disk' \in Home /\ Solvent(disk') /\ Explained(disk', cuts)
    BY <1>2, <1>3, <2>4, <2>5 DEF States
  <2>7. \A c \in saved' : Kept(c, disk')
    <3>1. \A c \in saved : Kept(c, disk')
      BY <1>3, <1>4, <2>4, <2>5 DEF Remembers, KeepsKnown, s
    <3> QED
      BY <1>4, <2>2, <2>3, <2>5, <3>1
  <2>8. TypePart'
    <3>1. (Solvent(disk))'
      BY <2>6 DEF Solvent, Balance, Supply
    <3> QED
      BY <1>1, <1>2, <2>1, <2>6, <3>1 DEF TypePart, Becomes
  <2>9. ProcessPart'
    <3>1. saved \subseteq saved'
      BY <2>2, <2>3
    <3>2. new # Off => /\ p \in Clients => ClientOK(new, cuts', saved')
                       /\ p = daemon => DaemonOK(new, cuts')
      BY <2>2, <2>3
    <3> QED
      BY <1>1, <1>2, <2>1, <3>1, <3>2, OneChanges
  <2>10. JsonPart' /\ FilePart'
    BY <1>2 DEF JsonPart, FilePart
  <2>11. \A q \in Processes : proc'[q] # Off => q = p /\ proc'[q] = new /\ r.step = "run"
    BY <1>4, <2>1, <2>3 DEF Becomes
  <2>12. SdkPart'
    BY <1>2, <1>4, <2>2, <2>11 DEF SdkPart
  <2>13. ASSUME ~torn' PROVE SoundPart'
    <3>1. SoundPart
      BY <1>2, <2>13 DEF CommandsInv
    <3>2. Sound(disk')
      BY <1>2, <2>5, <3>1 DEF SoundPart, EndsSound, r, s
    <3>3. \A q \in Processes : proc'[q] # Off => EndsSound(proc'[q])
      <4>1. Len(<<>>) = 0
        OBVIOUS
      <4> QED
        BY <2>2, <2>11, <4>1 DEF EndsSound
    <3>4. proc'[daemon] # Off => Sound(proc'[daemon].memory)
      BY <1>0, <1>2, <2>2, <2>11, <3>1 DEF SoundPart, r
    <3> QED
      BY <3>2, <3>3, <3>4 DEF SoundPart
  <2>14. AccountPart'
    <3>1. \A q \in Clients : ~HalfDone(proc'[q])
      BY <1>0, <2>2, <2>11 DEF HalfDone, MidCommit, KeepersLeft
    <3> QED
      BY <1>2, <2>6, <3>1 DEF AccountPart
  <2>15. SavedPart'
    <3>1. reported' \subseteq saved'
      BY <1>1, <1>2, <2>2, <2>3 DEF SavedPart
    <3> QED
      BY <2>7, <3>1 DEF SavedPart
  <2> QED
    BY <2>8, <2>9, <2>10, <2>12, <2>13, <2>14, <2>15 DEF CommandsInv
<1> QED
  BY <1>6 DEF WriteNodeFile

LEMMA SaveStep ==
    ASSUME CommandsInv, NEW p \in Processes, Save(p)
    PROVE  CommandsInv'
<1> DEFINE r == proc[p]
           s == r.commits
           known == r.known \cup Commands(p)
           new == Written(r, known)
<1>1. /\ TypePart /\ ProcessPart /\ JsonPart /\ SdkPart /\ FilePart
      /\ AccountPart /\ SavedPart
  BY DEF CommandsInv
<1>2. /\ mode = "json" /\ r # Off /\ r.ok /\ s # <<>> /\ disk' = Last(s)
      /\ saved' = saved \cup Commands(p) /\ overwritten' = saved' \ known
      /\ UNCHANGED <<mode, nodeFile, commands, ticks, reported, torn, cuts>>
  BY DEF Save
<1>3. r.step = "run" /\ ~r.started
  BY <1>1, <1>2 DEF JsonPart
<1>4. Becomes(p, new)
  BY <1>1 DEF Save, TypePart, Becomes, Written
<1>5. /\ States(s) /\ s \in Seq(Home) /\ Explained(Last(s), cuts)
      /\ p \in Clients \/ p = daemon
      /\ p = daemon => r.memory = Last(s)
  BY <1>1, <1>2, <1>3, ProcessFacts DEF DaemonOK, IsDaemon
<1>6. /\ p \in Clients => ClientOK(new, cuts', saved')
      /\ p = daemon => DaemonOK(new, cuts') /\ new.memory = r.memory
      /\ new # Off /\ new.step = "run" /\ new.started = r.started /\ new.commits = <<>>
      /\ new.known = known
      /\ \A c \in known : Kept(c, Last(s))
  BY <1>1, <1>2, <1>3, SavedRecord
<1>0. /\ daemon \in Processes /\ (\A q \in Clients : q \in Processes /\ q # daemon)
  BY CommandsAssumption DEF Processes
<1> HIDE DEF r, s, known, new
<1>7. Len(s) \in DOMAIN s /\ Last(s) = s[Len(s)]
  BY <1>2, <1>5, FirstAndRest, Zenon
<1>8. disk' \in Home /\ Solvent(disk')
  BY <1>2, <1>5, <1>7 DEF States
<1>9. TypePart'
  <2>1. (Solvent(disk))'
    BY <1>8 DEF Solvent, Balance, Supply
  <2> QED
    BY <1>1, <1>2, <1>4, <1>8, <2>1 DEF TypePart, Becomes
<1>10. ProcessPart'
  <2>1. saved \subseteq saved'
    BY <1>2
  <2> QED
    BY <1>1, <1>2, <1>4, <1>6, <2>1, OneChanges
<1>11. JsonPart'
  BY <1>1, <1>2, <1>3, <1>4, <1>6 DEF JsonPart, Becomes
<1>12. SdkPart' /\ FilePart'
  BY <1>1, <1>2 DEF SdkPart, FilePart, JsonPart
<1>13. ASSUME ~torn' PROVE SoundPart'
  <2>1. SoundPart
    BY <1>2, <1>13 DEF CommandsInv
  <2>2. Sound(disk')
    BY <1>2, <2>1 DEF SoundPart, EndsSound, r, s
  <2>3. EndsSound(new)
    <3>1. Len(<<>>) = 0
      OBVIOUS
    <3> QED
      BY <1>6, <3>1 DEF EndsSound
  <2>4. \A q \in Processes : proc'[q] # Off => EndsSound(proc'[q])
    BY <1>4, <2>1, <2>3 DEF SoundPart, Becomes
  <2>5. proc'[daemon] # Off => Sound(proc'[daemon].memory)
    <3>1. CASE p = daemon
      BY <1>2, <1>4, <1>5, <1>6, <2>2, <3>1 DEF Becomes
    <3>2. CASE p # daemon
      BY <1>0, <1>4, <2>1, <3>2 DEF SoundPart, Becomes
    <3> QED
      BY <3>1, <3>2
  <2> QED
    BY <2>2, <2>4, <2>5 DEF SoundPart
<1>14. AccountPart'
  <2>1. \A q \in Clients : ~HalfDone(proc'[q])
    BY <1>0, <1>2, <1>11 DEF JsonPart, HalfDone, MidCommit
  <2> QED
    BY <1>2, <1>5, <2>1 DEF AccountPart
<1>15. SavedPart'
  <2>1. reported' \subseteq saved'
    BY <1>1, <1>2 DEF SavedPart
  <2> QED
    BY <1>2, <1>6, <2>1 DEF SavedPart
<1> QED
  BY <1>9, <1>10, <1>11, <1>12, <1>13, <1>14, <1>15 DEF CommandsInv

-----------------------------------------------------------------------------
(* The daemon. *)

LEMMA StartStep ==
    ASSUME CommandsInv, StartDaemon
    PROVE  CommandsInv'
<1> DEFINE known == saved \ overwritten
           run == [step |-> "run", known |-> known, started |-> FALSE,
                   ok |-> TRUE, memory |-> disk, commits |-> <<>>]
<1>1. /\ TypePart /\ ProcessPart /\ JsonPart /\ SdkPart /\ FilePart
      /\ AccountPart /\ SavedPart
  BY DEF CommandsInv
<1>2. /\ proc[daemon] = Off /\ CanOpen
      /\ UNCHANGED <<mode, disk, nodeFile, commands, ticks, saved, reported, overwritten,
                     torn, cuts>>
  BY DEF StartDaemon, historyVars
<1>3. /\ daemon \in Processes /\ (\A q \in Clients : q \in Processes /\ q # daemon)
  BY CommandsAssumption DEF Processes
<1>4. Becomes(daemon, run)
  BY <1>1, <1>3 DEF StartDaemon, TypePart, Becomes
<1>5. /\ nodeFile = "whole" /\ Explained(disk, cuts) /\ KeepsKnown(known, disk)
      /\ \A q \in Processes : ~MidCommit(proc[q])
      /\ mode = "sdk" => \A q \in Processes : proc[q] = Off
  BY <1>2, OpenState
<1>6. /\ run.step = "run" /\ run.known = known /\ run.started = FALSE
      /\ run.memory = disk /\ run.commits = <<>>
  OBVIOUS
<1>7. disk \in Home /\ Solvent(disk) /\ <<>> \in Seq(Home)
  BY <1>1 DEF TypePart
<1> HIDE DEF known
<1>8. run \in DaemonRecord(known)
  BY <1>7 DEF DaemonRecord
<1>9. run # Off
  <2>1. Off.step = "off"
    BY DEF Off
  <2> QED
    BY <1>6, <2>1
<1> HIDE DEF run
<1>10. DOMAIN <<>> = {} /\ Len(<<>>) = 0
  OBVIOUS
<1>11. DaemonOK(run, cuts)
  <2>1. IsDaemon(run)
    BY <1>6, <1>7, <1>8, <1>10 DEF IsDaemon, States
  <2> QED
    BY <1>5, <1>6, <1>10, <2>1 DEF DaemonOK, AllExplained, Remembers
<1>12. TypePart'
  BY <1>1, <1>2, <1>4 DEF TypePart, Becomes, Solvent, Balance, Supply
<1>13. ProcessPart'
  BY <1>1, <1>2, <1>3, <1>4, <1>11, OneChanges
<1>14. JsonPart'
  BY <1>1, <1>2, <1>4, <1>6 DEF JsonPart, Becomes
<1>15. SdkPart'
  <2>1. mode = "sdk" => known = saved /\ \A q \in Processes : proc'[q] # Off => q = daemon
    BY <1>1, <1>4, <1>5 DEF SdkPart, Becomes, known
  <2> QED
    BY <1>1, <1>2, <1>4, <1>6, <2>1 DEF SdkPart, Becomes
<1>16. FilePart'
  BY <1>2, <1>5 DEF FilePart
<1>17. ~MidCommit(run)
  BY <1>6 DEF MidCommit
<1>18. ASSUME ~torn' PROVE SoundPart'
  <2>1. SoundPart
    BY <1>2, <1>18 DEF CommandsInv
  <2>2. Sound(disk)
    BY <1>5, <2>1 DEF SoundPart, AtRest
  <2>3. EndsSound(run)
    BY <1>6, <1>10 DEF EndsSound
  <2>4. \A q \in Processes : proc'[q] # Off => EndsSound(proc'[q])
    BY <1>4, <2>1, <2>3 DEF SoundPart, Becomes
  <2>5. Sound(proc'[daemon].memory)
    BY <1>4, <1>6, <2>2 DEF Becomes
  <2> QED
    BY <1>2, <2>2, <2>4, <2>5 DEF SoundPart
<1>19. AccountPart'
  <2>1. \A q \in Clients : ~HalfDone(proc'[q])
    BY <1>3, <1>4, <1>5 DEF Becomes, HalfDone
  <2> QED
    BY <1>2, <1>5, <2>1 DEF AccountPart
<1>20. SavedPart'
  BY <1>1, <1>2 DEF SavedPart
<1> QED
  BY <1>12, <1>13, <1>14, <1>15, <1>16, <1>18, <1>19, <1>20 DEF CommandsInv

LEMMA TickedDaemon ==
    ASSUME NEW r, NEW k, DaemonOK(r, k), r.step = "run", NEW cs, GoodCommits(r.memory, cs)
    PROVE  LET n == Ticking(r, cs) IN
           /\ DaemonOK(n, k)
           /\ n.step = "run" /\ n.started = FALSE /\ n.commits = cs /\ n.known = r.known
           /\ n.memory = Last(cs)
<1> DEFINE n == Ticking(r, cs)
<1>1. /\ IsDaemon(r) /\ Explained(r.memory, k) /\ KeepsKnown(r.known, r.memory)
  BY DEF DaemonOK
<1>2. /\ States(cs) /\ cs # <<>>
      /\ \A i \in DOMAIN cs : Extends(r.memory, cs[i]) /\ Level(r.memory, cs[i])
  BY DEF GoodCommits
<1>3. /\ Last(cs) \in Home /\ Solvent(Last(cs)) /\ Extends(r.memory, Last(cs))
      /\ Level(r.memory, Last(cs))
  BY LastOfGood
<1>4. r \in DaemonRecord(r.known) /\ cs \in Seq(Home)
  BY <1>1, <1>2 DEF IsDaemon, States
<1>5. /\ n.step = r.step /\ n.started = FALSE /\ n.commits = cs /\ n.known = r.known
      /\ n.memory = Last(cs)
  BY <1>4 DEF DaemonRecord, Ticking
<1>6. n \in DaemonRecord(r.known)
  BY <1>3, <1>4 DEF DaemonRecord, Ticking
<1> HIDE DEF n
<1>7. IsDaemon(n)
  BY <1>2, <1>3, <1>5, <1>6 DEF IsDaemon
<1>8. AllExplained(cs, k) /\ Explained(Last(cs), k)
  BY <1>1, <1>2, <1>3, LevelIsExplained DEF AllExplained
<1>9. KeepsKnown(r.known, Last(cs)) /\ \A i \in DOMAIN cs : KeepsKnown(r.known, cs[i])
  BY <1>1, <1>2, <1>3, KnownOn
<1> QED
  BY <1>5, <1>7, <1>8, <1>9 DEF DaemonOK, Remembers, n

LEMMA TickStep ==
    ASSUME CommandsInv, Tick
    PROVE  CommandsInv'
<1> DEFINE r == proc[daemon]
           s == AdvanceBlock(r.memory).commits
           new == Ticking(r, s)
<1>1. /\ TypePart /\ ProcessPart /\ JsonPart /\ SdkPart /\ FilePart
      /\ AccountPart /\ SavedPart
  BY DEF CommandsInv
<1>2. /\ r # Off /\ r.step = "run" /\ r.commits = <<>> /\ ticks < MaxTicks
      /\ ticks' = ticks + 1
      /\ UNCHANGED <<mode, disk, nodeFile, commands, saved, reported, overwritten, torn, cuts>>
  BY DEF Tick, historyVars
<1>3. /\ daemon \in Processes /\ (\A q \in Clients : q \in Processes /\ q # daemon)
      /\ mode \in {"json", "sdk"}
  BY <1>1, CommandsAssumption DEF Processes, TypePart
<1>4. DaemonOK(r, cuts)
  BY <1>1, <1>2 DEF ProcessPart
<1>5. Becomes(daemon, new)
  BY <1>1, <1>3 DEF Tick, TypePart, Becomes, Ticking
<1>6. r.memory \in Home /\ Solvent(r.memory)
  <2>1. r \in DaemonRecord(r.known) /\ Solvent(r.memory)
    BY <1>4 DEF DaemonOK, IsDaemon
  <2> QED
    BY <2>1 DEF DaemonRecord
<1>7. GoodCommits(r.memory, s) /\ (Sound(r.memory) => EndsTwice(s))
  BY <1>6, BlockIsGood
<1> HIDE DEF s
<1>8. /\ DaemonOK(new, cuts)
      /\ new.step = "run" /\ new.started = FALSE /\ new.commits = s /\ new.known = r.known
      /\ new.memory = Last(s)
  BY <1>2, <1>4, <1>7, TickedDaemon
<1> HIDE DEF r, new
<1>9. mode = "sdk" => \A q \in Processes \ {daemon} : proc[q] = Off
  BY <1>1, <1>2, <1>3, Alone DEF r
<1>10. ~MidCommit(r)
  BY <1>2 DEF MidCommit, KeepersLeft
<1>11. \A q \in Processes : ~MidCommit(proc[q])
  BY <1>1, <1>3, <1>9, <1>10, OffIsIdle DEF JsonPart, MidCommit, r
<1>12. nodeFile = "whole"
  BY <1>1, <1>2, <1>3 DEF TypePart, FilePart, r
<1>13. TypePart'
  <2>1. ticks' \in 0 .. MaxTicks
    BY <1>1, <1>2, CommandsAssumption DEF TypePart
  <2> QED
    BY <1>1, <1>2, <1>5, <2>1 DEF TypePart, Becomes, Solvent, Balance, Supply
<1>14. ProcessPart'
  BY <1>1, <1>2, <1>3, <1>5, <1>8, OneChanges
<1>15. JsonPart' /\ FilePart'
  BY <1>1, <1>2, <1>3, <1>5, <1>8, <1>12 DEF JsonPart, FilePart, Becomes
<1>16. SdkPart'
  <2>1. mode = "sdk" => \A q \in Processes : proc'[q] # Off => q = daemon
    BY <1>5, <1>9 DEF Becomes
  <2> QED
    BY <1>1, <1>2, <1>3, <1>5, <1>8, <2>1 DEF SdkPart, Becomes, r
<1>17. ~MidCommit(new)
  BY <1>8 DEF MidCommit
<1>18. ASSUME ~torn' PROVE SoundPart'
  <2>1. SoundPart
    BY <1>2, <1>18 DEF CommandsInv
  <2>2. Sound(disk) /\ Sound(r.memory)
    BY <1>2, <1>11, <2>1 DEF SoundPart, AtRest, r
  <2>3. Sound(Last(s)) /\ EndsTwice(s)
    BY <1>7, <2>2, LastOfGood
  <2>4. EndsSound(new)
    BY <1>8, <2>3 DEF EndsSound, EndsTwice
  <2>5. \A q \in Processes : proc'[q] # Off => EndsSound(proc'[q])
    BY <1>5, <2>1, <2>4 DEF SoundPart, Becomes
  <2>6. Sound(proc'[daemon].memory)
    BY <1>5, <1>8, <2>3 DEF Becomes
  <2> QED
    BY <1>2, <2>2, <2>5, <2>6 DEF SoundPart
<1>19. AccountPart'
  <2>1. \A q \in Clients : ~HalfDone(proc[q]) /\ ~HalfDone(proc'[q])
    BY <1>3, <1>5, <1>11 DEF Becomes, HalfDone
  <2> QED
    BY <1>1, <1>2, <2>1 DEF AccountPart
<1>20. SavedPart'
  BY <1>1, <1>2 DEF SavedPart
<1> QED
  BY <1>13, <1>14, <1>15, <1>16, <1>18, <1>19, <1>20 DEF CommandsInv

-----------------------------------------------------------------------------
(* The theorems. *)

LEMMA CommandsBegin == CommandsInit => CommandsInv
<1> SUFFICES ASSUME CommandsInit PROVE CommandsInv
  OBVIOUS
<1>1. disk \in {EmptyHome, RoutedHome}
  BY DEF CommandsInit
<1>2. /\ EmptyHome \in Home /\ RoutedHome \in Home
  <2>1. <<>> \in Seq(Claims) /\ <<>> \in Seq(Statuses)
    OBVIOUS
  <2>3. [id \in ProposalIDs |-> 0] \in [ProposalIDs -> Nat]
    OBVIOUS
  <2>2. EmptyHome \in Home
    BY <2>1, <2>3 DEF EmptyHome, Home
  <2> QED
    BY <2>2 DEF RoutedHome, Home
<1>3. /\ disk.claims = {} /\ disk.credited = {} /\ disk.burned = {} /\ disk.debited = {}
      /\ disk.effects = [id \in ProposalIDs |-> 0] /\ disk.proposals = {}
  BY <1>1 DEF EmptyHome, RoutedHome
<1>4. Solvent(disk)
  <2>1. IsFiniteSet({}) /\ Cardinality({}) = 0
    BY FS_EmptySet
  <2>2. ASSUME NEW h \in Holders PROVE Balance(disk, h) >= 0
    <3>1. {c \in disk.credited : c.recipient = h} = {}
      BY <1>3
    <3>2. {w \in disk.debited : w.owner = h} = {}
      BY <1>3
    <3>3. Balance(disk, h) = Cardinality({}) - Cardinality({})
      BY <3>1, <3>2, Zenon DEF Balance
    <3> QED
      BY <2>1, <3>3
  <2>3. Supply(disk) >= 0
    BY <1>3, <2>1 DEF Supply
  <2> QED
    BY <1>3, <2>1, <2>2, <2>3 DEF Solvent
<1>5. Sound(disk)
  BY <1>3 DEF Sound
<1>6. /\ \A p \in Processes : proc[p] = Off
      /\ \A p \in Clients : proc[p] = Off
      /\ proc[daemon] = Off
  BY DEF CommandsInit, Processes
<1>7. TypePart
  <2>1. disk \in Home
    BY <1>1, <1>2
  <2>2. commands \in 0 .. MaxCommands /\ ticks \in 0 .. MaxTicks
    BY CommandsAssumption DEF CommandsInit
  <2>3. proc = [p \in Processes |-> proc[p]]
    BY DEF CommandsInit
  <2>4. /\ mode \in {"json", "sdk"} /\ nodeFile \in {"whole", "truncated"}
        /\ torn \in BOOLEAN /\ cuts \in [ProposalIDs -> Nat]
    BY DEF CommandsInit
  <2> QED
    BY <1>4, <2>1, <2>2, <2>3, <2>4 DEF TypePart
<1>8. ProcessPart /\ JsonPart /\ SdkPart /\ FilePart
  BY <1>6 DEF ProcessPart, JsonPart, SdkPart, FilePart, CommandsInit
<1>9. SoundPart
  BY <1>5, <1>6 DEF SoundPart
<1>10. AccountPart
  <2>1. ASSUME NEW id \in ProposalIDs PROVE disk.effects[id] = cuts[id] + Recorded(disk, id)
    BY <1>3 DEF CommandsInit, Recorded
  <2>2. Explained(disk, cuts)
    BY <2>1 DEF Explained
  <2> QED
    BY <1>6, <2>2, OffIsIdle DEF AccountPart
<1>11. SavedPart
  BY DEF SavedPart, CommandsInit
<1> QED
  BY <1>7, <1>8, <1>9, <1>10, <1>11 DEF CommandsInv

(* A command whose result is saved: Open with what ThenSave makes of it. *)
LEMMA CommandStep ==
    ASSUME CommandsInv, NEW p \in Clients, NEW name, NEW argument, NEW ok \in BOOLEAN, NEW s,
           Serves(disk, Named(name, argument), Result(ok, s)),
           RunCommand(p, name, argument, Result(ok, s))
    PROVE  CommandsInv'
<1> DEFINE c == Named(name, argument)
           r == ThenSave(Result(ok, s))
<1>1. Opens(disk, c, "run", r)
  BY SavedServes
<1>2. Open(p, c, "run", r)
  BY DEF RunCommand
<1> HIDE DEF c, r
<1> QED
  BY <1>1, <1>2, OpenStep

(* Every step of a process preserves the invariant. *)
LEMMA CommandsStep ==
    ASSUME CommandsInv, [CommandsNext]_cmdVars
    PROVE  CommandsInv'
<1>0. disk \in Home /\ Solvent(disk)
  BY DEF CommandsInv, TypePart
<1>1. ASSUME NEW p \in Clients, NEW name, NEW argument, NEW e,
             Serves(disk, Named(name, argument), e), e = Result(e.ok, e.commits),
             RunCommand(p, name, argument, e)
      PROVE  CommandsInv'
  <2>1. e.ok \in BOOLEAN
    BY <1>1 DEF Serves, GoodResult
  <2> QED
    BY <1>1, <2>1, CommandStep
<1>2. ASSUME NEW p \in Clients, NEW argument, NEW e,
             Enacts(disk, Named("apply-proposal", argument), e),
             RunCommand(p, "apply-proposal", argument, e)
      PROVE  CommandsInv'
  <2>1. Opens(disk, Named("apply-proposal", argument), "run", ThenSave(e))
    BY <1>2, SavedEnacts
  <2>2. Open(p, Named("apply-proposal", argument), "run", ThenSave(e))
    BY <1>2 DEF RunCommand
  <2> QED
    BY <2>1, <2>2, OpenStep
<1>3. ASSUME NEW p \in Clients, TxSubmitDepositClaim(p) PROVE CommandsInv'
  <2>1. PICK claim \in Claims :
            RunCommand(p, "submit-deposit-claim", claim, SubmitDepositClaim(disk, claim))
    BY <1>3 DEF TxSubmitDepositClaim
  <2> DEFINE e == SubmitDepositClaim(disk, claim)
  <2>2. e = Result(e.ok, e.commits)
    BY DEF SubmitDepositClaim, Result, Refused
  <2>3. Serves(disk, Named("submit-deposit-claim", claim), e)
    BY <1>0, SubmitServes
  <2> HIDE DEF e
  <2> QED
    BY <1>1, <2>1, <2>2, <2>3 DEF e
<1>4. ASSUME NEW p \in Clients, TxQueueDepositClaim(p) PROVE CommandsInv'
  BY <1>0, <1>4, QueueOpens, OpenStep DEF TxQueueDepositClaim
<1>5. ASSUME NEW p \in Clients, TxExecuteWithdrawal(p) PROVE CommandsInv'
  <2>1. PICK w \in Withdrawals \ disk.burned :
            RunCommand(p, "execute-withdrawal", w, ExecuteWithdrawal(disk, w))
    BY <1>5 DEF TxExecuteWithdrawal
  <2> DEFINE e == ExecuteWithdrawal(disk, w)
  <2>2. e = Result(e.ok, e.commits)
    BY DEF ExecuteWithdrawal, Result
  <2>3. Serves(disk, Named("execute-withdrawal", w), e)
    BY <1>0, WithdrawalServes
  <2> HIDE DEF e
  <2> QED
    BY <1>1, <2>1, <2>2, <2>3 DEF e
<1>6. ASSUME NEW p \in Clients, TxSetRouteProfile(p) PROVE CommandsInv'
  <2>1. PICK policy \in {"open", "closed"} :
            RunCommand(p, "set-route-profile", policy, SetRouteProfile(disk, policy))
    BY <1>6 DEF TxSetRouteProfile
  <2> DEFINE e == SetRouteProfile(disk, policy)
  <2>2. e = Result(e.ok, e.commits)
    BY DEF SetRouteProfile, Result
  <2>3. Serves(disk, Named("set-route-profile", policy), e)
    BY <1>0, RouteServes
  <2> HIDE DEF e
  <2> QED
    BY <1>1, <2>1, <2>2, <2>3 DEF e
<1>7. ASSUME NEW p \in Clients, TxInitiateIBCTransfer(p) PROVE CommandsInv'
  <2> DEFINE i == Len(disk.transfers) + 1
             e == InitiateIBCTransfer(disk)
  <2>1. RunCommand(p, "initiate-ibc-transfer", i, e)
    BY <1>7 DEF TxInitiateIBCTransfer
  <2>2. e = Result(e.ok, e.commits)
    BY DEF InitiateIBCTransfer, Result, Refused
  <2>3. Serves(disk, Named("initiate-ibc-transfer", i), e)
    BY <1>0, InitiateServes
  <2> HIDE DEF e, i
  <2> QED
    BY <1>1, <2>1, <2>2, <2>3
<1>8. ASSUME NEW p \in Clients,
             \/ TxCompleteIBCTransfer(p) \/ TxFailIBCTransfer(p)
             \/ TxTimeoutIBCTransfer(p) \/ TxRefundIBCTransfer(p)
      PROVE  CommandsInv'
  <2>1. ASSUME NEW name \in SettleNames, NEW i, NEW from, NEW to \in Statuses \ {"pending"},
               RunCommand(p, name, i, SettleTransfer(disk, i, from, to))
        PROVE  CommandsInv'
    <3> DEFINE e == SettleTransfer(disk, i, from, to)
    <3>1. e = Result(e.ok, e.commits)
      BY DEF SettleTransfer, Result, Refused
    <3>2. Serves(disk, Named(name, i), e)
      BY <1>0, SettleServes
    <3> HIDE DEF e
    <3> QED
      BY <1>1, <2>1, <3>1, <3>2 DEF e
  <2>2. CASE TxCompleteIBCTransfer(p)
    BY <2>1, <2>2 DEF TxCompleteIBCTransfer, CompleteIBCTransfer, SettleNames, Statuses
  <2>3. CASE TxFailIBCTransfer(p)
    BY <2>1, <2>3 DEF TxFailIBCTransfer, FailIBCTransfer, SettleNames, Statuses
  <2>4. CASE TxTimeoutIBCTransfer(p)
    BY <2>1, <2>4 DEF TxTimeoutIBCTransfer, TimeoutIBCTransfer, SettleNames, Statuses
  <2>5. CASE TxRefundIBCTransfer(p)
    BY <2>1, <2>5 DEF TxRefundIBCTransfer, RefundIBCTransfer, SettleNames, Statuses
  <2> QED
    BY <1>8, <2>2, <2>3, <2>4, <2>5
<1>9. ASSUME NEW p \in Clients, TxApplyAssetStatusProposal(p) PROVE CommandsInv'
  BY <1>0, <1>2, <1>9, AssetProposalServes DEF TxApplyAssetStatusProposal
<1>10. ASSUME NEW p \in Clients, TxApplyLimitUpdateProposal(p) PROVE CommandsInv'
  BY <1>0, <1>2, <1>10, LimitProposalServes DEF TxApplyLimitUpdateProposal
<1>11. ASSUME NEW p \in Clients, TxApplyRoutePolicyUpdateProposal(p) PROVE CommandsInv'
  BY <1>0, <1>2, <1>11, PolicyProposalServes DEF TxApplyRoutePolicyUpdateProposal
<1>12. ASSUME NEW p \in Clients, Query(p) PROVE CommandsInv'
  <2> DEFINE c == Named("query", "none")
             e == Result(FALSE, <<disk>>)
  <2>1. Opens(disk, c, "close", e)
    BY <1>0, QueryOpens
  <2>2. mode = "sdk" /\ Open(p, c, "close", e)
    BY <1>12 DEF Query
  <2> HIDE DEF c, e
  <2> QED
    BY <2>1, <2>2, OpenStep
<1>13. CASE UNCHANGED cmdVars
  BY <1>13 DEF cmdVars, historyVars, CommandsInv, TypePart, ProcessPart, JsonPart, SdkPart,
               FilePart, SoundPart, AtRest, AccountPart, SavedPart, Solvent, Balance, Supply
<1> QED
  BY <1>3, <1>4, <1>5, <1>6, <1>7, <1>8, <1>9, <1>10, <1>11, <1>12, <1>13, ReportStep,
     CommitStep, TruncateStep, WriteStep, SaveStep, KillStep, StartStep, TickStep, StopStep
     DEF CommandsNext

(* The invariant holds in every reachable state. *)
LEMMA CommandsInvariant == CommandsSpec => []CommandsInv
<1>1. CommandsInit => CommandsInv
  BY CommandsBegin
<1>2. CommandsInv /\ [CommandsNext]_cmdVars => CommandsInv'
  BY CommandsStep
<1> QED
  BY <1>1, <1>2, PTL DEF CommandsSpec

(* The types of the state on disk, with a supply and balances that are never
   negative, even in the middle of the commits of a process that was killed. *)
THEOREM CommandsTypeCorrect == CommandsSpec => []CommandsTypeOK
<1>1. CommandsInv => CommandsTypeOK
  <2> SUFFICES ASSUME CommandsInv PROVE CommandsTypeOK
    OBVIOUS
  <2>1. TypePart
    BY DEF CommandsInv
  <2>2. DOMAIN proc = Processes
    BY <2>1 DEF TypePart
  <2>3. DOMAIN disk = DOMAIN EmptyHome
    BY <2>1 DEF TypePart, Home, EmptyHome
  <2>4. /\ disk.height \in Nat
        /\ disk.claims \subseteq Claims /\ disk.credited \subseteq Claims
        /\ disk.burned \subseteq Withdrawals /\ disk.debited \subseteq Withdrawals
    BY <2>1 DEF TypePart, Home
  <2> QED
    BY <2>1, <2>2, <2>3, <2>4 DEF TypePart, CommandsTypeOK, Solvent
<1> QED
  BY <1>1, CommandsInvariant, PTL

(* ReportedIsKept for any number of processes, commands and kills: what a
   command has reported as done stays on disk, unless a process of the json mode
   saved over it without having loaded it, or it is a queued claim and node.json
   was truncated by a process that was killed before it wrote it; from then on
   no process opens the home (persistRuntimeNodeState, LoadWithConfig). *)
THEOREM ReportsAreKept == CommandsSpec => []ReportedIsKept
<1>1. CommandsInv => ReportedIsKept
  BY DEF CommandsInv, SavedPart, ReportedIsKept
<1> QED
  BY <1>1, CommandsInvariant, PTL

(* LedgerIsWhole for any number of processes and crashes: at rest every claim
   is credited and every withdrawal debited, from a wallet that held the coin,
   unless a process of the sdk mode was killed between two commits. *)
THEOREM LedgerStaysWhole == CommandsSpec => []LedgerIsWhole
<1>1. CommandsInv => LedgerIsWhole
  <2> SUFFICES ASSUME CommandsInv, AtRest, ~torn
               PROVE  /\ disk.claims = disk.credited /\ disk.burned = disk.debited
                      /\ \A h \in Holders : Balance(disk, h) >= 0
    BY DEF LedgerIsWhole
  <2>1. SoundPart /\ TypePart
    BY DEF CommandsInv
  <2>2. Sound(disk)
    BY <2>1 DEF SoundPart
  <2> QED
    BY <2>1, <2>2 DEF Sound, TypePart, Solvent
<1> QED
  BY <1>1, CommandsInvariant, PTL

(* EffectsAreExplained for any set of proposals and any number of kills: a
   proposal took effect once for its record and once for each process that was
   killed between its change and its record, and never otherwise
   (assertProposalNotApplied, Keeper.persist). *)
THEOREM EffectsHaveReasons == CommandsSpec => []EffectsAreExplained
<1>1. CommandsInv => EffectsAreExplained
  <2> SUFFICES ASSUME CommandsInv, AtRest PROVE Explained(disk, cuts)
    BY DEF EffectsAreExplained, Explained, Recorded
  <2>1. \A p \in Clients : ~HalfDone(proc[p])
    BY DEF AtRest, HalfDone, Processes
  <2> QED
    BY <2>1 DEF CommandsInv, AccountPart
<1> QED
  BY <1>1, CommandsInvariant, PTL
=============================================================================
