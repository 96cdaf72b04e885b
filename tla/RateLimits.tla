----------------------------- MODULE RateLimits -----------------------------
(***************************************************************************)
(* The limits keeper (chain/aegislink/x/limits): one volume limit per      *)
(* asset and the usage it has recorded in the asset's current window.      *)
(* Deposits and withdrawals of an asset draw on the same usage record.     *)
(* Every mutation is committed to the store before the keeper returns, so  *)
(* memory and disk agree between two calls and a restart changes nothing.  *)
(***************************************************************************)
EXTENDS Integers

CONSTANTS AssetIDs,     \* asset identifiers, after strings.TrimSpace
          MaxUint64     \* largest uint64; block heights are uint64 values

ASSUME MaxUint64Assumption == MaxUint64 \in Nat \ {0}

VARIABLES limits,       \* asset -> its rate limit, or NoLimit
          usage         \* asset -> its usage record; all zero when absent

limitsVars == <<limits, usage>>

Uint64 == 0 .. MaxUint64

RateLimit == [windowBlocks : Uint64 \ {0}, maxAmount : Nat \ {0}]

NoLimit == [windowBlocks |-> 0, maxAmount |-> 0]

WindowUsage == [windowStart : Uint64, usedAmount : Nat]

NoUsage == [windowStart |-> 0, usedAmount |-> 0]

LimitsTypeOK == /\ limits \in [AssetIDs -> RateLimit \cup {NoLimit}]
                /\ usage \in [AssetIDs -> WindowUsage]

LimitsInit == /\ limits = [a \in AssetIDs |-> NoLimit]
              /\ usage = [a \in AssetIDs |-> NoUsage]

-----------------------------------------------------------------------------

(* Go's + on uint64: it wraps around. *)
AddUint64(x, y) ==
    IF x + y > MaxUint64 THEN x + y - (MaxUint64 + 1) ELSE x + y

(* Mutant: the window ends one height early. *)
ActiveUsageShort(limit, use, atHeight) ==
    IF /\ use.windowStart # 0
       /\ atHeight + 1 >= AddUint64(use.windowStart, limit.windowBlocks)
    THEN [windowStart |-> atHeight, usedAmount |-> 0]
    ELSE use

(* Mutant: every height starts a new window. *)
ActiveUsagePerHeight(limit, use, atHeight) ==
    IF use.windowStart # 0 /\ atHeight > use.windowStart
    THEN [windowStart |-> atHeight, usedAmount |-> 0]
    ELSE use

(* The usage that counts at a height: the record itself until its window is
   over, a fresh window opened at this height afterwards.  A window start of
   zero means that no window has been opened. *)
ActiveUsage(limit, use, atHeight) ==
    IF /\ use.windowStart # 0
       /\ atHeight >= AddUint64(use.windowStart, limit.windowBlocks)
    THEN [windowStart |-> atHeight, usedAmount |-> 0]
    ELSE use

CheckTransferAtHeight(a, amount, atHeight) ==
    /\ limits[a] # NoLimit
    /\ ActiveUsage(limits[a], usage[a], atHeight).usedAmount + amount
          <= limits[a].maxAmount

(* Mutant: the amount is taken off the usage. *)
RecordedRefund(a, amount, atHeight) ==
    [windowStart |-> atHeight, usedAmount |-> usage[a].usedAmount - amount]

(* RecordTransferAtHeight repeats the check, then stores the new usage. *)
RecordedUsage(a, amount, atHeight) ==
    LET current == ActiveUsage(limits[a], usage[a], atHeight)
    IN  [windowStart |-> IF current.windowStart = 0 THEN atHeight
                                                    ELSE current.windowStart,
         usedAmount  |-> current.usedAmount + amount]

RecordTransferAtHeight(a, amount, atHeight) ==
    /\ CheckTransferAtHeight(a, amount, atHeight)
    /\ usage' = [usage EXCEPT ![a] = RecordedUsage(a, amount, atHeight)]
    /\ UNCHANGED limits

(* SetLimit accepts any limit with a window and a maximum, and leaves the
   usage record of the asset as it is. *)
SetLimit(a, limit) ==
    /\ limit \in RateLimit
    /\ limits' = [limits EXCEPT ![a] = limit]
    /\ UNCHANGED usage
=============================================================================
