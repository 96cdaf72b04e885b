--------------------------- MODULE TransferVolume ---------------------------
(***************************************************************************)
(* The limits keeper as the bridge keeper drives it: transfers are         *)
(* recorded at the current height, and an operator or a governance         *)
(* proposal may replace a limit at any time.  Blocks advance the height,   *)
(* but a withdrawal that carries a height sets it, backwards too.  The     *)
(* history of admitted transfers is kept to compare what was let through   *)
(* with what the limit allows.                                             *)
(***************************************************************************)
EXTENDS RateLimits, Totals, Sequences

CONSTANTS TransferAmounts,\* amounts a transfer may have
          LimitChoices,   \* limits an operator may set
          MaxHeight,      \* bound: last height of the run
          MaxTransfers    \* bound: transfers admitted in the run

ASSUME VolumeAssumption == /\ TransferAmounts \subseteq Nat \ {0}
                           /\ LimitChoices \subseteq RateLimit
                           /\ MaxHeight \in Uint64
                           /\ MaxTransfers \in Nat

VARIABLES height,         \* the bridge keeper's currentHeight
          admitted,       \* history: the transfers let through, in order
          epoch           \* history: asset -> Len(admitted) at its last SetLimit

vars == <<limits, usage, height, admitted, epoch>>

Transfer == [asset : AssetIDs, height : Uint64, amount : TransferAmounts]

TypeOK == /\ LimitsTypeOK
          /\ height \in 0 .. MaxHeight
          /\ admitted \in Seq(Transfer)
          /\ epoch \in [AssetIDs -> Nat]

Init == /\ LimitsInit
        /\ height = 0
        /\ admitted = <<>>
        /\ epoch = [a \in AssetIDs |-> 0]

(* CheckTransferAtHeight followed by RecordTransferAtHeight, the pair that
   both bridge operations call. *)
Admit(a, amount) ==
    /\ Len(admitted) < MaxTransfers
    /\ RecordTransferAtHeight(a, amount, height)
    /\ admitted' = Append(admitted,
                          [asset |-> a, height |-> height, amount |-> amount])
    /\ UNCHANGED <<height, epoch>>

ReplaceLimit(a, limit) ==
    /\ SetLimit(a, limit)
    /\ epoch' = [epoch EXCEPT ![a] = Len(admitted)]
    /\ UNCHANGED <<height, admitted>>

SetCurrentHeight(h) ==
    /\ height' = h
    /\ UNCHANGED <<limits, usage, admitted, epoch>>

Next == \/ \E a \in AssetIDs, amount \in TransferAmounts : Admit(a, amount)
        \/ \E a \in AssetIDs, limit \in LimitChoices : ReplaceLimit(a, limit)
        \/ \E h \in 0 .. MaxHeight : SetCurrentHeight(h)

Spec == Init /\ [][Next]_vars

-----------------------------------------------------------------------------

(* The transfers of an asset at the heights from..to since its limit was
   last set, and what they add up to. *)
TransfersIn(a, from, to) ==
    {i \in DOMAIN admitted : /\ i > epoch[a]
                             /\ admitted[i].asset = a
                             /\ admitted[i].height \in from .. to}

Volume(a, from, to) == Total(Amounts(admitted), TransfersIn(a, from, to))

(* From the start of the window that is open, the volume admitted since the
   limit was set never exceeds the limit: the usage record never undercounts,
   whatever the order of transfers, heights and limit changes
   (limits/keeper/usage.go, CheckTransferAtHeight and activeUsage). *)
FixedWindowBudget ==
    \A a \in AssetIDs :
        limits[a] # NoLimit =>
            Volume(a, usage[a].windowStart, MaxHeight) <= limits[a].maxAmount

HeightsGrew == \A i, j \in DOMAIN admitted :
                   i <= j => admitted[i].height <= admitted[j].height

(* While transfers come at growing heights, a window opens at the first one
   after the last window ended, so any windowBlocks consecutive heights meet at
   most two windows and let through at most twice the limit (activeUsage
   restarts the count at atHeight). *)
TwoWindowBudget ==
    HeightsGrew =>
        \A a \in AssetIDs :
            limits[a] # NoLimit =>
                \A from \in 0 .. MaxHeight :
                    Volume(a, from, from + limits[a].windowBlocks - 1)
                        <= 2 * limits[a].maxAmount

(* No window end of this instance is beyond the largest uint64. *)
NoWrap == \A l \in LimitChoices : MaxHeight + l.windowBlocks <= MaxUint64
=============================================================================
