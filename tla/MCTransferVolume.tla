-------------------------- MODULE MCTransferVolume --------------------------
(* Instances of TransferVolume for TLC. *)
EXTENDS TransferVolume

MCLimits == [windowBlocks : {1, 3}, maxAmount : {2, 3}]

MCOneLimit == {[windowBlocks |-> 2, maxAmount |-> 2]}

MCWidestWindow == {[windowBlocks |-> MaxUint64, maxAmount |-> 2]}
=============================================================================
