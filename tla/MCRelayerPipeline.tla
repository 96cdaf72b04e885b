------------------------- MODULE MCRelayerPipeline -------------------------
(* RelayerPipeline for TLC: either a deposit or the withdrawal is refused for
   ever, should it happen at all. *)
EXTENDS RelayerPipeline, TLC

CONSTANTS e1, w1

MCRefusedChoices == {{e1}, {w1}}

MCConfirmations == ("deposits" :> 1) @@ ("withdrawals" :> 1)
=============================================================================
