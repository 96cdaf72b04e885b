-------------------------- MODULE MCRouteDelivery --------------------------
(* RouteDelivery for TLC: one asset and two transfers whose memo asks for     *)
(* nothing or for a swap.  The pool serves one such swap (3 units pay 2 out   *)
(* of 8) and then, with its reserves moved, refuses a second (it would pay 1, *)
(* below the minimum of 2).                                                   *)
EXTENDS RouteDelivery

CONSTANTS asset, alice

Memo(word, target, minOut) ==
    [word |-> word, target |-> target, minOut |-> minOut, recipient |-> "",
     path |-> TRUE, wellFormed |-> TRUE]

MCMemos == {Memo("", "", 0), Memo("swap", "uosmo", 2)}

MCRoutes == {[denom |-> "ibc", enabled |-> TRUE]}

MCProfiles == {[denom |-> "ibc", enabled |-> TRUE, assets |-> {asset},
                actions |-> {"swap"}, prefixes |-> {""}]}
=============================================================================
