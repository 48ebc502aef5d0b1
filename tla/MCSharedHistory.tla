-------------------------- MODULE MCSharedHistory --------------------------
(***************************************************************************)
(* Values for TLC: two processes, with one thread each or with two threads *)
(* in the first (which run at once, or one nested in the other) and none   *)
(* in the second.                                                          *)
(***************************************************************************)
EXTENDS SharedHistoryRefinement, TLC
CONSTANTS p1, p2, w1, w2, w3

OnePerProcess == (w1 :> p1) @@ (w3 :> p2)
TwoInFirst == (w1 :> p1) @@ (w2 :> p1)
=============================================================================
