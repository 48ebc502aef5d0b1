---------------------- MODULE SharedHistoryRefinement ----------------------
(***************************************************************************)
(* The shared header implements FileHistory.  The abstract stacks are the  *)
(* contents of the slots on the two stacks; the history is closed as soon  *)
(* as the next lock would close it; the turn belongs to the reservation.   *)
(* The mapping takes process identifiers not to be reused: with reuse, a   *)
(* dead replay owner comes back to life and the history is stuck, not      *)
(* closed.                                                                 *)
(***************************************************************************)
EXTENDS SharedHistory

Closed == Locked.blocked
Batches(s) == IF Closed THEN <<>> ELSE [i \in 1..Len(s) |-> h.content[s[i]]]
Turn ==
  IF \E p \in Process : Reserved(p)
  THEN replay[CHOOSE p \in Process : Reserved(p)].way ELSE "none"

Abstract == INSTANCE FileHistory WITH
  past <- Batches(h.undo), future <- Batches(h.redo),
  closed <- Closed, turn <- Turn, working <- {w \in Worker : Admitted(w)}

\* Whatever the processes of a session do, in whatever order and wherever
\* they die, their shared header behaves as one FileHistory.
Implements == Abstract!Spec
=============================================================================
