------------------------------- MODULE DragMove -------------------------------
(***************************************************************************)
(* Dropping files that are dragged into a panel.  dragDropHook takes a     *)
(* plain move away from the native Drop and has a thread of its own do it  *)
(* under the history; everything else, and whatever goes wrong before that *)
(* thread runs, stays with the native Drop.                                *)
(*                                                                         *)
(* The source (external) deletes the files when it is told of an effect    *)
(* MOVE.  It may offer to wait for an asynchronous transfer.               *)
(*                                                                         *)
(* Next does not use LeftStarted and MoveReturned (wrong variants of the   *)
(* definitions they precede, to test properties).                          *)
(***************************************************************************)
EXTENDS Integers, FiniteSets

CONSTANTS Drag

\* What every instance assumes of its constants.
DragAssumption == IsFiniteSet(Drag)

VARIABLES
  drag,    \* per drag: the hook, the worker, and what the source knows
  active   \* native work and transfers, which keep undo and redo away

vars == <<drag, active>>

Init ==
  /\ active = 0
  /\ drag = [d \in Drag |->
       [hook |-> "none", worker |-> "none", capable |-> FALSE, async |-> "no",
        native |-> FALSE, told |-> "nothing", deleted |-> FALSE]]

-----------------------------------------------------------------------------
Hook(d, pc) == drag[d].hook = pc
Worker(d, pc) == drag[d].worker = pc
Set(d, record) == drag' = [drag EXCEPT ![d] = record]
Busy == \E d \in Drag : drag[d].hook \notin {"none", "returned"}

\* The user drops; the host's thread is in one Drop at a time.
Dropped(d, capable) ==
  /\ Hook(d, "none") /\ ~Busy
  /\ Set(d, [drag[d] EXCEPT !.hook = "asking", !.capable = capable])
  /\ UNCHANGED active

\* target->Drop: the native way, which tells its source the effect.
Native(d) == [drag[d] EXCEPT !.hook = "returned", !.native = TRUE, !.told = "move"]

\* Not a plain move, not a folder, no paths; or an exception before the thread.
Unsuitable(d) ==
  /\ Hook(d, "asking") /\ Set(d, Native(d)) /\ UNCHANGED active

\* The source is asked to wait, and agrees or not.
Negotiate(d) ==
  /\ Hook(d, "asking")
  /\ \/ Set(d, [drag[d] EXCEPT !.hook = "starting"])
     \/ /\ drag[d].capable
        /\ Set(d, [drag[d] EXCEPT !.hook = "starting", !.async = "started"])
  /\ active' = active + 1

StartThread(d) ==
  /\ Hook(d, "starting")
  /\ Set(d, [drag[d] EXCEPT !.hook = "handed", !.worker = "begun"])
  /\ UNCHANGED active

LeftStarted(d) ==
  /\ Hook(d, "starting") /\ Set(d, Native(d)) /\ active' = active - 1
ThreadFails(d) ==
  /\ Hook(d, "starting") /\ active' = active - 1
  /\ Set(d, [Native(d) EXCEPT !.async = IF @ = "started" THEN "ended" ELSE @])

\* The source must not delete what the worker moves: it is told NONE.
MoveReturned(d) ==
  /\ Hook(d, "handed") /\ Set(d, [drag[d] EXCEPT !.hook = "returned", !.told = "move"])
  /\ UNCHANGED active
Return(d) ==
  /\ Hook(d, "handed") /\ Set(d, [drag[d] EXCEPT !.hook = "returned", !.told = "none"])
  /\ UNCHANGED active

-----------------------------------------------------------------------------
\* The worker's lambda.  Without an apartment it does not move, and cannot answer.
NoApartment(d) ==
  /\ Worker(d, "begun") /\ Set(d, [drag[d] EXCEPT !.worker = "mute"])
  /\ active' = active - 1

Run(d, how) ==
  /\ Worker(d, "begun") /\ Set(d, [drag[d] EXCEPT !.worker = how]) /\ active' = active - 1

Finished(d) == drag[d].worker \in {"moved", "failed"}
Answer(d) ==
  /\ Finished(d) /\ UNCHANGED active
  /\ IF drag[d].async = "started"
     THEN \/ Set(d, [drag[d] EXCEPT !.worker = "done", !.async = "ended", !.told = "none"])
          \/ Set(d, [drag[d] EXCEPT !.worker = "mute"])  \* the source is out of reach
     ELSE Set(d, [drag[d] EXCEPT !.worker = "done"])

\* The source (external): a synchronous one looks when Drop returns, the other at the end.
Delete(d) ==
  /\ Hook(d, "returned") /\ drag[d].told = "move" /\ drag[d].async # "started"
  /\ ~drag[d].deleted
  /\ Set(d, [drag[d] EXCEPT !.deleted = TRUE])
  /\ UNCHANGED active

Next ==
  \E d \in Drag :
    \/ \E capable \in BOOLEAN : Dropped(d, capable)
    \/ Unsuitable(d) \/ Negotiate(d) \/ StartThread(d) \/ ThreadFails(d) \/ Return(d)
    \/ NoApartment(d) \/ Answer(d) \/ Delete(d)
    \/ \E how \in {"moved", "failed"} : Run(d, how)

Spec == Init /\ [][Next]_vars

-----------------------------------------------------------------------------
\* Every variable keeps its type.
TypeOK ==
  /\ active \in 0..Cardinality(Drag)
  /\ \A d \in Drag : drag[d].worker \in {"none", "begun", "moved", "failed", "mute", "done"}

Over(d) == Hook(d, "returned") /\ drag[d].worker \in {"none", "done", "mute"}

\* Dragged files are moved by the native Drop or by the worker, never by both, and
\* a source never deletes what the worker moves.
MovedOnce ==
  \A d \in Drag : ~Worker(d, "none") => ~drag[d].native /\ ~drag[d].deleted

\* When a drop is over, a source that was asked to wait has been told of the end,
\* unless its worker found no apartment or did not reach it; and undo is not kept
\* away by it any more.
NoneWaits ==
  /\ \A d \in Drag : Over(d) /\ drag[d].async = "started" => Worker(d, "mute")
  /\ active = Cardinality({d \in Drag : Hook(d, "starting") \/ Worker(d, "begun")})
=============================================================================
