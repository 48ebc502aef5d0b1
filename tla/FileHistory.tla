---------------------------- MODULE FileHistory ----------------------------
(***************************************************************************)
(* What the shared undo/redo history promises its users, with no processes *)
(* that die, no slots and no locks: one past, one future, and at any time  *)
(* either native operations or one replay.  A closed history promises      *)
(* nothing but to stay closed until the session ends.                      *)
(***************************************************************************)
EXTENDS Naturals, Sequences

CONSTANTS Worker, Batch, Limit

VARIABLES
  past, future,   \* batches that stand and batches that are undone, newest last
  closed,         \* the history was interrupted
  turn,           \* "none", or the way a replay goes: "undo" or "redo"
  working         \* the native operations admitted

vars == <<past, future, closed, turn, working>>

Init ==
  /\ past = <<>> /\ future = <<>> /\ closed = FALSE
  /\ turn = "none" /\ working = {}

Newest(s) == s[Len(s)]
Older(s) == SubSeq(s, 1, Len(s) - 1)

Work(w) ==
  /\ turn = "none"
  /\ working' = working \cup {w}
  /\ UNCHANGED <<past, future, closed, turn>>

Rest(some) ==
  /\ working' = working \ some
  /\ UNCHANGED <<past, future, closed, turn>>

\* New work becomes the newest of the past, which forgets its oldest batch
\* beyond the limit, and ends the future.
Record(batch) ==
  /\ ~closed /\ working # {}
  /\ past' = Append(IF Len(past) = Limit THEN Tail(past) ELSE past, batch)
  /\ future' = <<>>
  /\ UNCHANGED <<closed, turn, working>>

StartReplay(way) ==
  /\ ~closed /\ turn = "none" /\ working = {}
  /\ (IF way = "undo" THEN past ELSE future) # <<>>
  /\ turn' = way
  /\ UNCHANGED <<past, future, closed, working>>

\* A complete replay carries the newest batch over, reversed.
Complete ==
  /\ ~closed /\ turn # "none" /\ turn' = "none"
  /\ \/ /\ turn = "undo" /\ Newest(past).state = "done" /\ ~Newest(past).barrier
        /\ past' = Older(past)
        /\ future' = Append(future, [Newest(past) EXCEPT !.state = "undone"])
     \/ /\ turn = "redo" /\ Newest(future).state = "undone" /\ ~Newest(future).barrier
        /\ past' = Append(past, [Newest(future) EXCEPT !.state = "done"])
        /\ future' = Older(future)
  /\ UNCHANGED <<closed, working>>

\* Any other replay leaves its batch where it was, with a barrier.
Fail ==
  /\ ~closed /\ turn # "none" /\ turn' = "none"
  /\ \E batch \in Batch :
       /\ batch.barrier
       /\ IF turn = "undo"
          THEN /\ batch.op = Newest(past).op
               /\ past' = Append(Older(past), batch) /\ UNCHANGED future
          ELSE /\ batch.op = Newest(future).op
               /\ future' = Append(Older(future), batch) /\ UNCHANGED past
  /\ UNCHANGED <<closed, working>>

\* An interruption, with the operations and the replay that it may take along.
Close ==
  /\ closed' = TRUE /\ past' = <<>> /\ future' = <<>>
  /\ working' \subseteq working
  /\ turn' \in {turn, "none"}

NewSession ==
  /\ working = {} /\ turn = "none"
  /\ closed' = FALSE /\ past' = <<>> /\ future' = <<>>
  /\ UNCHANGED <<turn, working>>

Next ==
  \/ \E w \in Worker : Work(w)
  \/ \E some \in SUBSET working : Rest(some)
  \/ \E batch \in Batch : Record(batch)
  \/ \E way \in {"undo", "redo"} : StartReplay(way)
  \/ Complete \/ Fail \/ Close \/ NewSession

Spec == Init /\ [][Next]_vars
=============================================================================
