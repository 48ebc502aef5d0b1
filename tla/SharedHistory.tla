--------------------------- MODULE SharedHistory ---------------------------
(***************************************************************************)
(* The undo/redo history that every File Pilot process of a user shares:   *)
(* a named mapping with two stacks of batches, a table of participants and *)
(* the process that replays, all guarded by one named mutex.               *)
(*                                                                         *)
(* A critical section of the mutex is one action.  Nothing of the header   *)
(* is read without the mutex, so a half-finished section shows only when   *)
(* its process dies inside it: those are the Cut actions, which leave any  *)
(* prefix of the section's stores behind and the mutex abandoned.          *)
(*                                                                         *)
(* Next does not use LockedOverDeadReplay, BusyReplaying, SweptOpen,       *)
(* LaunchOpen, StartNestedShared, AdmitOnce, AdmitAnytime, KeptOldest,     *)
(* SpareLeaking, GrantableLate, ReversedNot, ReplayOverBarrier, MovedIndex *)
(* (wrong variants of the definitions they precede, to test properties).   *)
(***************************************************************************)
EXTENDS Naturals, Sequences, FiniteSets

CONSTANTS
  Process,        \* process identifiers
  Worker,         \* threads that run a native file operation
  Home,           \* the process of each worker
  NoProcess,      \* the zero of an empty process identifier field
  NoWorker,       \* "this worker is not nested in another"
  Seats,          \* entries of the participant table: 64 in the code
  Limit,          \* batches a stack holds, and slots: 100 in the code
  ReusePids,      \* may a new process get the identifier of a dead one?
  Faults,         \* which recorder failures the environment produces
  MaxOps,         \* bound: file operations in a session
  MaxGeneration   \* bound: from it on no command is queued, no identifier reused

ASSUME HomeAssumption == Home \in [Worker -> Process]
ASSUME WorkerAssumption == IsFiniteSet(Worker) /\ NoWorker \notin Worker
ASSUME ProcessAssumption == NoProcess \notin Process
ASSUME SizeAssumption == Seats \in Nat \ {0} /\ Limit \in Nat \ {0}
ASSUME FaultAssumption == ReusePids \in BOOLEAN /\ Faults \subseteq {"retained", "dropped", "unwound", "bypassed"}
ASSUME BoundAssumption == MaxOps \in Nat /\ MaxGeneration \in Nat

Entry == 1..Seats
Slot == 1..Limit
NoSeat == 0     \* a null Activity::entry
NoSlot == 0

(***************************************************************************)
(* A stored batch: the operation it records, whether that operation now    *)
(* stands, is reversed, or was left in between, and whether a barrier text *)
(* forbids replaying it.  NoBatch is the content of a free slot.           *)
(***************************************************************************)
Batch == [op : 1..MaxOps, state : {"done", "undone", "partial"}, barrier : BOOLEAN]
NoBatch == [op |-> 0, state |-> "done", barrier |-> FALSE]
AsBarrier(batch) == [batch EXCEPT !.barrier = TRUE]

VARIABLES
  h,         \* the shared header, with the mutex's own state: abandoned
  state,     \* of each process: "fresh", "up" or "gone"
  poisoned,  \* of each process
  replay,    \* of each process: its command and the Reservation it may hold
  worker,    \* of each worker: its place in workerHook, its Activity, its batch
  ops,       \* auxiliary: operations done in this session
  lost       \* auxiliary: some change on disk will never be recorded

vars == <<h, state, poisoned, replay, worker, ops, lost>>

FreshHeader ==
  [abandoned |-> FALSE, dirty |-> FALSE, blocked |-> FALSE,
   generation |-> 0, replayPid |-> NoProcess,
   pidOf |-> [e \in Entry |-> NoProcess], count |-> [e \in Entry |-> 0],
   undo |-> <<>>, redo |-> <<>>, content |-> [s \in Slot |-> NoBatch]]

NoReplay == [pc |-> "idle", way |-> "undo", expected |-> 0, target |-> 0,
             slot |-> NoSlot, batch |-> NoBatch, complete |-> FALSE]
NoWork == [pc |-> "idle", seat |-> NoSeat, outer |-> NoWorker, made |-> NoBatch]

Init ==
  /\ h = FreshHeader
  /\ state = [p \in Process |-> "fresh"] /\ poisoned = [p \in Process |-> FALSE]
  /\ replay = [p \in Process |-> NoReplay] /\ worker = [w \in Worker |-> NoWork]
  /\ ops = 0 /\ lost = FALSE

-----------------------------------------------------------------------------
Up(p) == state[p] = "up"
Dead(p) == p \in Process /\ ~Up(p)
Session == \E p \in Process : Up(p)

IsLeast(n, S) == n \in S /\ \A m \in S : n <= m
Elements(s) == {s[i] : i \in 1..Len(s)}
Top(s) == s[Len(s)]
Pop(s) == SubSeq(s, 1, Len(s) - 1)
One(condition) == IF condition THEN 1 ELSE 0

(***************************************************************************)
(* The header as the body of a critical section finds it: the lock's       *)
(* constructor first closes a history that an interrupted writer or a dead *)
(* replay left behind.                                                     *)
(***************************************************************************)
Interrupted == h.abandoned \/ h.dirty
OwnerDead == Dead(h.replayPid)
LockedOverDeadReplay ==
  [h EXCEPT !.abandoned = FALSE, !.dirty = FALSE,
            !.blocked = @ \/ Interrupted, !.generation = @ + One(Interrupted)]
Locked ==
  [h EXCEPT !.abandoned = FALSE, !.dirty = FALSE,
            !.blocked = @ \/ Interrupted \/ OwnerDead,
            !.replayPid = IF OwnerDead THEN NoProcess ELSE @,
            !.generation = @ + One(Interrupted) + One(OwnerDead)]

(***************************************************************************)
(* busy: a participant that died is forgotten, which closes the history;   *)
(* a live one, or a replay, makes the history busy.                        *)
(***************************************************************************)
Stale == {e \in Entry : h.count[e] > 0 /\ Dead(h.pidOf[e])}
BusyReplaying == Locked.replayPid # NoProcess
Busy == Locked.replayPid # NoProcess \/ \E e \in Entry : h.count[e] > 0 /\ ~Dead(h.pidOf[e])
SweptOpen ==
  [Locked EXCEPT !.pidOf = [e \in Entry |-> IF e \in Stale THEN NoProcess ELSE @[e]],
                 !.count = [e \in Entry |-> IF e \in Stale THEN 0 ELSE @[e]]]
Swept ==
  [Locked EXCEPT !.pidOf = [e \in Entry |-> IF e \in Stale THEN NoProcess ELSE @[e]],
                 !.count = [e \in Entry |-> IF e \in Stale THEN 0 ELSE @[e]],
                 !.blocked = @ \/ Stale # {}]

\* history::execution, shared by the workers of a process, owned by its replay.
Workers(p) == {w \in Worker : Home[w] = p}
Active(p) == \E w \in Workers(p) : worker[w].pc # "idle"
Admitted(w) == worker[w].pc \in {"working", "mutated", "unwinding"}
HoldsShared(w) == Admitted(w) \/ worker[w].pc = "admitting"
Innermost(w) == \A n \in Worker : worker[n].pc # "idle" => worker[n].outer # w
Reserved(p) == replay[p].pc \in {"reserved", "replayed"}

(***************************************************************************)
(* initialize: the first process of a session creates the mapping, a later *)
(* one joins and closes a history whose mutex it finds abandoned.  The     *)
(* kernel drops the objects with the last process.                         *)
(***************************************************************************)
ReuseBound == h.generation < MaxGeneration /\ \A e \in Entry : h.count[e] < Cardinality(Worker)

LaunchOpen(p) ==
  /\ ~Up(p)
  /\ state[p] = "fresh" \/ ~Session \/ (ReusePids /\ ReuseBound)
  /\ state' = [state EXCEPT ![p] = "up"]
  /\ poisoned' = [poisoned EXCEPT ![p] = FALSE]
  /\ IF Session
     THEN h' = [h EXCEPT !.abandoned = FALSE] /\ UNCHANGED <<ops, lost>>
     ELSE h' = FreshHeader /\ ops' = 0 /\ lost' = FALSE
  /\ UNCHANGED <<replay, worker>>

Launch(p) ==
  /\ ~Up(p)
  /\ state[p] = "fresh" \/ ~Session \/ (ReusePids /\ ReuseBound)
  /\ state' = [state EXCEPT ![p] = "up"]
  /\ poisoned' = [poisoned EXCEPT ![p] = FALSE]
  /\ IF Session
     THEN /\ h' = [h EXCEPT !.blocked = @ \/ h.abandoned, !.abandoned = FALSE]
          /\ UNCHANGED <<ops, lost>>
     ELSE h' = FreshHeader /\ ops' = 0 /\ lost' = FALSE
  /\ UNCHANGED <<replay, worker>>

-----------------------------------------------------------------------------
(***************************************************************************)
(* A native file operation: workerHook counts the thread as active, takes  *)
(* the execution lock shared unless it is nested in another operation of   *)
(* its thread, and constructs an Activity.                                 *)
(***************************************************************************)
StartWorker(w) ==
  /\ Up(Home[w]) /\ worker[w].pc = "idle"
  /\ worker' = [worker EXCEPT ![w] = [NoWork EXCEPT !.pc = "starting"]]
  /\ UNCHANGED <<h, state, poisoned, replay, ops, lost>>

\* A slim reader/writer lock lets no new reader pass a waiting writer.
EnterShared(w) ==
  /\ worker[w].pc = "starting"
  /\ replay[Home[w]].pc \in {"idle", "asked", "queued"}
  /\ worker' = [worker EXCEPT ![w].pc = "admitting"]
  /\ UNCHANGED <<h, state, poisoned, replay, ops, lost>>

StartNestedShared(w, o) ==
  /\ worker[w].pc = "idle" /\ worker[o].pc = "working" /\ Home[w] = Home[o]
  /\ Innermost(o)
  /\ worker' = [worker EXCEPT ![w] = [NoWork EXCEPT !.pc = "starting", !.outer = o]]
  /\ UNCHANGED <<h, state, poisoned, replay, ops, lost>>

StartNested(w, o) ==
  /\ worker[w].pc = "idle" /\ worker[o].pc = "working" /\ Home[w] = Home[o]
  /\ Innermost(o)
  /\ worker' = [worker EXCEPT ![w] = [NoWork EXCEPT !.pc = "admitting", !.outer = o]]
  /\ UNCHANGED <<h, state, poisoned, replay, ops, lost>>

\* Activity's search: an entry that already names the process, else a vacant one.
Own(p) == {e \in Entry : h.pidOf[e] = p}
Vacant == {e \in Entry : h.count[e] = 0}
IsSeatFor(p, e) == IsLeast(e, IF Own(p) # {} THEN Own(p) ELSE Vacant)

TakeSeat(w, e, header) ==
  /\ h' = header
  /\ worker' = [worker EXCEPT ![w].pc = "working", ![w].seat = e]
  /\ UNCHANGED <<state, poisoned, replay, ops, lost>>

AdmitOnce(w) ==
  /\ worker[w].pc = "admitting" /\ Locked.replayPid = NoProcess
  /\ \E e \in Entry :
       /\ IsSeatFor(Home[w], e)
       /\ TakeSeat(w, e, [Locked EXCEPT !.pidOf[e] = Home[w], !.count[e] = 1])

AdmitAnytime(w) ==
  /\ worker[w].pc = "admitting"
  /\ \E e \in Entry :
       /\ IsSeatFor(Home[w], e)
       /\ TakeSeat(w, e, [Locked EXCEPT !.pidOf[e] = Home[w], !.count[e] = @ + 1])

\* Activity's loop: it goes on waiting while somebody replays.
Admit(w) ==
  /\ worker[w].pc = "admitting" /\ Locked.replayPid = NoProcess
  /\ \E e \in Entry :
       /\ IsSeatFor(Home[w], e)
       /\ TakeSeat(w, e, [Locked EXCEPT !.pidOf[e] = Home[w], !.count[e] = @ + 1])

\* The table is full: the constructor throws and the native operation is not run.
Refuse(w) ==
  /\ worker[w].pc = "admitting" /\ Locked.replayPid = NoProcess
  /\ Own(Home[w]) = {} /\ Vacant = {}
  /\ h' = [Locked EXCEPT !.blocked = TRUE]
  /\ poisoned' = [poisoned EXCEPT ![Home[w]] = TRUE]
  /\ worker' = [worker EXCEPT ![w] = NoWork]
  /\ UNCHANGED <<state, replay, ops, lost>>

\* The Shell changes the disk; the sink decides whether that can be reversed.
Perform(w) ==
  /\ worker[w].pc = "working" /\ Innermost(w) /\ ops < MaxOps
  /\ \E barrier \in BOOLEAN :
       worker' = [worker EXCEPT ![w].pc = "mutated",
                    ![w].made = [op |-> ops + 1, state |-> "done", barrier |-> barrier]]
  /\ ops' = ops + 1
  /\ UNCHANGED <<h, state, poisoned, replay, lost>>

(***************************************************************************)
(* append: drops the redo branch and, at the limit, the oldest batch, then *)
(* stores the batch in the first free slot.  The arena may be exhausted.   *)
(***************************************************************************)
Released(slots) == [s \in Slot |-> IF s \in slots THEN NoBatch ELSE h.content[s]]
Full == Len(h.undo) = Limit
KeptOldest == h.undo
Kept == IF Full THEN Tail(h.undo) ELSE h.undo
SpareLeaking == Released(IF Full THEN {h.undo[1]} ELSE {})
Spare == Released(Elements(h.redo) \cup IF Full THEN {h.undo[1]} ELSE {})
FreeSlots == {s \in Slot : Spare[s] = NoBatch}

AppendBatch(batch) ==
  \/ Locked.blocked /\ h' = Locked /\ lost' = TRUE
  \/ /\ ~Locked.blocked
     /\ \E slot \in Slot :
          /\ IsLeast(slot, FreeSlots)
          /\ h' = [h EXCEPT !.redo = <<>>, !.undo = Append(Kept, slot),
                            !.content = [Spare EXCEPT ![slot] = batch],
                            !.generation = @ + 1]
     /\ UNCHANGED lost
  \/ /\ ~Locked.blocked
     /\ h' = [h EXCEPT !.redo = <<>>, !.undo = Kept, !.content = Spare,
                       !.generation = @ + 1, !.blocked = TRUE]
     /\ lost' = TRUE

Publish(w) ==
  /\ worker[w].pc = "mutated"
  /\ AppendBatch(worker[w].made)
  /\ worker' = [worker EXCEPT ![w].pc = "working", ![w].made = NoBatch]
  /\ UNCHANGED <<state, poisoned, replay, ops>>

(***************************************************************************)
(* Encoding a batch allocates and may throw.  performHook's handler then   *)
(* records a barrier in its place ("retained"), or fails at that too       *)
(* ("dropped").  The handlers of runDragMove and workerHook run only after *)
(* the stack is unwound: the Activity is gone before the barrier           *)
(* ("unwound").                                                            *)
(***************************************************************************)
PublishFails(w) ==
  /\ worker[w].pc = "mutated"
  /\ poisoned' = [poisoned EXCEPT ![Home[w]] = TRUE]
  /\ \/ /\ "retained" \in Faults
        /\ AppendBatch(AsBarrier(worker[w].made))
        /\ worker' = [worker EXCEPT ![w].pc = "working", ![w].made = NoBatch]
     \/ /\ "dropped" \in Faults
        /\ worker' = [worker EXCEPT ![w].pc = "working", ![w].made = NoBatch]
        /\ lost' = TRUE /\ UNCHANGED h
     \/ /\ "unwound" \in Faults
        /\ worker' = [worker EXCEPT ![w].pc = "unwinding"]
        /\ UNCHANGED <<h, lost>>
  /\ UNCHANGED <<state, replay, ops>>

\* performHook outside a native worker, hence outside Activity(): the batch
\* becomes a barrier and is published whatever another process is doing.
Bypass(w) ==
  /\ "bypassed" \in Faults /\ Up(Home[w]) /\ worker[w].pc = "idle" /\ ops < MaxOps
  /\ worker' = [worker EXCEPT ![w] =
       [NoWork EXCEPT !.pc = "late", !.made = [op |-> ops + 1, state |-> "done", barrier |-> TRUE]]]
  /\ ops' = ops + 1
  /\ UNCHANGED <<h, state, poisoned, replay, lost>>

\* ~Activity, and the shared execution lock with it.
Leave(w) ==
  /\ worker[w].pc \in {"working", "unwinding"} /\ Innermost(w)
  /\ h' = [Locked EXCEPT !.count[worker[w].seat] = IF @ > 0 THEN @ - 1 ELSE @]
  /\ worker' = [worker EXCEPT ![w] =
       IF worker[w].pc = "unwinding" THEN [@ EXCEPT !.pc = "late", !.seat = NoSeat] ELSE NoWork]
  /\ UNCHANGED <<state, poisoned, replay, ops, lost>>

\* The barrier of a handler whose Activity has ended, or never was.
LateBarrier(w) ==
  /\ worker[w].pc = "late"
  /\ AppendBatch(AsBarrier(worker[w].made))
  /\ worker' = [worker EXCEPT ![w] = NoWork]
  /\ UNCHANGED <<state, poisoned, replay, ops>>

-----------------------------------------------------------------------------
Stack(way) == IF way = "undo" THEN h.undo ELSE h.redo

\* historyCommand: available answers, and only an invocation goes on to queue.
Ask(p, way) ==
  /\ Up(p) /\ replay[p].pc = "idle" /\ ~Active(p)
  /\ h' = IF Locked.blocked THEN Locked ELSE Swept
  /\ \/ UNCHANGED replay
     \/ /\ Locked.blocked \/ (~Busy /\ Stack(way) # <<>>)
        /\ replay' = [replay EXCEPT ![p] = [NoReplay EXCEPT !.pc = "asked", !.way = way]]
  /\ UNCHANGED <<state, poisoned, worker, ops, lost>>

\* queueReplay, with the generation the command was issued at.
QueueReplay(p) ==
  LET s == Stack(replay[p].way) IN
  /\ replay[p].pc = "asked" /\ ~Active(p) /\ h.generation < MaxGeneration
  /\ h' = Locked
  /\ replay' = [replay EXCEPT ![p].pc = "queued", ![p].expected = Locked.generation,
                              ![p].target = IF s = <<>> THEN 0 ELSE h.content[Top(s)].op]
  /\ UNCHANGED <<state, poisoned, worker, ops, lost>>

\* It returns instead: native work began, Lock(0) found the mutex held, or
\* the thread could not be created; or the thread cannot start COM.
DropCommand(p) ==
  /\ replay[p].pc \in {"asked", "queued"}
  /\ replay' = [replay EXCEPT ![p] = NoReplay]
  /\ UNCHANGED <<h, state, poisoned, worker, ops, lost>>

\* replay waits for the execution lock, and owns it once no worker shares it.
AwaitExclusive(p) ==
  /\ replay[p].pc = "queued"
  /\ replay' = [replay EXCEPT ![p].pc = "waiting"]
  /\ UNCHANGED <<h, state, poisoned, worker, ops, lost>>

EnterExclusive(p) ==
  /\ replay[p].pc = "waiting" /\ \A w \in Workers(p) : ~HoldsShared(w)
  /\ replay' = [replay EXCEPT ![p].pc = "exclusive"]
  /\ UNCHANGED <<h, state, poisoned, worker, ops, lost>>

GrantableLate(p) == ~Busy /\ ~Swept.blocked /\ Stack(replay[p].way) # <<>>

\* Reservation::take, granted only to a command the header has not outrun.
Grantable(p) ==
  /\ ~Busy /\ ~Swept.blocked
  /\ replay[p].expected = Locked.generation
  /\ Stack(replay[p].way) # <<>>

Take(p) ==
  LET slot == Top(Stack(replay[p].way)) IN
  /\ replay[p].pc = "exclusive" /\ Grantable(p)
  /\ h' = [Swept EXCEPT !.replayPid = p]
  /\ replay' = [replay EXCEPT ![p].pc = "reserved", ![p].slot = slot, ![p].batch = h.content[slot]]
  /\ UNCHANGED <<state, poisoned, worker, ops, lost>>

TakeRefused(p) ==
  /\ replay[p].pc = "exclusive" /\ ~Grantable(p)
  /\ h' = Swept
  /\ replay' = [replay EXCEPT ![p] = NoReplay]
  /\ UNCHANGED <<state, poisoned, worker, ops, lost>>

\* replayBatch completes, moves only some items, or is refused; all but the
\* first leave a barrier on the batch.
ReversedNot == [done |-> "done", undone |-> "undone", partial |-> "partial"]
Reversed == [done |-> "undone", undone |-> "done", partial |-> "partial"]

ReplayOverBarrier(p) ==
  /\ replay[p].pc = "reserved" /\ replay[p].batch # NoBatch
  /\ replay' = [replay EXCEPT ![p].pc = "replayed", ![p].complete = TRUE,
                              ![p].batch.state = Reversed[@]]
  /\ UNCHANGED <<h, state, poisoned, worker, ops, lost>>

Replay(p) ==
  LET batch == replay[p].batch
      Result(b, complete) ==
        replay' = [replay EXCEPT ![p].pc = "replayed", ![p].batch = b, ![p].complete = complete]
  IN
  /\ replay[p].pc = "reserved" /\ batch # NoBatch
  /\ \/ ~poisoned[p] /\ ~batch.barrier /\ Result([batch EXCEPT !.state = Reversed[@]], TRUE)
     \/ ~poisoned[p] /\ ~batch.barrier /\ Result([AsBarrier(batch) EXCEPT !.state = "partial"], FALSE)
     \/ Result(AsBarrier(batch), FALSE)
  /\ UNCHANGED <<h, state, poisoned, worker, ops, lost>>

(***************************************************************************)
(* commit: rewrites the slot and, after a complete replay, moves it to the *)
(* other stack.  It checks nothing again: it relies on the reservation     *)
(* having kept the stack as take saw it.  Popping an empty stack, a count  *)
(* below zero in the code, is not modelled: ReservationKept excludes it.   *)
(***************************************************************************)
MovedIndex(way, slot) ==
  IF way = "undo" THEN <<Pop(h.undo), Append(h.redo, Len(h.redo))>>
                  ELSE <<Append(h.undo, Len(h.undo)), Pop(h.redo)>>
Moved(way, slot) ==
  IF way = "undo" THEN <<Pop(h.undo), Append(h.redo, slot)>>
                  ELSE <<Append(h.undo, slot), Pop(h.redo)>>

Commit(p) ==
  LET way == replay[p].way
      slot == replay[p].slot
  IN
  /\ replay[p].pc = "replayed"
  /\ \E saved \in BOOLEAN :
       LET move == saved /\ replay[p].complete IN
       /\ move => Stack(way) # <<>>
       /\ h' = [Locked EXCEPT
                  !.content[slot] = IF saved THEN replay[p].batch ELSE NoBatch,
                  !.blocked = @ \/ ~saved,
                  !.undo = IF move THEN Moved(way, slot)[1] ELSE @,
                  !.redo = IF move THEN Moved(way, slot)[2] ELSE @,
                  !.generation = @ + 1, !.replayPid = NoProcess]
       /\ lost' = (lost \/ ~saved)
  /\ replay' = [replay EXCEPT ![p] = NoReplay]
  /\ UNCHANGED <<state, poisoned, worker, ops>>

\* Decoding, replaying or encoding throws: ~Reservation closes the history.
Abandon(p) ==
  /\ Reserved(p)
  /\ h' = [Locked EXCEPT !.blocked = TRUE, !.replayPid = NoProcess, !.generation = @ + 1]
  /\ replay' = [replay EXCEPT ![p] = NoReplay]
  /\ poisoned' = [poisoned EXCEPT ![p] = TRUE]
  /\ lost' = TRUE
  /\ UNCHANGED <<state, worker, ops>>

-----------------------------------------------------------------------------
(***************************************************************************)
(* The end of a process at any point, by its user or by a failure: its     *)
(* threads vanish and the header stays as it was.                          *)
(***************************************************************************)
Unrecorded(w) == worker[w].pc \in {"mutated", "unwinding", "late"}

End(p) ==
  /\ Up(p)
  /\ state' = [state EXCEPT ![p] = "gone"]
  /\ lost' = (lost \/ Reserved(p) \/ \E w \in Workers(p) : Unrecorded(w))
  /\ replay' = [replay EXCEPT ![p] = NoReplay]
  /\ worker' = [w \in Worker |-> IF Home[w] = p THEN NoWork ELSE worker[w]]
  /\ UNCHANGED <<poisoned, ops>>

Die(p) == End(p) /\ UNCHANGED h

\* It dies holding the mutex, in a section that has stored nothing yet.
CutShort(p) == End(p) /\ h' = [h EXCEPT !.abandoned = TRUE]

\* Inside Activity(), the entry named and perhaps counted.
CutAdmit(w) ==
  /\ worker[w].pc = "admitting" /\ Locked.replayPid = NoProcess
  /\ \E e \in Entry, counted \in {0, 1} :
       /\ IsSeatFor(Home[w], e)
       /\ h' = [Locked EXCEPT !.pidOf[e] = Home[w], !.count[e] = @ + counted, !.abandoned = TRUE]
  /\ End(Home[w])

\* Inside take, with the reservation already in the header.
CutTake(p) ==
  /\ replay[p].pc = "exclusive" /\ Grantable(p)
  /\ h' = [Swept EXCEPT !.replayPid = p, !.abandoned = TRUE]
  /\ End(p)

\* Inside append: some redo slots released, the redo branch dropped, the
\* oldest batch released and then shifted out, the new one stored, pushed.
AppendPrefixes(batch) ==
  LET Torn(u, r, c) == [h EXCEPT !.undo = u, !.redo = r, !.content = c,
                                 !.abandoned = TRUE, !.dirty = TRUE]
      Stored(slot) == [Spare EXCEPT ![slot] = batch]
      first == {slot \in Slot : IsLeast(slot, FreeSlots)}
  IN {Torn(h.undo, h.redo, Released(some)) : some \in SUBSET Elements(h.redo)}
     \cup {Torn(h.undo, <<>>, Released(Elements(h.redo))),
           Torn(h.undo, <<>>, Spare), Torn(Kept, <<>>, Spare)}
     \cup {Torn(Kept, <<>>, Stored(slot)) : slot \in first}
     \cup {Torn(Append(Kept, slot), <<>>, Stored(slot)) : slot \in first}

CutAppend(w) ==
  /\ worker[w].pc \in {"mutated", "late"} /\ ~Locked.blocked
  /\ h' \in AppendPrefixes(worker[w].made)
  /\ End(Home[w])

\* Inside commit: the slot released or rewritten, and perhaps popped.
CutCommit(p) ==
  /\ replay[p].pc = "replayed"
  /\ \E batch \in {NoBatch, replay[p].batch}, popped \in BOOLEAN :
       /\ popped => replay[p].complete /\ batch # NoBatch /\ Stack(replay[p].way) # <<>>
       /\ h' = [h EXCEPT !.content[replay[p].slot] = batch,
                         !.undo = IF popped /\ replay[p].way = "undo" THEN Pop(@) ELSE @,
                         !.redo = IF popped /\ replay[p].way = "redo" THEN Pop(@) ELSE @,
                         !.abandoned = TRUE, !.dirty = TRUE]
  /\ End(p)

-----------------------------------------------------------------------------
WorkerStep(w) ==
  \/ EnterShared(w) \/ Admit(w) \/ Refuse(w)
  \/ Publish(w) \/ PublishFails(w) \/ Leave(w) \/ LateBarrier(w)

ReplayStep(p) ==
  \/ AwaitExclusive(p) \/ EnterExclusive(p)
  \/ Take(p) \/ TakeRefused(p) \/ Replay(p) \/ Commit(p) \/ Abandon(p)

Next ==
  \/ \E p \in Process :
       \/ Launch(p) \/ QueueReplay(p) \/ DropCommand(p) \/ ReplayStep(p)
       \/ Die(p) \/ CutShort(p) \/ CutTake(p) \/ CutCommit(p)
       \/ \E way \in {"undo", "redo"} : Ask(p, way)
  \/ \E w \in Worker :
       \/ StartWorker(w) \/ Perform(w) \/ Bypass(w) \/ WorkerStep(w) \/ CutAdmit(w) \/ CutAppend(w)
       \/ \E o \in Worker : StartNested(w, o)

Spec == Init /\ [][Next]_vars

(***************************************************************************)
(* Fairness: every live thread is scheduled, the kernel hands the mutex    *)
(* over, and Shell operations return.  Nobody needs to end a process or to *)
(* give a command.  A thread in Activity() competes for the moments        *)
(* without a replay, which the idle event announces, and an operation      *)
(* nests others finitely often: strong fairness.                           *)
(***************************************************************************)
Fairness ==
  /\ \A p \in Process : WF_vars(ReplayStep(p))
  /\ \A w \in Worker :
       WF_vars(WorkerStep(w)) /\ SF_vars(Admit(w) \/ Refuse(w)) /\ SF_vars(Leave(w))

FairSpec == Spec /\ Fairness

-----------------------------------------------------------------------------
Header ==
  [abandoned : BOOLEAN, dirty : BOOLEAN, blocked : BOOLEAN,
   generation : Nat, replayPid : Process \cup {NoProcess},
   pidOf : [Entry -> Process \cup {NoProcess}], count : [Entry -> Nat],
   undo : Seq(Slot), redo : Seq(Slot), content : [Slot -> Batch \cup {NoBatch}]]
Command ==
  [pc : {"idle", "asked", "queued", "waiting", "exclusive", "reserved", "replayed"},
   way : {"undo", "redo"}, expected : Nat, target : 0..MaxOps,
   slot : Slot \cup {NoSlot}, batch : Batch \cup {NoBatch}, complete : BOOLEAN]
Thread ==
  [pc : {"idle", "starting", "admitting", "working", "mutated", "unwinding", "late"},
   seat : Entry \cup {NoSeat}, outer : Worker \cup {NoWorker}, made : Batch \cup {NoBatch}]

\* Every variable keeps its type; the stacks of the header hold slots.
TypeOK ==
  /\ h \in Header
  /\ state \in [Process -> {"fresh", "up", "gone"}]
  /\ poisoned \in [Process -> BOOLEAN]
  /\ replay \in [Process -> Command]
  /\ worker \in [Worker -> Thread]
  /\ ops \in 0..MaxOps /\ lost \in BOOLEAN

(***************************************************************************)
(* Native file operations and a replay never overlap, in whichever         *)
(* processes they run: while one process holds a reservation, no other     *)
(* holds one and no Activity is admitted anywhere.  It rests on two checks *)
(* made at different times under the mutex (busy in take, replayPid in     *)
(* Activity), on counts that processes share, and on who is found dead.    *)
(***************************************************************************)
ReplayExclusive ==
  \A p \in Process : Reserved(p) =>
    /\ \A q \in Process : Reserved(q) => q = p
    /\ \A w \in Worker : ~Admitted(w)

(***************************************************************************)
(* While the history is open, the slots on the two stacks are distinct and *)
(* are exactly the slots in use: no batch is on both stacks, none leaks,   *)
(* and append always finds a slot.                                         *)
(***************************************************************************)
Open == ~h.blocked /\ ~h.dirty /\ ~h.abandoned
Distinct(s) == \A i, j \in 1..Len(s) : s[i] = s[j] => i = j
StacksSound ==
  Open =>
    /\ Distinct(h.undo) /\ Distinct(h.redo)
    /\ Elements(h.undo) \cap Elements(h.redo) = {}
    /\ Elements(h.undo) \cup Elements(h.redo) = {s \in Slot : h.content[s] # NoBatch}

\* Until commit the stack is as take left it, the reserved slot on top:
\* commit moves that slot and pops without looking, so anything else moves
\* the wrong batch or takes one from a count of zero.
ReservationKept ==
  \A p \in Process : Reserved(p) /\ Open =>
    /\ Stack(replay[p].way) # <<>>
    /\ Top(Stack(replay[p].way)) = replay[p].slot

(***************************************************************************)
(* In an open history a batch that may be replayed is on the stack that    *)
(* its operation's state calls for, so no operation is reversed twice or   *)
(* repeated while it stands.                                               *)
(***************************************************************************)
InState(s, wanted) == h.content[s].barrier \/ h.content[s].state = wanted
StackMatchesState ==
  Open => /\ \A s \in Elements(h.undo) : InState(s, "done")
          /\ \A s \in Elements(h.redo) : InState(s, "undone")

\* What a command replays is the batch that was on top when it was issued,
\* however long its thread waited for the execution lock.
ReplaysWhatWasAsked ==
  \A p \in Process : Reserved(p) => replay[p].batch.op = replay[p].target

(***************************************************************************)
(* No reservation is granted while some change on disk is missing from the *)
(* history: neither one whose process died before recording it, nor one a  *)
(* live thread has still to record.                                        *)
(***************************************************************************)
NoReplayOverLostWork ==
  [][\A p \in Process : ~Reserved(p) /\ Reserved(p)' =>
        ~lost /\ \A w \in Worker : ~Unrecorded(w)]_vars

(***************************************************************************)
(* A barrier stays on its stack until new work or the limit discards it:   *)
(* no step carries a batch with a barrier from one stack over to the       *)
(* other.  (A barrier recorded too late may leave a slot on both.)         *)
(***************************************************************************)
BarrierStays ==
  [][\A s \in Slot :
       h.content[s].barrier /\ h'.content[s].op = h.content[s].op =>
         /\ s \in Elements(h.undo) \ Elements(h.redo) => s \notin Elements(h'.redo)
         /\ s \in Elements(h.redo) \ Elements(h.undo) => s \notin Elements(h'.undo)]_vars

\* A history that was interrupted stays closed for the session, whoever
\* joins it, and however the repair of the lock is itself interleaved.
ClosedForSession == [][~Open /\ Session /\ Session' => ~Open']_vars

\* A native operation that has reached Activity() is admitted or refused, or
\* its process ends: a replay that lasts, fails or dies never strands it.
AdmissionProgress ==
  \A w \in Worker : worker[w].pc = "admitting" ~> worker[w].pc # "admitting"

\* A queued command comes to an end, so the next one can be given.
ReplayProgress ==
  \A p \in Process : replay[p].pc = "queued" ~> replay[p].pc = "idle"
=============================================================================
