------------------------ MODULE SharedHistoryProofs ------------------------
(***************************************************************************)
(* Proofs about SharedHistory, for every number of processes, workers,     *)
(* participant entries and batches, with and without the reuse of process  *)
(* identifiers and whichever recorder failures occur: its invariants, what *)
(* its steps never do, and that it implements FileHistory step by step.    *)
(***************************************************************************)
EXTENDS SharedHistoryRefinement, FiniteSetTheorems, SequenceTheorems, TLAPS

-----------------------------------------------------------------------------
(***************************************************************************)
(* Types.  What an action stores in the header comes from the record of    *)
(* its thread, so TypeOK is inductive only with what the records hold at   *)
(* their program counters.                                                 *)
(***************************************************************************)
Recorded ==
  /\ \A p \in Process : Reserved(p) => replay[p].slot \in Slot
  /\ \A w \in Worker : Unrecorded(w) => worker[w].made \in Batch

TypeInv == TypeOK /\ Recorded

LEMMA LockedFacts ==
  ASSUME TypeOK
  PROVE  /\ Locked \in Header
         /\ Locked.pidOf = h.pidOf /\ Locked.count = h.count
         /\ Locked.undo = h.undo /\ Locked.redo = h.redo /\ Locked.content = h.content
         /\ Locked.replayPid = IF OwnerDead THEN NoProcess ELSE h.replayPid
<1>1. One(Interrupted) \in Nat /\ One(OwnerDead) \in Nat
  BY DEF One
<1>2. (IF OwnerDead THEN NoProcess ELSE h.replayPid) \in Process \cup {NoProcess}
  BY DEF TypeOK, Header
<1>3. h.generation + One(Interrupted) + One(OwnerDead) \in Nat
  BY <1>1 DEF TypeOK, Header
<1>4. Locked \in Header
  BY <1>2, <1>3 DEF TypeOK, Header, Locked
<1>5. /\ Locked.pidOf = h.pidOf /\ Locked.count = h.count
      /\ Locked.undo = h.undo /\ Locked.redo = h.redo /\ Locked.content = h.content
  BY DEF TypeOK, Header, Locked
<1>6. Locked.replayPid = IF OwnerDead THEN NoProcess ELSE h.replayPid
  BY DEF TypeOK, Header, Locked
<1>7. QED
  BY <1>4, <1>5, <1>6

LEMMA SweptFacts ==
  ASSUME TypeOK
  PROVE  /\ Swept \in Header
         /\ Swept.undo = h.undo /\ Swept.redo = h.redo /\ Swept.content = h.content
         /\ Swept.replayPid = Locked.replayPid
         /\ \A e \in Entry \ Stale : Swept.pidOf[e] = h.pidOf[e] /\ Swept.count[e] = h.count[e]
<1>1. Locked \in Header /\ Locked.pidOf = h.pidOf /\ Locked.count = h.count
      /\ Locked.undo = h.undo /\ Locked.redo = h.redo /\ Locked.content = h.content
  BY LockedFacts
<1>2. Swept \in Header
  BY <1>1 DEF Header, Swept
<1>3. /\ Swept.undo = h.undo /\ Swept.redo = h.redo /\ Swept.content = h.content
      /\ Swept.replayPid = Locked.replayPid
  BY <1>1 DEF Header, Swept
<1>4. \A e \in Entry \ Stale : Swept.pidOf[e] = h.pidOf[e] /\ Swept.count[e] = h.count[e]
  BY <1>1 DEF Header, Swept
<1>5. QED
  BY <1>2, <1>3, <1>4

LEMMA PoppedType ==
  ASSUME NEW s \in Seq(Slot), s # <<>>
  PROVE  Pop(s) \in Seq(Slot) /\ Top(s) \in Slot
<1>1. Len(s) \in Nat \ {0} /\ s \in [1..Len(s) -> Slot]
  BY EmptySeq, LenProperties
<1>2. Pop(s) \in Seq(Slot)
  BY <1>1, SubSeqProperties DEF Pop
<1>3. QED
  BY <1>1, <1>2 DEF Top

LEMMA AppendParts ==
  ASSUME TypeOK
  PROVE  /\ Kept \in Seq(Slot)
         /\ Spare \in [Slot -> Batch \cup {NoBatch}]
         /\ \A S : Released(S) \in [Slot -> Batch \cup {NoBatch}]
<1>1. h.undo \in Seq(Slot) /\ h.content \in [Slot -> Batch \cup {NoBatch}]
  BY DEF TypeOK, Header
<1>2. Full => h.undo # <<>>
  BY SizeAssumption DEF Full
<1>3. Kept \in Seq(Slot)
  BY <1>1, <1>2, HeadTailProperties DEF Kept
<1>4. \A S : Released(S) \in [Slot -> Batch \cup {NoBatch}]
  BY <1>1 DEF Released
<1>5. QED
  BY <1>3, <1>4 DEF Spare

LEMMA AppendFacts ==
  ASSUME TypeOK, NEW batch \in Batch, AppendBatch(batch)
  PROVE  /\ h' \in Header /\ lost' \in BOOLEAN
         /\ h'.pidOf = h.pidOf /\ h'.count = h.count
         /\ h'.replayPid = Locked.replayPid \/ h'.replayPid = h.replayPid
<1>. <<>> \in Seq(Slot) /\ h.generation + 1 \in Nat
  BY DEF TypeOK, Header
<1>1. CASE Locked.blocked /\ h' = Locked /\ lost' = TRUE
  BY <1>1, LockedFacts
<1>2. CASE /\ ~Locked.blocked
           /\ \E slot \in Slot :
                /\ IsLeast(slot, FreeSlots)
                /\ h' = [h EXCEPT !.redo = <<>>, !.undo = Append(Kept, slot),
                                  !.content = [Spare EXCEPT ![slot] = batch],
                                  !.generation = @ + 1]
           /\ UNCHANGED lost
  <2>1. PICK slot \in Slot :
          h' = [h EXCEPT !.redo = <<>>, !.undo = Append(Kept, slot),
                         !.content = [Spare EXCEPT ![slot] = batch],
                         !.generation = @ + 1]
    BY <1>2
  <2>2. /\ Append(Kept, slot) \in Seq(Slot) /\ <<>> \in Seq(Slot)
        /\ [Spare EXCEPT ![slot] = batch] \in [Slot -> Batch \cup {NoBatch}]
    BY AppendParts
  <2>3. h' \in Header
    BY <2>1, <2>2 DEF TypeOK, Header
  <2>4. h'.pidOf = h.pidOf /\ h'.count = h.count /\ h'.replayPid = h.replayPid
    BY <2>1 DEF TypeOK, Header
  <2>5. QED
    BY <1>2, <2>3, <2>4 DEF TypeOK
<1>3. CASE /\ ~Locked.blocked
           /\ h' = [h EXCEPT !.redo = <<>>, !.undo = Kept, !.content = Spare,
                             !.generation = @ + 1, !.blocked = TRUE]
           /\ lost' = TRUE
  <2>1. h' \in Header
    BY <1>3, AppendParts DEF TypeOK, Header
  <2>2. h'.pidOf = h.pidOf /\ h'.count = h.count /\ h'.replayPid = h.replayPid
    BY <1>3 DEF TypeOK, Header
  <2>3. QED
    BY <1>3, <2>1, <2>2
<1>4. QED
  BY <1>1, <1>2, <1>3 DEF AppendBatch

LEMMA BatchFacts ==
  /\ \A batch \in Batch : AsBarrier(batch) \in Batch /\ batch # NoBatch
  /\ \A batch \in Batch : /\ [batch EXCEPT !.state = Reversed[@]] \in Batch
                          /\ [AsBarrier(batch) EXCEPT !.state = "partial"] \in Batch
  /\ \A batch \in Batch \cup {NoBatch} : batch.op \in 0..MaxOps
<1>1. \A batch \in Batch : batch # NoBatch
  BY DEF Batch, NoBatch
<1>2. \A batch \in Batch : AsBarrier(batch) \in Batch
  BY DEF Batch, AsBarrier
<1>3. \A batch \in Batch : [batch EXCEPT !.state = Reversed[@]] \in Batch
  BY DEF Batch, Reversed
<1>4. \A batch \in Batch : [AsBarrier(batch) EXCEPT !.state = "partial"] \in Batch
  BY <1>2 DEF Batch
<1>5. \A batch \in Batch \cup {NoBatch} : batch.op \in 0..MaxOps
  BY BoundAssumption DEF Batch, NoBatch
<1>6. QED
  BY <1>1, <1>2, <1>3, <1>4, <1>5

LEMMA IdleTypes == NoReplay \in Command /\ NoWork \in Thread
BY BoundAssumption DEF NoReplay, NoWork, Command, Thread, NoSlot, NoSeat

LEMMA TypeInit == Init => TypeInv
<1>1. FreshHeader \in Header
  <2>. <<>> \in Seq(Slot)
    BY EmptySeq
  <2>. QED
    BY DEF FreshHeader, Header
<1>2. Init => TypeOK
  <2>1. 0 \in 0..MaxOps
    BY BoundAssumption
  <2>2. QED
    BY <1>1, <2>1, IdleTypes DEF Init, TypeOK
<1>3. Init => Recorded
  BY DEF Init, Recorded, Reserved, Unrecorded, NoReplay, NoWork
<1>4. QED
  BY <1>2, <1>3 DEF TypeInv

LEMMA CommandUpdates ==
  ASSUME NEW c \in Command
  PROVE  /\ \A g \in Nat, t \in 0..MaxOps :
              [c EXCEPT !.pc = "queued", !.expected = g, !.target = t] \in Command
         /\ \A s \in Slot, b \in Batch \cup {NoBatch} :
              [c EXCEPT !.pc = "reserved", !.slot = s, !.batch = b] \in Command
BY DEF Command

\* A record of one process or worker replaced, in general and for the fields that steps set.
LEMMA Updated ==
  ASSUME NEW S, NEW T, NEW f \in [S -> T], NEW x \in S, NEW v \in T
  PROVE  [f EXCEPT ![x] = v] \in [S -> T]
OBVIOUS

LEMMA ThreadUpdates ==
  ASSUME NEW t \in Thread
  PROVE  /\ \A b \in Batch : [t EXCEPT !.pc = "mutated", !.made = b] \in Thread
         /\ [t EXCEPT !.pc = "working", !.made = NoBatch] \in Thread
         /\ \A e \in Entry : [t EXCEPT !.pc = "working", !.seat = e] \in Thread
<1>1. \A b \in Batch : [t EXCEPT !.pc = "mutated", !.made = b] \in Thread
  BY DEF Thread
<1>2. [t EXCEPT !.pc = "working", !.made = NoBatch] \in Thread
  BY DEF Thread
<1>3. \A e \in Entry : [t EXCEPT !.pc = "working", !.seat = e] \in Thread
  BY DEF Thread
<1>4. QED
  BY <1>1, <1>2, <1>3

LEMMA WaitingUpdates ==
  ASSUME NEW c \in Command
  PROVE  /\ [c EXCEPT !.pc = "waiting"] \in Command
         /\ [c EXCEPT !.pc = "exclusive"] \in Command
         /\ \A b \in Batch, complete \in BOOLEAN :
              [c EXCEPT !.pc = "replayed", !.batch = b, !.complete = complete] \in Command
<1>1. [c EXCEPT !.pc = "waiting"] \in Command
  BY DEF Command
<1>2. [c EXCEPT !.pc = "exclusive"] \in Command
  BY DEF Command
<1>3. \A b \in Batch, complete \in BOOLEAN :
         [c EXCEPT !.pc = "replayed", !.batch = b, !.complete = complete] \in Command
  BY DEF Command
<1>4. QED
  BY <1>1, <1>2, <1>3

LEMMA EndType ==
  ASSUME TypeInv, NEW p \in Process, End(p), h' \in Header
  PROVE  TypeInv'
<1>1. TypeOK'
  BY IdleTypes DEF End, TypeInv, TypeOK
<1>2. Recorded'
  BY DEF End, TypeInv, TypeOK, Recorded, Reserved, Unrecorded, NoReplay, NoWork
<1>3. QED
  BY <1>1, <1>2 DEF TypeInv

LEMMA TypeStep == TypeInv /\ [Next]_vars => TypeInv'
<1>. SUFFICES ASSUME TypeInv, [Next]_vars PROVE TypeInv'
  OBVIOUS
<1>. USE HomeAssumption
<1>1. ASSUME NEW p \in Process, Launch(p) PROVE TypeInv'
  <2>1. h' \in Header
    <3>1. FreshHeader \in Header
      BY EmptySeq DEF FreshHeader, Header
    <3>2. CASE Session
      <4>1. h' = [h EXCEPT !.blocked = @ \/ h.abandoned, !.abandoned = FALSE]
        BY <1>1, <3>2 DEF Launch
      <4>2. h \in Header /\ h.blocked \in BOOLEAN /\ h.abandoned \in BOOLEAN
        BY DEF TypeInv, TypeOK, Header
      <4>3. (h.blocked \/ h.abandoned) \in BOOLEAN
        OBVIOUS
      <4>4. QED
        BY <4>1, <4>2, <4>3 DEF Header
    <3>3. CASE ~Session
      BY <1>1, <3>1, <3>3 DEF Launch
    <3>4. QED
      BY <3>2, <3>3
  <2>2. TypeOK'
    <3>1. 0 \in 0..MaxOps
      BY BoundAssumption
    <3>2. ops' \in 0..MaxOps /\ lost' \in BOOLEAN
      BY <1>1, <3>1 DEF Launch, TypeInv, TypeOK
    <3>3. QED
      BY <1>1, <2>1, <3>2 DEF Launch, TypeInv, TypeOK
  <2>3. QED
    BY <1>1, <2>2 DEF Launch, TypeInv, Recorded, Reserved, Unrecorded
<1>2. ASSUME NEW p \in Process, QueueReplay(p) PROVE TypeInv'
  <2>1. Locked \in Header
    BY LockedFacts DEF TypeInv
  <2>2. Stack(replay[p].way) \in Seq(Slot)
    BY DEF TypeInv, TypeOK, Header, Stack
  <2>3. (IF Stack(replay[p].way) = <<>> THEN 0 ELSE h.content[Top(Stack(replay[p].way))].op)
          \in 0..MaxOps
    BY <2>2, PoppedType, BatchFacts, BoundAssumption DEF TypeInv, TypeOK, Header
  <2>4. TypeOK'
    <3>1. Locked.generation \in Nat
      BY <2>1 DEF Header
    <3> DEFINE target == IF Stack(replay[p].way) = <<>> THEN 0
                         ELSE h.content[Top(Stack(replay[p].way))].op
    <3>2. replay' = [replay EXCEPT ![p].pc = "queued", ![p].expected = Locked.generation,
                                   ![p].target = target]
      BY <1>2 DEF QueueReplay
    <3>3. target \in 0..MaxOps
      BY <2>3
    <3> HIDE DEF target
    <3>4. [replay[p] EXCEPT !.pc = "queued", !.expected = Locked.generation, !.target = target]
            \in Command
      BY <3>1, <3>3, CommandUpdates DEF TypeInv, TypeOK
    <3>5. replay' \in [Process -> Command]
      BY <3>2, <3>4 DEF TypeInv, TypeOK
    <3>6. QED
      BY <1>2, <2>1, <3>5 DEF QueueReplay, TypeInv, TypeOK
  <2>5. QED
    BY <1>2, <2>4 DEF QueueReplay, TypeInv, TypeOK, Recorded, Reserved, Unrecorded
<1>3. ASSUME NEW p \in Process, DropCommand(p) PROVE TypeInv'
  BY <1>3, IdleTypes
     DEF DropCommand, TypeInv, TypeOK, Recorded, Reserved, Unrecorded, NoReplay
<1>4. ASSUME NEW p \in Process, NEW way \in {"undo", "redo"}, Ask(p, way) PROVE TypeInv'
  <2>1. h' \in Header
    BY <1>4, LockedFacts, SweptFacts DEF Ask, TypeInv
  <2>2. [NoReplay EXCEPT !.pc = "asked", !.way = way] \in Command
    BY IdleTypes DEF Command
  <2>3. TypeOK'
    BY <1>4, <2>1, <2>2 DEF Ask, TypeInv, TypeOK
  <2>4. QED
    <3>1. worker' = worker
      BY <1>4 DEF Ask
    <3>2. \A q \in Process : Reserved(q)' => Reserved(q) /\ replay'[q] = replay[q]
      <4>1. \A q \in Process : q # p => replay'[q] = replay[q]
        BY <1>4 DEF Ask, TypeInv, TypeOK
      <4>2. replay'[p].pc \in {"idle", "asked"}
        BY <1>4 DEF Ask, NoReplay, TypeInv, TypeOK
      <4>3. QED
        BY <4>1, <4>2 DEF Reserved
    <3>3. QED
      BY <2>3, <3>1, <3>2 DEF TypeInv, Recorded, Unrecorded
<1>5. ASSUME NEW p \in Process, AwaitExclusive(p) \/ EnterExclusive(p) PROVE TypeInv'
  <2>1. TypeOK'
    <3>1. CASE AwaitExclusive(p)
      <4>1. replay' = [replay EXCEPT ![p].pc = "waiting"]
        BY <3>1 DEF AwaitExclusive
      <4>2. replay[p] \in Command
        BY DEF TypeInv, TypeOK
      <4>3. replay' \in [Process -> Command]
        BY <4>1, <4>2, WaitingUpdates, Updated DEF TypeInv, TypeOK
      <4>4. QED
        BY <3>1, <4>3 DEF AwaitExclusive, TypeInv, TypeOK
    <3>2. CASE EnterExclusive(p)
      <4>1. replay' = [replay EXCEPT ![p].pc = "exclusive"]
        BY <3>2 DEF EnterExclusive
      <4>2. replay[p] \in Command
        BY DEF TypeInv, TypeOK
      <4>3. replay' \in [Process -> Command]
        BY <4>1, <4>2, WaitingUpdates, Updated DEF TypeInv, TypeOK
      <4>4. QED
        BY <3>2, <4>3 DEF EnterExclusive, TypeInv, TypeOK
    <3>3. QED
      BY <1>5, <3>1, <3>2
  <2>2. \A q \in Process : Reserved(q)' => Reserved(q) /\ replay'[q] = replay[q]
    BY <1>5 DEF AwaitExclusive, EnterExclusive, TypeInv, TypeOK, Reserved, Command
  <2>3. QED
    BY <1>5, <2>1, <2>2
       DEF AwaitExclusive, EnterExclusive, TypeInv, Recorded, Unrecorded
<1>6. ASSUME NEW p \in Process, Take(p) PROVE TypeInv'
  <2>1. h' \in Header
    BY <1>6, SweptFacts DEF Take, TypeInv, Header
  <2>2. Stack(replay[p].way) \in Seq(Slot) /\ Stack(replay[p].way) # <<>>
    BY <1>6 DEF Take, Grantable, TypeInv, TypeOK, Header, Stack
  <2>3. Top(Stack(replay[p].way)) \in Slot
    BY <2>2, PoppedType
  <2>4. h.content[Top(Stack(replay[p].way))] \in Batch \cup {NoBatch}
    BY <2>3 DEF TypeInv, TypeOK, Header
  <2>5. TypeOK'
    <3> DEFINE slot == Top(Stack(replay[p].way))
    <3>1. replay' = [replay EXCEPT ![p].pc = "reserved", ![p].slot = slot,
                                   ![p].batch = h.content[slot]]
      BY <1>6 DEF Take
    <3>2. slot \in Slot /\ h.content[slot] \in Batch \cup {NoBatch}
      BY <2>3, <2>4
    <3> HIDE DEF slot
    <3>3. [replay[p] EXCEPT !.pc = "reserved", !.slot = slot, !.batch = h.content[slot]]
            \in Command
      BY <3>2, CommandUpdates DEF TypeInv, TypeOK
    <3>4. replay' \in [Process -> Command]
      BY <3>1, <3>3 DEF TypeInv, TypeOK
    <3>5. QED
      BY <1>6, <2>1, <3>4 DEF Take, TypeInv, TypeOK
  <2>6. QED
    <3>1. worker' = worker
      BY <1>6 DEF Take
    <3>2. \A q \in Process : Reserved(q)' =>
             \/ q = p
             \/ Reserved(q) /\ replay'[q] = replay[q]
      BY <1>6 DEF Take, TypeInv, TypeOK, Reserved
    <3>3. replay'[p].slot \in Slot /\ replay'[p].batch = h.content[replay'[p].slot]
      BY <1>6, <2>3 DEF Take, TypeInv, TypeOK, Command
    <3>4. QED
      BY <1>6, <2>5, <3>1, <3>2, <3>3 DEF Take, TypeInv, Recorded, Unrecorded
<1>7. ASSUME NEW p \in Process, TakeRefused(p) PROVE TypeInv'
  BY <1>7, SweptFacts, IdleTypes
     DEF TakeRefused, TypeInv, TypeOK, Recorded, Reserved, Unrecorded, NoReplay
<1>8. ASSUME NEW p \in Process, Replay(p) PROVE TypeInv'
  <2>1. replay[p].batch \in Batch
    BY <1>8 DEF Replay, TypeInv, TypeOK, Command
  <2>2. PICK batch \in Batch, complete \in BOOLEAN :
          replay' = [replay EXCEPT ![p].pc = "replayed", ![p].batch = batch,
                                   ![p].complete = complete]
    BY <1>8, <2>1, BatchFacts DEF Replay
  <2>3. TypeOK'
    <3>1. [replay[p] EXCEPT !.pc = "replayed", !.batch = batch, !.complete = complete]
            \in Command
      BY WaitingUpdates DEF TypeInv, TypeOK
    <3>2. replay' \in [Process -> Command]
      BY <2>2, <3>1, Updated DEF TypeInv, TypeOK
    <3>3. QED
      BY <1>8, <3>2 DEF Replay, TypeInv, TypeOK
  <2>4. QED
    BY <1>8, <2>2, <2>3 DEF Replay, TypeInv, TypeOK, Recorded, Reserved, Unrecorded, Command
<1>9. ASSUME NEW p \in Process, Commit(p) PROVE TypeInv'
  <2>1. h' \in Header /\ lost' \in BOOLEAN
    <3>1. PICK saved \in BOOLEAN :
            LET way == replay[p].way
                slot == replay[p].slot
                move == saved /\ replay[p].complete
            IN /\ move => Stack(way) # <<>>
               /\ h' = [Locked EXCEPT
                          !.content[slot] = IF saved THEN replay[p].batch ELSE NoBatch,
                          !.blocked = @ \/ ~saved,
                          !.undo = IF move THEN Moved(way, slot)[1] ELSE @,
                          !.redo = IF move THEN Moved(way, slot)[2] ELSE @,
                          !.generation = @ + 1, !.replayPid = NoProcess]
               /\ lost' = (lost \/ ~saved)
      BY <1>9 DEF Commit
    <3> DEFINE way == replay[p].way
               slot == replay[p].slot
               move == saved /\ replay[p].complete
               batch == IF saved THEN replay[p].batch ELSE NoBatch
               undo == IF move THEN Moved(way, slot)[1] ELSE Locked.undo
               redo == IF move THEN Moved(way, slot)[2] ELSE Locked.redo
    <3>2. slot \in Slot /\ batch \in Batch \cup {NoBatch} /\ way \in {"undo", "redo"}
      BY <1>9 DEF Commit, TypeInv, TypeOK, Recorded, Reserved, Command
    <3>3. Locked \in Header /\ Locked.undo = h.undo /\ Locked.redo = h.redo
      BY LockedFacts DEF TypeInv
    <3>4. undo \in Seq(Slot) /\ redo \in Seq(Slot)
      <4>1. h.undo \in Seq(Slot) /\ h.redo \in Seq(Slot)
        BY DEF TypeInv, TypeOK, Header
      <4>2. CASE ~move
        BY <4>1, <4>2, <3>3
      <4>3. CASE move /\ way = "undo"
        <5>1. Pop(h.undo) \in Seq(Slot) /\ Append(h.redo, slot) \in Seq(Slot)
          BY <4>1, <4>3, <3>1, <3>2, PoppedType DEF Stack
        <5>2. QED
          BY <5>1, <4>3 DEF Moved
      <4>4. CASE move /\ way = "redo"
        <5>1. Pop(h.redo) \in Seq(Slot) /\ Append(h.undo, slot) \in Seq(Slot)
          BY <4>1, <4>4, <3>1, <3>2, PoppedType DEF Stack
        <5>2. QED
          BY <5>1, <4>4 DEF Moved
      <4>5. QED
        BY <3>2, <4>2, <4>3, <4>4
    <3>5. h' = [Locked EXCEPT !.content[slot] = batch, !.blocked = @ \/ ~saved, !.undo = undo,
                              !.redo = redo, !.generation = @ + 1, !.replayPid = NoProcess]
      BY <3>1
    <3>6. [Locked.content EXCEPT ![slot] = batch] \in [Slot -> Batch \cup {NoBatch}]
      BY <3>2, <3>3 DEF Header
    <3>7. Locked.generation + 1 \in Nat
      BY <3>3 DEF Header
    <3> HIDE DEF way, slot, move, batch, undo, redo
    <3>8. h' \in Header
      BY <3>3, <3>4, <3>5, <3>6, <3>7 DEF Header
    <3>9. QED
      BY <3>1, <3>8 DEF TypeInv, TypeOK
  <2>2. TypeOK'
    BY <1>9, <2>1, IdleTypes DEF Commit, TypeInv, TypeOK
  <2>3. QED
    BY <1>9, <2>2 DEF Commit, TypeInv, TypeOK, Recorded, Reserved, Unrecorded, NoReplay
<1>10. ASSUME NEW p \in Process, Abandon(p) PROVE TypeInv'
  <2>1. h' \in Header
    <3>1. Locked \in Header
      BY LockedFacts DEF TypeInv
    <3>2. Locked.generation + 1 \in Nat
      BY <3>1 DEF Header
    <3>3. QED
      BY <1>10, <3>1, <3>2 DEF Abandon, Header
  <2>2. TypeOK'
    BY <1>10, <2>1, IdleTypes DEF Abandon, TypeInv, TypeOK
  <2>3. QED
    BY <1>10, <2>2 DEF Abandon, TypeInv, TypeOK, Recorded, Reserved, Unrecorded, NoReplay
<1>11. ASSUME NEW p \in Process, Die(p) PROVE TypeInv'
  BY <1>11, EndType DEF Die, TypeInv, TypeOK
<1>12. ASSUME NEW p \in Process, CutShort(p) PROVE TypeInv'
  <2>1. h' \in Header
    BY <1>12 DEF CutShort, TypeInv, TypeOK, Header
  <2>2. QED
    BY <1>12, <2>1, EndType DEF CutShort
<1>13. ASSUME NEW p \in Process, CutTake(p) PROVE TypeInv'
  <2>1. h' \in Header
    BY <1>13, SweptFacts DEF CutTake, TypeInv, Header
  <2>2. QED
    BY <1>13, <2>1, EndType DEF CutTake
<1>14. ASSUME NEW p \in Process, CutCommit(p) PROVE TypeInv'
  <2>1. h' \in Header
    <3>1. PICK batch \in {NoBatch, replay[p].batch}, popped \in BOOLEAN :
            /\ popped => Stack(replay[p].way) # <<>>
            /\ h' = [h EXCEPT !.content[replay[p].slot] = batch,
                              !.undo = IF popped /\ replay[p].way = "undo" THEN Pop(@) ELSE @,
                              !.redo = IF popped /\ replay[p].way = "redo" THEN Pop(@) ELSE @,
                              !.abandoned = TRUE, !.dirty = TRUE]
      BY <1>14 DEF CutCommit
    <3> DEFINE undo == IF popped /\ replay[p].way = "undo" THEN Pop(h.undo) ELSE h.undo
               redo == IF popped /\ replay[p].way = "redo" THEN Pop(h.redo) ELSE h.redo
    <3>2. undo \in Seq(Slot) /\ redo \in Seq(Slot)
      BY <3>1, PoppedType DEF Stack, TypeInv, TypeOK, Header
    <3>3. [h.content EXCEPT ![replay[p].slot] = batch] \in [Slot -> Batch \cup {NoBatch}]
      BY DEF TypeInv, TypeOK, Header, Command
    <3>4. h' = [h EXCEPT !.content[replay[p].slot] = batch, !.undo = undo, !.redo = redo,
                         !.abandoned = TRUE, !.dirty = TRUE]
      BY <3>1
    <3> HIDE DEF undo, redo
    <3>5. QED
      BY <3>2, <3>3, <3>4 DEF TypeInv, TypeOK, Header
  <2>2. QED
    BY <1>14, <2>1, EndType DEF CutCommit
<1>15. ASSUME NEW w \in Worker, StartWorker(w) PROVE TypeInv'
  BY <1>15, IdleTypes
     DEF StartWorker, TypeInv, TypeOK, Recorded, Reserved, Unrecorded, NoWork, Thread
<1>16. ASSUME NEW w \in Worker, EnterShared(w) PROVE TypeInv'
  BY <1>16 DEF EnterShared, TypeInv, TypeOK, Recorded, Reserved, Unrecorded, Thread
<1>17. ASSUME NEW w \in Worker, NEW o \in Worker, StartNested(w, o) PROVE TypeInv'
  <2>1. [NoWork EXCEPT !.pc = "admitting", !.outer = o] \in Thread
    BY IdleTypes DEF Thread
  <2>2. TypeOK'
    BY <1>17, <2>1 DEF StartNested, TypeInv, TypeOK
  <2>3. QED
    BY <1>17, <2>2
       DEF StartNested, TypeInv, TypeOK, Recorded, Reserved, Unrecorded, NoWork
<1>18. ASSUME NEW w \in Worker, Admit(w) PROVE TypeInv'
  <2>1. PICK e \in Entry : TakeSeat(w, e, [Locked EXCEPT !.pidOf[e] = Home[w], !.count[e] = @ + 1])
    BY <1>18 DEF Admit
  <2>2. h' \in Header
    <3>1. Locked \in Header
      BY LockedFacts DEF TypeInv
    <3>2. /\ [Locked.pidOf EXCEPT ![e] = Home[w]] \in [Entry -> Process \cup {NoProcess}]
          /\ [Locked.count EXCEPT ![e] = @ + 1] \in [Entry -> Nat]
      BY <3>1 DEF Header
    <3>3. QED
      BY <2>1, <3>1, <3>2 DEF TakeSeat, Header
  <2>3. TypeOK'
    <3>1. worker' = [worker EXCEPT ![w].pc = "working", ![w].seat = e]
      BY <2>1 DEF TakeSeat
    <3>2. [worker[w] EXCEPT !.pc = "working", !.seat = e] \in Thread
      BY ThreadUpdates DEF TypeInv, TypeOK
    <3>3. worker' \in [Worker -> Thread]
      BY <3>1, <3>2, Updated DEF TypeInv, TypeOK
    <3>4. QED
      BY <2>1, <2>2, <3>3 DEF TakeSeat, TypeInv, TypeOK
  <2>4. QED
    BY <2>1, <2>3 DEF TakeSeat, TypeInv, TypeOK, Recorded, Reserved, Unrecorded, Thread
<1>19. ASSUME NEW w \in Worker, Refuse(w) PROVE TypeInv'
  <2>1. h' \in Header
    BY <1>19, LockedFacts DEF Refuse, TypeInv, Header
  <2>2. TypeOK'
    BY <1>19, <2>1, IdleTypes DEF Refuse, TypeInv, TypeOK
  <2>3. QED
    BY <1>19, <2>2 DEF Refuse, TypeInv, TypeOK, Recorded, Reserved, Unrecorded, NoWork
<1>20. ASSUME NEW w \in Worker, Perform(w) PROVE TypeInv'
  <2>1. PICK barrier \in BOOLEAN :
          worker' = [worker EXCEPT ![w].pc = "mutated",
                       ![w].made = [op |-> ops + 1, state |-> "done", barrier |-> barrier]]
    BY <1>20 DEF Perform
  <2>2. ops + 1 \in 1..MaxOps
    BY <1>20, BoundAssumption DEF Perform, TypeInv, TypeOK
  <2>3. [op |-> ops + 1, state |-> "done", barrier |-> barrier] \in Batch
    BY <2>2 DEF Batch
  <2>4. TypeOK'
    <3> DEFINE made == [op |-> ops + 1, state |-> "done", barrier |-> barrier]
    <3>1. worker' = [worker EXCEPT ![w].pc = "mutated", ![w].made = made] /\ made \in Batch
      BY <2>1, <2>3
    <3> HIDE DEF made
    <3>2. worker' \in [Worker -> Thread]
      <4>1. [worker[w] EXCEPT !.pc = "mutated", !.made = made] \in Thread
        BY <3>1, ThreadUpdates DEF TypeInv, TypeOK
      <4>2. QED
        BY <3>1, <4>1, Updated DEF TypeInv, TypeOK
    <3>3. ops' \in 0..MaxOps
      BY <1>20, <2>2 DEF Perform
    <3>4. QED
      BY <1>20, <3>2, <3>3 DEF Perform, TypeInv, TypeOK
  <2>5. QED
    BY <1>20, <2>1, <2>3, <2>4
       DEF Perform, TypeInv, TypeOK, Recorded, Reserved, Unrecorded, Thread
<1>21. ASSUME NEW w \in Worker, Publish(w) PROVE TypeInv'
  <2>1. worker[w].made \in Batch
    BY <1>21 DEF Publish, TypeInv, Recorded, Unrecorded
  <2>2. h' \in Header /\ lost' \in BOOLEAN
    BY <1>21, <2>1, AppendFacts DEF Publish, TypeInv
  <2>3. TypeOK'
    <3>1. worker' = [worker EXCEPT ![w].pc = "working", ![w].made = NoBatch]
      BY <1>21 DEF Publish
    <3>2. [worker[w] EXCEPT !.pc = "working", !.made = NoBatch] \in Thread
      BY ThreadUpdates DEF TypeInv, TypeOK
    <3>3. worker' \in [Worker -> Thread]
      BY <3>1, <3>2, Updated DEF TypeInv, TypeOK
    <3>4. QED
      BY <1>21, <2>2, <3>3 DEF Publish, TypeInv, TypeOK
  <2>4. QED
    BY <1>21, <2>3 DEF Publish, TypeInv, TypeOK, Recorded, Reserved, Unrecorded, Thread
<1>22. ASSUME NEW w \in Worker, PublishFails(w) PROVE TypeInv'
  <2>1. AsBarrier(worker[w].made) \in Batch
    BY <1>22, BatchFacts DEF PublishFails, TypeInv, Recorded, Unrecorded
  <2>2. h' \in Header /\ lost' \in BOOLEAN
    BY <1>22, <2>1, AppendFacts DEF PublishFails, TypeInv, TypeOK
  <2>3. TypeOK'
    BY <1>22, <2>2 DEF PublishFails, TypeInv, TypeOK, Thread
  <2>4. QED
    BY <1>22, <2>3 DEF PublishFails, TypeInv, TypeOK, Recorded, Reserved, Unrecorded, Thread
<1>23. ASSUME NEW w \in Worker, Leave(w) PROVE TypeInv'
  <2>1. h' \in Header
    <3>1. Locked \in Header
      BY LockedFacts DEF TypeInv
    <3> DEFINE e == worker[w].seat
               left == IF Locked.count[e] > 0 THEN Locked.count[e] - 1 ELSE Locked.count[e]
    <3>2. e \in Entry => left \in Nat
      BY <3>1 DEF Header
    <3>3. h' = [Locked EXCEPT !.count[e] = left]
      BY <1>23 DEF Leave
    <3> HIDE DEF e, left
    <3>4. [Locked.count EXCEPT ![e] = left] \in [Entry -> Nat]
      BY <3>1, <3>2 DEF Header
    <3>5. QED
      BY <3>1, <3>3, <3>4 DEF Header
  <2>2. TypeOK'
    BY <1>23, <2>1, IdleTypes DEF Leave, TypeInv, TypeOK, Thread
  <2>3. QED
    BY <1>23, <2>2 DEF Leave, TypeInv, TypeOK, Recorded, Reserved, Unrecorded, Thread, NoWork
<1>24. ASSUME NEW w \in Worker, LateBarrier(w) PROVE TypeInv'
  <2>1. AsBarrier(worker[w].made) \in Batch
    BY <1>24, BatchFacts DEF LateBarrier, TypeInv, Recorded, Unrecorded
  <2>2. h' \in Header /\ lost' \in BOOLEAN
    BY <1>24, <2>1, AppendFacts DEF LateBarrier, TypeInv
  <2>3. TypeOK'
    BY <1>24, <2>2, IdleTypes DEF LateBarrier, TypeInv, TypeOK
  <2>4. QED
    BY <1>24, <2>3 DEF LateBarrier, TypeInv, TypeOK, Recorded, Reserved, Unrecorded, NoWork
<1>25. ASSUME NEW w \in Worker, CutAdmit(w) PROVE TypeInv'
  <2>1. h' \in Header
    <3>1. PICK e \in Entry, counted \in {0, 1} :
            h' = [Locked EXCEPT !.pidOf[e] = Home[w], !.count[e] = @ + counted, !.abandoned = TRUE]
      BY <1>25 DEF CutAdmit
    <3>2. QED
      <4>1. Locked \in Header
        BY LockedFacts DEF TypeInv
      <4>2. /\ [Locked.pidOf EXCEPT ![e] = Home[w]] \in [Entry -> Process \cup {NoProcess}]
            /\ [Locked.count EXCEPT ![e] = @ + counted] \in [Entry -> Nat]
        BY <4>1 DEF Header
      <4>3. QED
        BY <3>1, <4>1, <4>2 DEF Header
  <2>2. QED
    BY <1>25, <2>1, EndType DEF CutAdmit
<1>26. ASSUME NEW w \in Worker, CutAppend(w) PROVE TypeInv'
  <2>1. worker[w].made \in Batch
    BY <1>26 DEF CutAppend, TypeInv, Recorded, Unrecorded
  <2>2. PICK u \in Seq(Slot), r \in Seq(Slot), c \in [Slot -> Batch \cup {NoBatch}] :
          h' = [h EXCEPT !.undo = u, !.redo = r, !.content = c,
                         !.abandoned = TRUE, !.dirty = TRUE]
    <3>1. /\ Kept \in Seq(Slot) /\ <<>> \in Seq(Slot)
          /\ h.undo \in Seq(Slot) /\ h.redo \in Seq(Slot)
          /\ \A slot \in Slot : Append(Kept, slot) \in Seq(Slot)
      BY AppendParts, EmptySeq DEF TypeInv, TypeOK, Header
    <3>2. /\ Spare \in [Slot -> Batch \cup {NoBatch}]
          /\ \A S : Released(S) \in [Slot -> Batch \cup {NoBatch}]
          /\ \A slot \in Slot :
               [Spare EXCEPT ![slot] = worker[w].made] \in [Slot -> Batch \cup {NoBatch}]
      BY <2>1, AppendParts DEF TypeInv
    <3>3. QED
      BY <1>26, <3>1, <3>2 DEF CutAppend, AppendPrefixes
  <2>3. h' \in Header
    BY <2>2 DEF TypeInv, TypeOK, Header
  <2>4. QED
    BY <1>26, <2>3, EndType DEF CutAppend
<1>27. ASSUME NEW w \in Worker, Bypass(w) PROVE TypeInv'
  <2> DEFINE made == [op |-> ops + 1, state |-> "done", barrier |-> TRUE]
  <2>1. ops + 1 \in 1..MaxOps
    BY <1>27, BoundAssumption DEF Bypass, TypeInv, TypeOK
  <2>2. made \in Batch
    BY <2>1 DEF Batch
  <2>3. worker' = [worker EXCEPT ![w] = [NoWork EXCEPT !.pc = "late", !.made = made]]
    BY <1>27 DEF Bypass
  <2> HIDE DEF made
  <2>4. worker' \in [Worker -> Thread]
    BY <2>2, <2>3, IdleTypes DEF TypeInv, TypeOK, Thread
  <2>5. TypeOK'
    BY <1>27, <2>1, <2>4 DEF Bypass, TypeInv, TypeOK
  <2>6. QED
    BY <1>27, <2>2, <2>3, <2>5
       DEF Bypass, TypeInv, TypeOK, Recorded, Reserved, Unrecorded, NoWork
<1>28. CASE UNCHANGED vars
  BY <1>28 DEF vars, TypeInv, TypeOK, Recorded, Reserved, Unrecorded
<1>29. QED
  BY <1>1, <1>2, <1>3, <1>4, <1>5, <1>6, <1>7, <1>8, <1>9, <1>10, <1>11, <1>12, <1>13, <1>14,
     <1>15, <1>16, <1>17, <1>18, <1>19, <1>20, <1>21, <1>22, <1>23, <1>24, <1>25, <1>26,
     <1>27, <1>28
     DEF Next, WorkerStep, ReplayStep

(***************************************************************************)
(* Whatever the processes do, and however they end, every variable keeps   *)
(* its type: in particular the slots that take, append and commit handle   *)
(* are slots of the header.                                                *)
(***************************************************************************)
THEOREM TypesHold == Spec => []TypeOK
<1>1. TypeInv => TypeOK
  BY DEF TypeInv
<1>2. QED
  BY <1>1, TypeInit, TypeStep, PTL DEF Spec

-----------------------------------------------------------------------------
(***************************************************************************)
(* Exclusion.  ReplayExclusive is not inductive: that a grant finds nobody *)
(* at work follows from the counts in the header only while every admitted *)
(* thread sits at an entry that names its own process and counts it, and   *)
(* that an admission finds no replay only while the header names whoever   *)
(* holds a reservation.  Both survive the sweep of busy and the repair of  *)
(* the lock because the threads of dead processes are gone.                *)
(***************************************************************************)
Seated(e) == {w \in Worker : Admitted(w) /\ worker[w].seat = e}

ThreadsLive ==
  /\ \A p \in Process : replay[p].pc # "idle" => Up(p)
  /\ \A w \in Worker : worker[w].pc # "idle" => Up(Home[w])
ReservationNamed == \A p \in Process : Reserved(p) => h.replayPid = p
SeatsNamed ==
  \A w \in Worker : Admitted(w) =>
    worker[w].seat \in Entry /\ h.pidOf[worker[w].seat] = Home[w]
SeatsCounted == \A e \in Entry : Cardinality(Seated(e)) <= h.count[e]

ExclusionInv ==
  /\ TypeInv /\ ThreadsLive /\ ReservationNamed
  /\ SeatsNamed /\ SeatsCounted /\ ReplayExclusive

LEMMA SeatedFinite ==
  ASSUME NEW e
  PROVE  IsFiniteSet(Seated(e)) /\ Cardinality(Seated(e)) \in Nat
BY WorkerAssumption, FS_Subset, FS_CardinalityType DEF Seated

LEMMA ExclusionInit == Init => ExclusionInv
<1>. SUFFICES ASSUME Init PROVE ExclusionInv
  OBVIOUS
<1>1. TypeInv
  BY TypeInit
<1>2. /\ \A p \in Process : ~Reserved(p) /\ replay[p].pc = "idle"
      /\ \A w \in Worker : ~Admitted(w) /\ worker[w].pc = "idle"
  BY DEF Init, Reserved, Admitted, NoReplay, NoWork
<1>3. SeatsCounted
  <2>1. \A e \in Entry : Seated(e) = {}
    BY <1>2 DEF Seated
  <2>2. \A e \in Entry : Cardinality(Seated(e)) = 0
    BY <2>1, FS_EmptySet
  <2>3. \A e \in Entry : h.count[e] \in Nat
    BY <1>1 DEF TypeInv, TypeOK, Header
  <2>4. QED
    BY <2>2, <2>3 DEF SeatsCounted
<1>4. QED
  BY <1>1, <1>2, <1>3 DEF ExclusionInv, ThreadsLive, ReservationNamed, SeatsNamed, ReplayExclusive

LEMMA SeatedNotStale ==
  ASSUME ExclusionInv, NEW e \in Entry, Seated(e) # {}
  PROVE  h.count[e] > 0 /\ Up(h.pidOf[e]) /\ h.pidOf[e] \in Process /\ e \notin Stale
<1>1. PICK w \in Worker : Admitted(w) /\ worker[w].seat = e
  BY DEF Seated
<1>2. h.pidOf[e] = Home[w] /\ Home[w] \in Process /\ Up(Home[w])
  BY <1>1, HomeAssumption DEF ExclusionInv, SeatsNamed, ThreadsLive, Admitted
<1>3. Cardinality(Seated(e)) # 0
  BY SeatedFinite, FS_EmptySet
<1>4. h.count[e] > 0
  BY <1>3, SeatedFinite DEF ExclusionInv, SeatsCounted, TypeInv, TypeOK, Header
<1>5. QED
  BY <1>2, <1>4 DEF Stale, Dead

LEMMA ReservationStays ==
  ASSUME ExclusionInv, NEW p \in Process, Reserved(p)
  PROVE  h.replayPid = p /\ Locked.replayPid = p /\ p # NoProcess
<1>1. h.replayPid = p /\ Up(p)
  BY DEF ExclusionInv, ReservationNamed, ThreadsLive, Reserved
<1>2. Locked.replayPid = h.replayPid
  BY <1>1, LockedFacts DEF OwnerDead, Dead, ExclusionInv, TypeInv
<1>3. QED
  BY <1>1, <1>2, ProcessAssumption

\* A step that admits nobody and grants nothing keeps the invariant when it
\* leaves the entries of admitted threads and the owner of a reservation.
LEMMA Carried ==
  ASSUME ExclusionInv, TypeInv', ThreadsLive',
         \A w \in Worker : Admitted(w)' => Admitted(w) /\ worker'[w].seat = worker[w].seat,
         \A e \in Entry : Seated(e) # {} =>
           h'.pidOf[e] = h.pidOf[e] /\ h.count[e] <= h'.count[e],
         \A p \in Process : Reserved(p)' => Reserved(p) /\ h'.replayPid = p
  PROVE  ExclusionInv'
<1>1. ReservationNamed'
  BY DEF ReservationNamed
<1>2. SeatsNamed'
  BY DEF SeatsNamed, ExclusionInv, Seated
<1>3. SeatsCounted'
  <2>. SUFFICES ASSUME NEW e \in Entry PROVE Cardinality(Seated(e)') <= h'.count[e]
    BY DEF SeatsCounted
  <2>1. Seated(e)' \subseteq Seated(e)
    BY DEF Seated
  <2>2. /\ Cardinality(Seated(e)') <= Cardinality(Seated(e))
        /\ Cardinality(Seated(e)') \in Nat /\ Cardinality(Seated(e)) \in Nat
    BY <2>1, SeatedFinite, FS_Subset, FS_CardinalityType
  <2>3. h.count[e] \in Nat /\ h'.count[e] \in Nat
    BY DEF ExclusionInv, TypeInv, TypeOK, Header
  <2>4. CASE Seated(e) = {}
    <3>1. Seated(e)' = {}
      BY <2>1, <2>4
    <3>2. Cardinality(Seated(e)') = 0
      BY <3>1, FS_EmptySet
    <3>3. QED
      BY <2>3, <3>2
  <2>5. CASE Seated(e) # {}
    BY <2>2, <2>3, <2>5 DEF ExclusionInv, SeatsCounted
  <2>6. QED
    BY <2>4, <2>5
<1>4. ReplayExclusive'
  BY DEF ExclusionInv, ReplayExclusive
<1>5. QED
  BY <1>1, <1>2, <1>3, <1>4 DEF ExclusionInv

\* The end of a process takes its threads along and admits nobody.
LEMMA ExclusionEnd ==
  ASSUME ExclusionInv, TypeInv', NEW p \in Process, End(p),
         \A e \in Entry : Seated(e) # {} =>
           h'.pidOf[e] = h.pidOf[e] /\ h.count[e] <= h'.count[e],
         \A q \in Process : Reserved(q) => h'.replayPid = h.replayPid \/ h'.replayPid = Locked.replayPid
  PROVE  ExclusionInv'
<1>1. ThreadsLive'
  BY HomeAssumption
     DEF End, ExclusionInv, TypeInv, TypeOK, ThreadsLive, Up, NoReplay, NoWork
<1>2. \A w \in Worker : Admitted(w)' => Admitted(w) /\ worker'[w].seat = worker[w].seat
  BY DEF End, Admitted, NoWork
<1>3. \A q \in Process : Reserved(q)' => Reserved(q) /\ h'.replayPid = q
  <2>1. \A q \in Process : Reserved(q)' => Reserved(q)
    BY DEF End, ExclusionInv, TypeInv, TypeOK, Reserved, NoReplay
  <2>2. QED
    BY <2>1, ReservationStays
<1>4. QED
  BY <1>1, <1>2, <1>3, Carried

LEMMA ExclusionStep == ExclusionInv /\ [Next]_vars => ExclusionInv'
<1>. SUFFICES ASSUME ExclusionInv, [Next]_vars PROVE ExclusionInv'
  OBVIOUS
<1>. USE HomeAssumption
<1>a. TypeInv' /\ TypeInv /\ TypeOK
  BY TypeStep DEF ExclusionInv, TypeInv
<1>b. /\ Locked.pidOf = h.pidOf /\ Locked.count = h.count
      /\ Swept.replayPid = Locked.replayPid
      /\ \A e \in Entry : Seated(e) # {} =>
           Swept.pidOf[e] = h.pidOf[e] /\ Swept.count[e] = h.count[e]
      /\ Locked \in Header /\ Swept \in Header
  BY <1>a, LockedFacts, SweptFacts, SeatedNotStale
<1>c. \A e \in Entry : h.count[e] \in Nat
  BY <1>a DEF TypeOK, Header
<1>1. ASSUME NEW p \in Process, Launch(p) PROVE ExclusionInv'
  <2>1. ThreadsLive'
    BY <1>1, <1>a DEF Launch, ExclusionInv, ThreadsLive, Up, TypeOK
  <2>2. CASE Session
    <3>1. h'.pidOf = h.pidOf /\ h'.count = h.count /\ h'.replayPid = h.replayPid
      BY <1>1, <1>a, <2>2 DEF Launch, TypeOK, Header
    <3>2. QED
      BY <1>1, <1>a, <1>c, <2>1, <3>1, Carried, ReservationStays DEF Launch, Admitted, Reserved
  <2>3. CASE ~Session
    <3>1. /\ \A q \in Process : ~Reserved(q)'
          /\ \A w \in Worker : ~Admitted(w) /\ ~Admitted(w)'
      BY <1>1, <2>3 DEF Launch, Session, ExclusionInv, ThreadsLive, Reserved, Admitted
    <3>2. \A e \in Entry : Seated(e) = {}
      BY <3>1 DEF Seated
    <3>3. QED
      BY <1>a, <2>1, <3>1, <3>2, Carried
  <2>4. QED
    BY <2>2, <2>3
<1>2. ASSUME NEW p \in Process, QueueReplay(p) PROVE ExclusionInv'
  <2>1. ThreadsLive'
    BY <1>2, <1>a DEF QueueReplay, ExclusionInv, ThreadsLive, Up, TypeOK
  <2>2. \A q \in Process : Reserved(q)' => Reserved(q)
    BY <1>2, <1>a DEF QueueReplay, Reserved, TypeOK
  <2>3. QED
    BY <1>2, <1>a, <1>b, <1>c, <2>1, <2>2, Carried, ReservationStays DEF QueueReplay, Admitted
<1>3. ASSUME NEW p \in Process, DropCommand(p) PROVE ExclusionInv'
  <2>1. ThreadsLive'
    BY <1>3, <1>a DEF DropCommand, ExclusionInv, ThreadsLive, Up, TypeOK, NoReplay
  <2>2. \A q \in Process : Reserved(q)' => Reserved(q)
    BY <1>3, <1>a DEF DropCommand, Reserved, TypeOK, NoReplay
  <2>3. QED
    BY <1>3, <1>a, <1>c, <2>1, <2>2, Carried, ReservationStays DEF DropCommand, Admitted
<1>4. ASSUME NEW p \in Process, NEW way \in {"undo", "redo"}, Ask(p, way) PROVE ExclusionInv'
  <2>1. ThreadsLive'
    BY <1>4, <1>a DEF Ask, ExclusionInv, ThreadsLive, Up, TypeOK
  <2>2. \A q \in Process : Reserved(q)' => Reserved(q)
    <3> DEFINE asked == [NoReplay EXCEPT !.pc = "asked", !.way = way]
    <3>1. asked.pc = "asked"
      BY DEF NoReplay
    <3>2. replay' = replay \/ replay' = [replay EXCEPT ![p] = asked]
      BY <1>4 DEF Ask
    <3> HIDE DEF asked
    <3>3. QED
      BY <1>a, <3>1, <3>2 DEF Reserved, TypeOK
  <2>3. QED
    BY <1>4, <1>a, <1>b, <1>c, <2>1, <2>2, Carried, ReservationStays DEF Ask, Admitted
<1>5. ASSUME NEW p \in Process, AwaitExclusive(p) \/ EnterExclusive(p) PROVE ExclusionInv'
  <2>1. ThreadsLive'
    BY <1>5, <1>a DEF AwaitExclusive, EnterExclusive, ExclusionInv, ThreadsLive, Up, TypeOK
  <2>2. \A q \in Process : Reserved(q)' => Reserved(q)
    BY <1>5, <1>a DEF AwaitExclusive, EnterExclusive, Reserved, TypeOK, Command
  <2>3. QED
    BY <1>5, <1>a, <1>c, <2>1, <2>2, Carried, ReservationStays DEF AwaitExclusive, EnterExclusive, Admitted
<1>6. ASSUME NEW p \in Process, Take(p) PROVE ExclusionInv'
  <2>1. /\ Locked.replayPid = NoProcess
        /\ \A e \in Entry : h.count[e] > 0 => Dead(h.pidOf[e])
    BY <1>6 DEF Take, Grantable, Busy
  <2>2. \A q \in Process : ~Reserved(q)
    BY <2>1, ReservationStays
  <2>3. \A e \in Entry : Seated(e) = {}
    BY <2>1, SeatedNotStale DEF Dead
  <2>4. \A w \in Worker : ~Admitted(w)
    BY <2>3 DEF ExclusionInv, SeatsNamed, Seated
  <2>5. \A q \in Process : Reserved(q)' => q = p
    <3>1. \A q \in Process : q # p => replay'[q] = replay[q]
      BY <1>6, <1>a DEF Take, TypeOK
    <3>2. QED
      BY <2>2, <3>1 DEF Reserved
  <2>6. h'.replayPid = p
    BY <1>6, <1>b DEF Take, Header
  <2>7. worker' = worker
    BY <1>6 DEF Take
  <2>8. ThreadsLive'
    BY <1>6, <1>a DEF Take, ExclusionInv, ThreadsLive, Up, TypeOK
  <2>9. \A w \in Worker : ~Admitted(w)'
    BY <2>4, <2>7 DEF Admitted
  <2>10. SeatsCounted'
    <3>1. \A e \in Entry : Seated(e)' = {}
      BY <2>9 DEF Seated
    <3>2. \A e \in Entry : Cardinality(Seated(e)') = 0
      BY <3>1, FS_EmptySet
    <3>3. \A e \in Entry : h'.count[e] \in Nat
      BY <1>a DEF TypeInv, TypeOK, Header
    <3>4. QED
      BY <3>2, <3>3 DEF SeatsCounted
  <2>11. QED
    BY <1>a, <2>5, <2>6, <2>8, <2>9, <2>10
       DEF ExclusionInv, ReservationNamed, SeatsNamed, ReplayExclusive
<1>7. ASSUME NEW p \in Process, TakeRefused(p) PROVE ExclusionInv'
  <2>1. ThreadsLive'
    BY <1>7, <1>a DEF TakeRefused, ExclusionInv, ThreadsLive, Up, TypeOK, NoReplay
  <2>2. \A q \in Process : Reserved(q)' => Reserved(q)
    BY <1>7, <1>a DEF TakeRefused, Reserved, TypeOK, NoReplay
  <2>3. QED
    BY <1>7, <1>a, <1>b, <1>c, <2>1, <2>2, Carried, ReservationStays DEF TakeRefused, Admitted
<1>8. ASSUME NEW p \in Process, Replay(p) PROVE ExclusionInv'
  <2>1. PICK batch, complete :
          replay' = [replay EXCEPT ![p].pc = "replayed", ![p].batch = batch,
                                   ![p].complete = complete]
    BY <1>8 DEF Replay
  <2>2. ThreadsLive'
    BY <1>8, <1>a, <2>1 DEF Replay, ExclusionInv, ThreadsLive, Up, TypeOK
  <2>3. \A q \in Process : Reserved(q)' => Reserved(q)
    BY <1>8, <1>a, <2>1 DEF Replay, Reserved, TypeOK
  <2>4. QED
    BY <1>8, <1>a, <1>c, <2>2, <2>3, Carried, ReservationStays DEF Replay, Admitted
<1>9. ASSUME NEW p \in Process, Commit(p) \/ Abandon(p) PROVE ExclusionInv'
  <2>1. Reserved(p) /\ replay' = [replay EXCEPT ![p] = NoReplay] /\ UNCHANGED <<state, worker>>
    BY <1>9 DEF Commit, Abandon, Reserved
  <2>2. h'.pidOf = h.pidOf /\ h'.count = h.count
    <3>1. CASE Commit(p)
      BY <1>b, <3>1 DEF Commit, Header
    <3>2. CASE Abandon(p)
      BY <1>b, <3>2 DEF Abandon, Header
    <3>3. QED
      BY <1>9, <3>1, <3>2
  <2>3. \A q \in Process : ~Reserved(q)'
    BY <2>1, <1>a DEF ExclusionInv, ReplayExclusive, Reserved, TypeOK, NoReplay
  <2>4. ThreadsLive'
    BY <2>1, <1>a DEF ExclusionInv, ThreadsLive, Up, TypeOK, NoReplay
  <2>5. QED
    BY <1>a, <1>c, <2>1, <2>2, <2>3, <2>4, Carried DEF Admitted
<1>10. ASSUME NEW p \in Process, Die(p) PROVE ExclusionInv'
  BY <1>10, <1>a, <1>c, ExclusionEnd DEF Die
<1>11. ASSUME NEW p \in Process, CutShort(p) PROVE ExclusionInv'
  <2>1. h'.pidOf = h.pidOf /\ h'.count = h.count /\ h'.replayPid = h.replayPid
    BY <1>11, <1>a DEF CutShort, TypeOK, Header
  <2>2. QED
    BY <1>11, <1>a, <1>c, <2>1, ExclusionEnd DEF CutShort
<1>12. ASSUME NEW p \in Process, CutTake(p) PROVE ExclusionInv'
  <2>1. h'.pidOf = Swept.pidOf /\ h'.count = Swept.count
    BY <1>12, <1>b DEF CutTake, Header
  <2>2. \A q \in Process : ~Reserved(q)
    BY <1>12, ReservationStays DEF CutTake, Grantable, Busy
  <2>3. QED
    BY <1>12, <1>a, <1>b, <1>c, <2>1, <2>2, ExclusionEnd DEF CutTake
<1>13. ASSUME NEW p \in Process, CutCommit(p) PROVE ExclusionInv'
  <2>1. h'.pidOf = h.pidOf /\ h'.count = h.count /\ h'.replayPid = h.replayPid
    BY <1>13, <1>a DEF CutCommit, TypeOK, Header
  <2>2. QED
    BY <1>13, <1>a, <1>c, <2>1, ExclusionEnd DEF CutCommit
<1>14. ASSUME NEW w \in Worker, CutAdmit(w) PROVE ExclusionInv'
  <2>1. PICK e \in Entry, counted \in {0, 1} :
          /\ IsSeatFor(Home[w], e)
          /\ h' = [Locked EXCEPT !.pidOf[e] = Home[w], !.count[e] = @ + counted,
                                 !.abandoned = TRUE]
    BY <1>14 DEF CutAdmit
  <2>2. /\ h'.replayPid = Locked.replayPid
        /\ h'.pidOf = [h.pidOf EXCEPT ![e] = Home[w]]
        /\ h'.count = [h.count EXCEPT ![e] = @ + counted]
    BY <2>1, <1>b DEF Header
  <2>3. Seated(e) # {} => h.pidOf[e] = Home[w]
    BY <2>1, SeatedNotStale DEF IsSeatFor, IsLeast, Own, Vacant
  <2>4. \A f \in Entry : Seated(f) # {} =>
          h'.pidOf[f] = h.pidOf[f] /\ h.count[f] <= h'.count[f]
    BY <1>a, <1>c, <2>2, <2>3 DEF TypeOK, Header
  <2>5. QED
    BY <1>14, <1>a, <2>2, <2>4, ExclusionEnd DEF CutAdmit
<1>15. ASSUME NEW w \in Worker, CutAppend(w) PROVE ExclusionInv'
  <2>1. h'.pidOf = h.pidOf /\ h'.count = h.count /\ h'.replayPid = h.replayPid
    <3>1. h \in Header
      BY <1>a DEF TypeOK
    <3>2. \A x \in AppendPrefixes(worker[w].made) :
            x.pidOf = h.pidOf /\ x.count = h.count /\ x.replayPid = h.replayPid
      <4> DEFINE Torn(u, r, c) == [h EXCEPT !.undo = u, !.redo = r, !.content = c,
                                           !.abandoned = TRUE, !.dirty = TRUE]
      <4>1. \A u, r, c : /\ Torn(u, r, c).pidOf = h.pidOf /\ Torn(u, r, c).count = h.count
                         /\ Torn(u, r, c).replayPid = h.replayPid
        BY <3>1 DEF Header
      <4>2. \A x \in AppendPrefixes(worker[w].made) : \E u, r, c : x = Torn(u, r, c)
        BY DEF AppendPrefixes
      <4> HIDE DEF Torn
      <4>3. QED
        BY <4>1, <4>2
    <3>3. QED
      BY <1>15, <3>2 DEF CutAppend
  <2>2. QED
    BY <1>15, <1>a, <1>c, <2>1, ExclusionEnd DEF CutAppend
<1>16. ASSUME NEW w \in Worker,
              StartWorker(w) \/ Bypass(w) \/ EnterShared(w) \/ \E o \in Worker : StartNested(w, o)
       PROVE ExclusionInv'
  <2>1. UNCHANGED <<h, state, replay>>
    BY <1>16 DEF StartWorker, Bypass, EnterShared, StartNested
  <2>2. Up(Home[w])
    BY <1>16 DEF StartWorker, Bypass, EnterShared, StartNested, ExclusionInv, ThreadsLive
  <2>3. ThreadsLive'
    BY <1>16, <1>a, <2>1, <2>2
       DEF StartWorker, Bypass, EnterShared, StartNested, ExclusionInv, ThreadsLive, Up, TypeOK
  <2>4. \A x \in Worker : Admitted(x)' => Admitted(x) /\ worker'[x].seat = worker[x].seat
    <3>1. \A x \in Worker \ {w} : worker'[x] = worker[x]
      BY <1>16, <1>a DEF StartWorker, Bypass, EnterShared, StartNested, TypeOK
    <3>2. worker'[w].pc \in {"starting", "admitting", "late"}
      <4>1. ASSUME StartWorker(w) \/ EnterShared(w)
            PROVE  worker'[w].pc \in {"starting", "admitting", "late"}
        BY <4>1, <1>a DEF StartWorker, EnterShared, NoWork, TypeOK, Thread
      <4>2. ASSUME Bypass(w) \/ \E o \in Worker : StartNested(w, o)
            PROVE  worker'[w].pc \in {"starting", "admitting", "late"}
        <5>1. worker'[w].pc = "late" \/ worker'[w].pc = "admitting"
          <6>1. CASE Bypass(w)
            BY <6>1, <1>a DEF Bypass, NoWork, TypeOK
          <6>2. CASE \E o \in Worker : StartNested(w, o)
            BY <6>2, <1>a DEF StartNested, NoWork, TypeOK
          <6>3. QED
            BY <4>2, <6>1, <6>2
        <5>2. QED
          BY <5>1
      <4>3. QED
        BY <1>16, <4>1, <4>2
    <3>3. QED
      BY <3>1, <3>2 DEF Admitted
  <2>5. QED
    BY <1>a, <1>c, <2>1, <2>3, <2>4, Carried, ReservationStays DEF Reserved
<1>17. ASSUME NEW w \in Worker, Admit(w) PROVE ExclusionInv'
  <2>1. PICK e \in Entry :
          /\ IsSeatFor(Home[w], e)
          /\ TakeSeat(w, e, [Locked EXCEPT !.pidOf[e] = Home[w], !.count[e] = @ + 1])
    BY <1>17 DEF Admit
  <2>2. /\ h'.pidOf = [h.pidOf EXCEPT ![e] = Home[w]]
        /\ h'.count = [h.count EXCEPT ![e] = @ + 1]
    BY <2>1, <1>b DEF TakeSeat, Header
  <2>3. worker' = [worker EXCEPT ![w].pc = "working", ![w].seat = e]
        /\ UNCHANGED <<state, replay>> /\ worker[w].pc = "admitting"
    BY <1>17, <2>1 DEF TakeSeat, Admit
  <2>4. \A p \in Process : ~Reserved(p) /\ ~Reserved(p)'
    BY <1>17, <2>3, ReservationStays DEF Admit, Reserved
  <2>5. Seated(e) # {} => h.pidOf[e] = Home[w]
    BY <2>1, SeatedNotStale DEF IsSeatFor, IsLeast, Own, Vacant
  <2>6. \A x \in Worker \ {w} :
          (Admitted(x)' <=> Admitted(x)) /\ worker'[x].seat = worker[x].seat
    BY <2>3, <1>a DEF Admitted, TypeOK
  <2>7. ~Admitted(w) /\ Admitted(w)' /\ worker'[w].seat = e
    BY <2>3, <1>a DEF Admitted, TypeOK, Thread
  <2>8. ThreadsLive'
    BY <2>3, <1>a DEF ExclusionInv, ThreadsLive, Up, TypeOK
  <2>9. SeatsNamed'
    <3>1. ASSUME NEW x \in Worker, x # w, Admitted(x)'
          PROVE  worker'[x].seat \in Entry /\ h'.pidOf[worker'[x].seat] = Home[x]
      <4>1. worker[x].seat \in Entry /\ h.pidOf[worker[x].seat] = Home[x]
            /\ worker'[x].seat = worker[x].seat
        BY <2>6, <3>1 DEF ExclusionInv, SeatsNamed
      <4>2. worker[x].seat = e => h.pidOf[e] = Home[w]
        BY <2>5, <2>6, <3>1 DEF Seated
      <4>3. QED
        BY <1>a, <2>2, <4>1, <4>2 DEF TypeOK, Header
    <3>2. h'.pidOf[e] = Home[w]
      BY <1>a, <2>2 DEF TypeOK, Header
    <3>3. QED
      BY <2>7, <3>1, <3>2 DEF SeatsNamed
  <2>10. SeatsCounted'
    <3>1. ASSUME NEW f \in Entry, f # e PROVE Cardinality(Seated(f)') <= h'.count[f]
      <4>1. Seated(f)' = Seated(f)
        BY <2>6, <2>7, <3>1 DEF Seated
      <4>2. h'.count[f] = h.count[f]
        BY <1>a, <2>2, <3>1 DEF TypeOK, Header
      <4>3. QED
        BY <4>1, <4>2 DEF ExclusionInv, SeatsCounted
    <3>2. Cardinality(Seated(e)') <= h'.count[e]
      <4>1. Seated(e)' = Seated(e) \cup {w} /\ w \notin Seated(e)
        BY <2>6, <2>7 DEF Seated
      <4>2. Cardinality(Seated(e)') = Cardinality(Seated(e)) + 1
        BY <4>1, SeatedFinite, FS_AddElement
      <4>3. h'.count[e] = h.count[e] + 1
        BY <1>a, <2>2 DEF TypeOK, Header
      <4>4. QED
        BY <1>c, <4>2, <4>3, SeatedFinite DEF ExclusionInv, SeatsCounted
    <3>3. QED
      BY <3>1, <3>2 DEF SeatsCounted
  <2>11. QED
    BY <1>a, <2>4, <2>8, <2>9, <2>10 DEF ExclusionInv, ReservationNamed, ReplayExclusive
<1>18. ASSUME NEW w \in Worker, Refuse(w) PROVE ExclusionInv'
  <2>1. h'.pidOf = h.pidOf /\ h'.count = h.count /\ h'.replayPid = Locked.replayPid
    BY <1>18, <1>b DEF Refuse, Header
  <2>2. ThreadsLive'
    BY <1>18, <1>a DEF Refuse, ExclusionInv, ThreadsLive, Up, TypeOK, NoWork
  <2>3. \A x \in Worker : Admitted(x)' => Admitted(x) /\ worker'[x].seat = worker[x].seat
    BY <1>18, <1>a DEF Refuse, Admitted, NoWork, TypeOK
  <2>4. QED
    BY <1>18, <1>a, <1>c, <2>1, <2>2, <2>3, Carried, ReservationStays DEF Refuse, Reserved
<1>19. ASSUME NEW w \in Worker, Perform(w) PROVE ExclusionInv'
  <2>1. PICK made : worker' = [worker EXCEPT ![w].pc = "mutated", ![w].made = made]
    BY <1>19 DEF Perform
  <2>2. worker[w].pc = "working" /\ UNCHANGED <<h, state, replay>>
    BY <1>19 DEF Perform
  <2>3. ThreadsLive'
    BY <2>1, <2>2, <1>a DEF ExclusionInv, ThreadsLive, Up, TypeOK
  <2>4. \A x \in Worker : Admitted(x)' => Admitted(x) /\ worker'[x].seat = worker[x].seat
    BY <2>1, <2>2, <1>a DEF Admitted, TypeOK, Thread
  <2>5. QED
    BY <1>a, <1>c, <2>2, <2>3, <2>4, Carried, ReservationStays DEF Reserved
<1>20. ASSUME NEW w \in Worker, Publish(w) \/ PublishFails(w) \/ LateBarrier(w)
       PROVE ExclusionInv'
  <2>1. /\ worker[w].made \in Batch /\ AsBarrier(worker[w].made) \in Batch
        /\ worker[w].pc \in {"mutated", "late"}
    BY <1>20, <1>a, BatchFacts
       DEF Publish, PublishFails, LateBarrier, TypeInv, Recorded, Unrecorded
  <2>2. /\ h'.pidOf = h.pidOf /\ h'.count = h.count
        /\ h'.replayPid = Locked.replayPid \/ h'.replayPid = h.replayPid
    BY <1>20, <1>a, <2>1, AppendFacts DEF Publish, PublishFails, LateBarrier
  <2>3. UNCHANGED <<state, replay>>
    BY <1>20 DEF Publish, PublishFails, LateBarrier
  <2>4. ThreadsLive'
    BY <1>20, <1>a, <2>3
       DEF Publish, PublishFails, LateBarrier, ExclusionInv, ThreadsLive, Up, TypeOK, NoWork
  <2>5. \A x \in Worker : Admitted(x)' => Admitted(x) /\ worker'[x].seat = worker[x].seat
    BY <1>20, <1>a
       DEF Publish, PublishFails, LateBarrier, Admitted, TypeOK, Thread, NoWork
  <2>6. QED
    BY <1>a, <1>c, <2>2, <2>3, <2>4, <2>5, Carried, ReservationStays DEF Reserved
<1>21. ASSUME NEW w \in Worker, Leave(w) PROVE ExclusionInv'
  <2>1. PICK e \in Entry :
          Admitted(w) /\ e = worker[w].seat /\ UNCHANGED <<state, replay>>
    BY <1>21 DEF Leave, Admitted, ExclusionInv, SeatsNamed
  <2>2. h.count[e] > 0
    BY <2>1, SeatedNotStale DEF Seated
  <2>3. /\ h'.replayPid = Locked.replayPid /\ h'.pidOf = h.pidOf
        /\ h'.count = [h.count EXCEPT ![e] = @ - 1]
    BY <1>21, <1>b, <2>1, <2>2 DEF Leave, Header
  <2>4. /\ ~Admitted(w)'
        /\ \A x \in Worker \ {w} : worker'[x] = worker[x]
        /\ worker'[w].pc \in {"idle", "late"}
    BY <1>21, <1>a DEF Leave, Admitted, NoWork, TypeOK, Thread
  <2>5. ThreadsLive'
    BY <1>21, <1>a, <2>1, <2>4 DEF Admitted, ExclusionInv, ThreadsLive, Up
  <2>6. SeatsNamed'
    BY <2>3, <2>4 DEF Admitted, ExclusionInv, SeatsNamed
  <2>7. SeatsCounted'
    <3>1. ASSUME NEW f \in Entry, f # e PROVE Cardinality(Seated(f)') <= h'.count[f]
      <4>1. Seated(f)' = Seated(f)
        BY <2>1, <2>4, <3>1 DEF Seated, Admitted
      <4>2. h'.count[f] = h.count[f]
        BY <1>a, <2>3, <3>1 DEF TypeOK, Header
      <4>3. QED
        BY <4>1, <4>2 DEF ExclusionInv, SeatsCounted
    <3>2. Cardinality(Seated(e)') <= h'.count[e]
      <4>1. Seated(e)' = Seated(e) \ {w} /\ w \in Seated(e)
        <5>1. w \in Seated(e) /\ w \notin Seated(e)'
          BY <2>1, <2>4 DEF Seated
        <5>2. \A x \in Worker \ {w} : x \in Seated(e)' <=> x \in Seated(e)
          BY <2>4 DEF Seated, Admitted
        <5>3. Seated(e)' \subseteq Worker /\ Seated(e) \subseteq Worker
          BY DEF Seated
        <5>4. QED
          BY <5>1, <5>2, <5>3
      <4>2. Cardinality(Seated(e)') = Cardinality(Seated(e)) - 1
        BY <4>1, SeatedFinite, FS_RemoveElement
      <4>3. h'.count[e] = h.count[e] - 1
        BY <1>a, <2>1, <2>3 DEF TypeOK, Header
      <4>4. QED
        BY <1>c, <2>1, <4>2, <4>3, SeatedFinite DEF ExclusionInv, SeatsCounted
    <3>3. QED
      BY <3>1, <3>2 DEF SeatsCounted
  <2>8. ReservationNamed'
    BY <2>1, <2>3, ReservationStays DEF ReservationNamed, Reserved
  <2>9. ReplayExclusive'
    BY <2>1, <2>4 DEF ExclusionInv, ReplayExclusive, Reserved, Admitted
  <2>10. QED
    BY <1>a, <2>5, <2>6, <2>7, <2>8, <2>9 DEF ExclusionInv
<1>22. CASE UNCHANGED vars
  <2>1. \A e \in Entry : Seated(e)' = Seated(e)
    BY <1>22 DEF vars, Seated, Admitted
  <2>2. QED
    BY <1>22, <1>a, <2>1
       DEF vars, ExclusionInv, ThreadsLive, ReservationNamed, SeatsNamed, SeatsCounted,
           ReplayExclusive, Reserved, Admitted, Up
<1>23. QED
  BY <1>1, <1>2, <1>3, <1>4, <1>5, <1>6, <1>7, <1>8, <1>9, <1>10, <1>11, <1>12, <1>13, <1>14,
     <1>15, <1>16, <1>17, <1>18, <1>19, <1>20, <1>21, <1>22
     DEF Next, WorkerStep, ReplayStep

(***************************************************************************)
(* Native operations and replays exclude each other in every session, of   *)
(* any number of processes and threads, through crashes at every point,    *)
(* reused process identifiers and recorder failures: while a process holds *)
(* the reservation that take granted, no other holds one and no Activity   *)
(* is admitted in any process.                                             *)
(***************************************************************************)
THEOREM ReplayExcludesWork == Spec => []ReplayExclusive
<1>1. ExclusionInv => ReplayExclusive
  BY DEF ExclusionInv
<1>2. QED
  BY <1>1, ExclusionInit, ExclusionStep, PTL DEF Spec

-----------------------------------------------------------------------------
(***************************************************************************)
(* The two stacks, what a replay finds there and what it may leave behind: *)
(* changes on disk that the history does not know, and batches that a      *)
(* barrier forbids replaying.                                              *)
(***************************************************************************)

(* Stacks as sequences without repetition. *)

LEMMA AppendFactsOf ==
  ASSUME NEW S, NEW s \in Seq(S), NEW x \in S
  PROVE  /\ Append(s, x) \in Seq(S) /\ Append(s, x) # <<>>
         /\ Len(Append(s, x)) = Len(s) + 1
         /\ Top(Append(s, x)) = x
         /\ \A i \in 1..Len(s) : Append(s, x)[i] = s[i]
         /\ Elements(Append(s, x)) = Elements(s) \cup {x}
         /\ Distinct(s) /\ x \notin Elements(s) => Distinct(Append(s, x))
<1>1. /\ Append(s, x) \in Seq(S) /\ Append(s, x) # <<>>
      /\ Len(Append(s, x)) = Len(s) + 1
      /\ Append(s, x)[Len(s) + 1] = x
      /\ \A i \in 1..Len(s) : Append(s, x)[i] = s[i]
  BY AppendProperties
<1>2. Len(s) \in Nat
  BY LenProperties
<1>3. Elements(Append(s, x)) = Elements(s) \cup {x}
  BY <1>1, <1>2 DEF Elements
<1>4. Distinct(s) /\ x \notin Elements(s) => Distinct(Append(s, x))
  BY <1>1, <1>2 DEF Elements, Distinct
<1>5. QED
  BY <1>1, <1>3, <1>4 DEF Top

LEMMA PopFactsOf ==
  ASSUME NEW S, NEW s \in Seq(S), s # <<>>
  PROVE  /\ Pop(s) \in Seq(S) /\ Top(s) \in S
         /\ Len(Pop(s)) = Len(s) - 1
         /\ \A i \in 1..(Len(s) - 1) : Pop(s)[i] = s[i]
         /\ Top(s) \in Elements(s)
         /\ Elements(Pop(s)) \subseteq Elements(s)
         /\ Elements(s) = Elements(Pop(s)) \cup {Top(s)}
         /\ Distinct(s) => Distinct(Pop(s)) /\ Top(s) \notin Elements(Pop(s))
<1>1. Len(s) \in Nat \ {0} /\ \A i \in 1..Len(s) : s[i] \in S
  BY EmptySeq, LenProperties
<1>2. /\ Pop(s) \in Seq(S) /\ Len(Pop(s)) = Len(s) - 1
      /\ \A i \in 1..(Len(s) - 1) : Pop(s)[i] = s[i]
  <2> DEFINE n == Len(s) - 1
  <2>1. n \in Nat /\ \A i \in 1..n : s[i] \in S
    BY <1>1
  <2>2. /\ SubSeq(s, 1, n) \in Seq(S)
        /\ Len(SubSeq(s, 1, n)) = IF 1 <= n THEN n - 1 + 1 ELSE 0
        /\ \A i \in 1..(n - 1 + 1) : SubSeq(s, 1, n)[i] = s[1 + i - 1]
    BY <2>1, SubSeqProperties
  <2>3. Pop(s) = SubSeq(s, 1, n)
    BY DEF Pop
  <2> HIDE DEF n
  <2>4. /\ n - 1 + 1 = n /\ (IF 1 <= n THEN n - 1 + 1 ELSE 0) = n
        /\ \A i \in 1..n : 1 + i - 1 = i
    BY <2>1
  <2>5. Len(Pop(s)) = n /\ \A i \in 1..n : Pop(s)[i] = s[i]
    BY <2>2, <2>3, <2>4
  <2>6. QED
    BY <2>2, <2>3, <2>5 DEF n
<1>3. Top(s) \in S /\ Top(s) \in Elements(s)
  BY <1>1 DEF Top, Elements
<1>4. Elements(s) = Elements(Pop(s)) \cup {Top(s)}
  BY <1>1, <1>2 DEF Elements, Top
<1>5. Distinct(s) => Distinct(Pop(s)) /\ Top(s) \notin Elements(Pop(s))
  BY <1>1, <1>2 DEF Elements, Top, Distinct
<1>6. QED
  BY <1>2, <1>3, <1>4, <1>5

LEMMA TailFactsOf ==
  ASSUME NEW S, NEW s \in Seq(S), s # <<>>
  PROVE  /\ Tail(s) \in Seq(S) /\ s[1] \in S
         /\ Elements(s) = Elements(Tail(s)) \cup {s[1]}
         /\ Distinct(s) => Distinct(Tail(s)) /\ s[1] \notin Elements(Tail(s))
<1>1. Len(s) \in Nat \ {0} /\ \A i \in 1..Len(s) : s[i] \in S
  BY EmptySeq, LenProperties
<1>2. /\ Tail(s) \in Seq(S) /\ Len(Tail(s)) = Len(s) - 1
      /\ \A i \in 1..(Len(s) - 1) : Tail(s)[i] = s[i + 1]
  BY HeadTailProperties
<1>3. Elements(s) = Elements(Tail(s)) \cup {s[1]}
  <2>1. \A i \in 1..Len(s) : i = 1 \/ (i - 1 \in 1..(Len(s) - 1) /\ Tail(s)[i - 1] = s[i])
    BY <1>1, <1>2
  <2>2. \A i \in 1..(Len(s) - 1) : i + 1 \in 1..Len(s)
    BY <1>1
  <2>3. \A i \in 1..Len(s) : s[i] = s[1] \/ \E j \in 1..Len(Tail(s)) : s[i] = Tail(s)[j]
    BY <1>2, <2>1
  <2>4. \A j \in 1..Len(Tail(s)) : \E i \in 1..Len(s) : Tail(s)[j] = s[i]
    BY <1>2, <2>2
  <2>5. 1 \in 1..Len(s)
    BY <1>1
  <2>6. QED
    BY <2>3, <2>4, <2>5 DEF Elements
<1>4. Distinct(s) => Distinct(Tail(s)) /\ s[1] \notin Elements(Tail(s))
  <2>1. 1 \in 1..Len(s) /\ \A i \in 1..(Len(s) - 1) : i + 1 \in 1..Len(s) /\ i + 1 # 1
    BY <1>1
  <2>2. QED
    BY <1>1, <1>2, <2>1 DEF Elements, Distinct
<1>5. QED
  BY <1>1, <1>2, <1>3, <1>4

LEMMA EmptyStack == <<>> \in Seq(Slot) /\ Elements(<<>>) = {} /\ Distinct(<<>>)
BY DEF Elements, Distinct

-----------------------------------------------------------------------------
(***************************************************************************)
(* What a step does to the stacks.  All but four kinds of step leave them, *)
(* and the generation too unless the history is closed afterwards.         *)
(***************************************************************************)
Quiet ==
  /\ h'.undo = h.undo /\ h'.redo = h.redo /\ h'.content = h.content
  /\ h.generation <= h'.generation
  /\ Open' => Open /\ h'.generation = h.generation

LEMMA LockedOpen ==
  ASSUME TypeOK
  PROVE  /\ ~Locked.blocked => Open /\ ~OwnerDead /\ Locked.generation = h.generation
         /\ ~Locked.abandoned /\ ~Locked.dirty
         /\ h.generation <= Locked.generation /\ h.generation \in Nat
         /\ h.blocked => Locked.blocked
         /\ ~Swept.blocked => ~Locked.blocked /\ Stale = {}
         /\ Swept.generation = Locked.generation /\ ~Swept.abandoned /\ ~Swept.dirty
<1>1. /\ Locked.blocked = (h.blocked \/ Interrupted \/ OwnerDead)
      /\ Locked.abandoned = FALSE /\ Locked.dirty = FALSE
      /\ Locked.generation = h.generation + One(Interrupted) + One(OwnerDead)
  BY DEF TypeOK, Header, Locked
<1>2. h.generation \in Nat
  BY DEF TypeOK, Header
<1>3. h.generation <= Locked.generation
  BY <1>1, <1>2 DEF One
<1>4. ~Locked.blocked => Open /\ ~OwnerDead /\ Locked.generation = h.generation
  <2>1. ~Locked.blocked => ~h.blocked /\ ~Interrupted /\ ~OwnerDead
    BY <1>1
  <2>2. ~Interrupted /\ ~OwnerDead => Locked.generation = h.generation
    BY <1>1, <1>2 DEF One
  <2>3. QED
    BY <2>1, <2>2 DEF Open, Interrupted
<1>5. /\ Swept.blocked = (Locked.blocked \/ Stale # {})
      /\ Swept.generation = Locked.generation
      /\ Swept.abandoned = Locked.abandoned /\ Swept.dirty = Locked.dirty
  BY LockedFacts DEF Header, Swept
<1>6. QED
  BY <1>1, <1>2, <1>3, <1>4, <1>5

LEMMA TornAppend ==
  ASSUME h \in Header, NEW batch
  PROVE  \A x \in AppendPrefixes(batch) : x.abandoned = TRUE /\ x.replayPid = h.replayPid
<1>. DEFINE Torn(u, r, c) == [h EXCEPT !.undo = u, !.redo = r, !.content = c,
                                      !.abandoned = TRUE, !.dirty = TRUE]
<1>1. \A u, r, c : Torn(u, r, c).abandoned = TRUE /\ Torn(u, r, c).replayPid = h.replayPid
  BY DEF Header
<1>2. ASSUME NEW x \in AppendPrefixes(batch) PROVE \E u, r, c : x = Torn(u, r, c)
  <2> DEFINE first == {slot \in Slot : IsLeast(slot, FreeSlots)}
             Stored(slot) == [Spare EXCEPT ![slot] = batch]
  <2>1. \/ \E some \in SUBSET Elements(h.redo) : x = Torn(h.undo, h.redo, Released(some))
        \/ x \in {Torn(h.undo, <<>>, Released(Elements(h.redo))),
                  Torn(h.undo, <<>>, Spare), Torn(Kept, <<>>, Spare)}
        \/ \E slot \in first : x = Torn(Kept, <<>>, Stored(slot))
        \/ \E slot \in first : x = Torn(Append(Kept, slot), <<>>, Stored(slot))
    BY DEF AppendPrefixes
  <2> HIDE DEF first, Stored, Torn
  <2>2. QED
    BY <2>1
<1>. HIDE DEF Torn
<1>3. QED
  BY <1>1, <1>2

LEMMA StackKinds ==
  ASSUME TypeInv, [Next]_vars
  PROVE  \/ Quiet
         \/ ~Session /\ h' = FreshHeader /\ \E p \in Process : Launch(p)
         \/ \E w \in Worker : Publish(w) \/ PublishFails(w) \/ LateBarrier(w)
         \/ \E p \in Process : Commit(p)
         \/ ~Open' /\ ((\E p \in Process : CutCommit(p)) \/ \E w \in Worker : CutAppend(w))
<1>. DEFINE Goal == \/ Quiet
                    \/ ~Session /\ h' = FreshHeader /\ \E p \in Process : Launch(p)
                    \/ \E w \in Worker : Publish(w) \/ PublishFails(w) \/ LateBarrier(w)
                    \/ \E p \in Process : Commit(p)
                    \/ ~Open' /\ ((\E p \in Process : CutCommit(p)) \/ \E w \in Worker : CutAppend(w))
<1>. SUFFICES Goal
  OBVIOUS
<1>a. TypeOK /\ h \in Header /\ Locked \in Header /\ Swept \in Header /\ h.generation \in Nat
  BY LockedFacts, SweptFacts DEF TypeInv, TypeOK, Header
<1>b. h' = h => Quiet
  BY <1>a DEF Quiet, Open
<1>c. h' = Locked => Quiet
  BY <1>a, LockedFacts, LockedOpen DEF Quiet, Open
<1>d. h' = Swept => Quiet
  BY <1>a, SweptFacts, LockedOpen DEF Quiet, Open
<1>1. ASSUME NEW p \in Process, Launch(p) PROVE Goal
  <2>1. CASE Session
    <3>1. h' = [h EXCEPT !.blocked = @ \/ h.abandoned, !.abandoned = FALSE]
      BY <1>1, <2>1 DEF Launch
    <3>2. /\ h'.undo = h.undo /\ h'.redo = h.redo /\ h'.content = h.content
          /\ h'.generation = h.generation /\ h'.dirty = h.dirty
          /\ h'.blocked = (h.blocked \/ h.abandoned)
      BY <1>a, <3>1 DEF Header
    <3>a. Open' => Open
      BY <3>2 DEF Open
    <3>3. Quiet
      BY <1>a, <3>2, <3>a DEF Quiet
    <3>4. QED
      BY <3>3
  <2>2. CASE ~Session
    BY <1>1, <2>2 DEF Launch
  <2>3. QED
    BY <2>1, <2>2
<1>2. ASSUME NEW p \in Process, \E way \in {"undo", "redo"} : Ask(p, way) PROVE Goal
  BY <1>2, <1>c, <1>d DEF Ask
<1>3. ASSUME NEW p \in Process, QueueReplay(p) \/ DropCommand(p) \/ AwaitExclusive(p)
                                \/ EnterExclusive(p) \/ TakeRefused(p) \/ Replay(p)
      PROVE  Goal
  BY <1>3, <1>b, <1>c, <1>d
     DEF QueueReplay, DropCommand, AwaitExclusive, EnterExclusive, TakeRefused, Replay
<1>4. ASSUME NEW p \in Process, Take(p) PROVE Goal
  <2>1. /\ h'.undo = Swept.undo /\ h'.redo = Swept.redo /\ h'.content = Swept.content
        /\ h'.generation = Swept.generation /\ h'.blocked = Swept.blocked
    BY <1>4, <1>a DEF Take, Header
  <2>2. Quiet
    BY <2>1, <1>a, SweptFacts, LockedOpen DEF Quiet, Open
  <2>3. QED
    BY <2>2
<1>5. ASSUME NEW p \in Process, Abandon(p) PROVE Goal
  <2>1. /\ h'.undo = Locked.undo /\ h'.redo = Locked.redo /\ h'.content = Locked.content
        /\ h'.generation = Locked.generation + 1 /\ h'.blocked = TRUE
    BY <1>5, <1>a DEF Abandon, Header
  <2>2. Quiet
    BY <2>1, <1>a, LockedFacts, LockedOpen DEF Quiet, Open, Header
  <2>3. QED
    BY <2>2
<1>6. ASSUME NEW p \in Process, Die(p) PROVE Goal
  BY <1>6, <1>b DEF Die
<1>7. ASSUME NEW p \in Process, CutShort(p) \/ CutTake(p) PROVE Goal
  <2>1. h'.abandoned = TRUE
    BY <1>7, <1>a DEF CutShort, CutTake, Header
  <2>2. \/ /\ h'.undo = h.undo /\ h'.redo = h.redo /\ h'.content = h.content
           /\ h'.generation = h.generation
        \/ /\ h'.undo = Swept.undo /\ h'.redo = Swept.redo /\ h'.content = Swept.content
           /\ h'.generation = Swept.generation
    BY <1>7, <1>a DEF CutShort, CutTake, Header
  <2>3. Quiet
    BY <1>a, <2>1, <2>2, SweptFacts, LockedOpen DEF Quiet, Open
  <2>4. QED
    BY <2>3
<1>8. ASSUME NEW w \in Worker, CutAdmit(w) PROVE Goal
  <2>1. /\ h'.undo = Locked.undo /\ h'.redo = Locked.redo /\ h'.content = Locked.content
        /\ h'.generation = Locked.generation /\ h'.abandoned = TRUE
    BY <1>8, <1>a DEF CutAdmit, Header
  <2>2. Quiet
    BY <1>a, <2>1, LockedFacts, LockedOpen DEF Quiet, Open
  <2>3. QED
    BY <2>2
<1>9. ASSUME NEW w \in Worker,
             StartWorker(w) \/ Perform(w) \/ Bypass(w) \/ EnterShared(w)
             \/ \E o \in Worker : StartNested(w, o)
      PROVE  Goal
  BY <1>9, <1>b DEF StartWorker, Perform, Bypass, EnterShared, StartNested
<1>10. ASSUME NEW w \in Worker, Admit(w) \/ Refuse(w) \/ Leave(w) PROVE Goal
  <2>1. /\ h'.undo = Locked.undo /\ h'.redo = Locked.redo /\ h'.content = Locked.content
        /\ h'.generation = Locked.generation
        /\ h'.blocked = Locked.blocked \/ h'.blocked = TRUE
    BY <1>10, <1>a DEF Admit, TakeSeat, Refuse, Leave, Header
  <2>2. Quiet
    BY <2>1, <1>a, LockedFacts, LockedOpen DEF Quiet, Open
  <2>3. QED
    BY <2>2
<1>11. ASSUME NEW w \in Worker, Publish(w) \/ PublishFails(w) \/ LateBarrier(w) PROVE Goal
  BY <1>11
<1>12. ASSUME NEW p \in Process, Commit(p) PROVE Goal
  BY <1>12
<1>13. CASE UNCHANGED vars
  BY <1>13, <1>b DEF vars
<1>14. ASSUME NEW p \in Process, CutCommit(p) PROVE Goal
  BY <1>14, <1>a DEF CutCommit, Header, Open
<1>15. ASSUME NEW w \in Worker, CutAppend(w) PROVE Goal
  BY <1>15, <1>a, TornAppend DEF CutAppend, Open
<1> HIDE DEF Goal
<1>16. QED
  BY <1>1, <1>2, <1>3, <1>4, <1>5, <1>6, <1>7, <1>8, <1>9, <1>10, <1>11, <1>12, <1>13, <1>14, <1>15
     DEF Next, WorkerStep, ReplayStep

\* append, and its callers: nothing happens to a closed history.
Stored(slot, batch) ==
  /\ IsLeast(slot, FreeSlots)
  /\ h'.undo = Append(Kept, slot) /\ h'.redo = <<>>
  /\ h'.content = [Spare EXCEPT ![slot] = batch]
  /\ h'.generation = h.generation + 1

LEMMA AppendKinds ==
  ASSUME TypeOK, NEW batch \in Batch, AppendBatch(batch)
  PROVE  \/ h' = Locked /\ Locked.blocked /\ lost'
         \/ h'.blocked /\ h'.undo = Kept /\ h'.redo = <<>> /\ h'.content = Spare /\ lost'
            /\ h'.generation = h.generation + 1
         \/ Open /\ Open' /\ ~OwnerDead /\ UNCHANGED lost /\ \E slot \in Slot : Stored(slot, batch)
<1>a. h \in Header
  BY DEF TypeOK
<1>1. CASE Locked.blocked
  BY <1>1 DEF AppendBatch
<1>2. CASE /\ ~Locked.blocked
           /\ \E slot \in Slot :
                /\ IsLeast(slot, FreeSlots)
                /\ h' = [h EXCEPT !.redo = <<>>, !.undo = Append(Kept, slot),
                                  !.content = [Spare EXCEPT ![slot] = batch],
                                  !.generation = @ + 1]
           /\ UNCHANGED lost
  <2>1. PICK slot \in Slot :
          /\ IsLeast(slot, FreeSlots)
          /\ h' = [h EXCEPT !.redo = <<>>, !.undo = Append(Kept, slot),
                            !.content = [Spare EXCEPT ![slot] = batch],
                            !.generation = @ + 1]
    BY <1>2
  <2>2. Stored(slot, batch)
    BY <1>a, <2>1 DEF Stored, Header
  <2>3. h'.blocked = h.blocked /\ h'.dirty = h.dirty /\ h'.abandoned = h.abandoned
    BY <1>a, <2>1 DEF Header
  <2>4. Open /\ ~OwnerDead
    BY <1>2, LockedOpen
  <2>5. QED
    BY <1>2, <2>2, <2>3, <2>4 DEF Open
<1>3. CASE /\ ~Locked.blocked
           /\ h' = [h EXCEPT !.redo = <<>>, !.undo = Kept, !.content = Spare,
                             !.generation = @ + 1, !.blocked = TRUE]
           /\ lost' = TRUE
  BY <1>a, <1>3 DEF Header
<1>4. QED
  BY <1>1, <1>2, <1>3 DEF AppendBatch

LEMMA Recordings ==
  ASSUME TypeInv, NEW w \in Worker, Publish(w) \/ PublishFails(w) \/ LateBarrier(w)
  PROVE  /\ Unrecorded(w) /\ worker[w].made \in Batch
         /\ UNCHANGED <<state, replay, ops>>
         /\ \/ UNCHANGED h
            \/ \E batch \in {worker[w].made, AsBarrier(worker[w].made)} :
                 batch \in Batch /\ AppendBatch(batch)
<1>1. Unrecorded(w) /\ UNCHANGED <<state, replay, ops>>
  BY DEF Publish, PublishFails, LateBarrier, Unrecorded
<1>2. worker[w].made \in Batch /\ AsBarrier(worker[w].made) \in Batch
  BY <1>1, BatchFacts DEF TypeInv, Recorded
<1>3. \/ UNCHANGED h
      \/ \E batch \in {worker[w].made, AsBarrier(worker[w].made)} : AppendBatch(batch)
  BY DEF Publish, PublishFails, LateBarrier
<1>4. QED
  BY <1>1, <1>2, <1>3

\* commit, field by field.
Committed(p, saved, move) ==
  LET way == replay[p].way
      slot == replay[p].slot
  IN
  /\ move = (saved /\ replay[p].complete)
  /\ move => Stack(way) # <<>>
  /\ h'.content = [h.content EXCEPT ![slot] = IF saved THEN replay[p].batch ELSE NoBatch]
  /\ h'.undo = IF ~move THEN h.undo ELSE IF way = "undo" THEN Pop(h.undo) ELSE Append(h.undo, slot)
  /\ h'.redo = IF ~move THEN h.redo ELSE IF way = "undo" THEN Append(h.redo, slot) ELSE Pop(h.redo)
  /\ h'.generation = Locked.generation + 1
  /\ h'.blocked = (Locked.blocked \/ ~saved)
  /\ h'.replayPid = NoProcess
  /\ lost' = (lost \/ ~saved)

LEMMA CommitParts ==
  ASSUME TypeInv, NEW p \in Process, Commit(p)
  PROVE  /\ Reserved(p) /\ replay[p].pc = "replayed" /\ replay[p].slot \in Slot
         /\ replay[p].way \in {"undo", "redo"}
         /\ UNCHANGED <<state, poisoned, worker, ops>> /\ replay' = [replay EXCEPT ![p] = NoReplay]
         /\ \E saved, move \in BOOLEAN : Committed(p, saved, move)
         /\ Open' => Open
<1>1. /\ Reserved(p) /\ replay[p].pc = "replayed" /\ replay[p].slot \in Slot
      /\ replay[p].way \in {"undo", "redo"} /\ replay[p].complete \in BOOLEAN
      /\ UNCHANGED <<state, poisoned, worker, ops>> /\ replay' = [replay EXCEPT ![p] = NoReplay]
  BY DEF Commit, Reserved, TypeInv, TypeOK, Recorded, Command
<1>2. /\ Locked \in Header /\ Locked.content = h.content
      /\ Locked.undo = h.undo /\ Locked.redo = h.redo
  BY LockedFacts DEF TypeInv
<1>3. PICK saved \in BOOLEAN :
        LET way == replay[p].way
            slot == replay[p].slot
            move == saved /\ replay[p].complete
        IN /\ move => Stack(way) # <<>>
           /\ h' = [Locked EXCEPT
                      !.content[slot] = IF saved THEN replay[p].batch ELSE NoBatch,
                      !.blocked = @ \/ ~saved,
                      !.undo = IF move THEN Moved(way, slot)[1] ELSE @,
                      !.redo = IF move THEN Moved(way, slot)[2] ELSE @,
                      !.generation = @ + 1, !.replayPid = NoProcess]
           /\ lost' = (lost \/ ~saved)
  BY DEF Commit
<1> DEFINE way == replay[p].way
           slot == replay[p].slot
           move == saved /\ replay[p].complete
           batch == IF saved THEN replay[p].batch ELSE NoBatch
           undo == IF move THEN Moved(way, slot)[1] ELSE h.undo
           redo == IF move THEN Moved(way, slot)[2] ELSE h.redo
<1>4. h' = [Locked EXCEPT !.content = [h.content EXCEPT ![slot] = batch], !.blocked = @ \/ ~saved,
                          !.undo = undo, !.redo = redo, !.generation = @ + 1, !.replayPid = NoProcess]
  BY <1>2, <1>3
<1>5. undo = IF ~move THEN h.undo ELSE IF way = "undo" THEN Pop(h.undo) ELSE Append(h.undo, slot)
  BY DEF Moved
<1>6. redo = IF ~move THEN h.redo ELSE IF way = "undo" THEN Append(h.redo, slot) ELSE Pop(h.redo)
  BY DEF Moved
<1>7. move \in BOOLEAN /\ (move => Stack(way) # <<>>) /\ lost' = (lost \/ ~saved)
  BY <1>1, <1>3
<1> HIDE DEF undo, redo, batch
<1>8. /\ h'.content = [h.content EXCEPT ![slot] = batch]
      /\ h'.undo = undo /\ h'.redo = redo /\ h'.generation = Locked.generation + 1
      /\ h'.blocked = (Locked.blocked \/ ~saved) /\ h'.replayPid = NoProcess
  BY <1>2, <1>4 DEF Header
<1>9. Committed(p, saved, move)
  BY <1>5, <1>6, <1>7, <1>8 DEF Committed, batch
<1>10. Open' => Open
  BY <1>8, LockedOpen DEF Open, TypeInv
<1>11. QED
  BY <1>1, <1>7, <1>9, <1>10

-----------------------------------------------------------------------------
(***************************************************************************)
(* A history that was interrupted stays closed until the last process of   *)
(* the session ends: no repair of the lock, no later writer and no replay  *)
(* reopens it, whatever the recorder did and whoever joined meanwhile.     *)
(***************************************************************************)
THEOREM ClosedStaysClosed == Spec => ClosedForSession
<1>1. TypeInv /\ [Next]_vars => [~Open /\ Session /\ Session' => ~Open']_vars
  <2>. SUFFICES ASSUME TypeInv, [Next]_vars, ~Open, Session PROVE ~Open'
    OBVIOUS
  <2>1. CASE Quiet
    BY <2>1 DEF Quiet
  <2>2. ASSUME NEW w \in Worker, Publish(w) \/ PublishFails(w) \/ LateBarrier(w) PROVE ~Open'
    <3>1. CASE UNCHANGED h
      BY <3>1 DEF Open
    <3>2. ASSUME NEW batch \in Batch, AppendBatch(batch) PROVE ~Open'
      BY <3>2, AppendKinds DEF TypeInv, Open
    <3>3. QED
      BY <2>2, <3>1, <3>2, Recordings
  <2>3. QED
    BY <2>1, <2>2, StackKinds, CommitParts
<1>2. QED
  BY <1>1, TypeInit, TypeStep, PTL DEF Spec, ClosedForSession

-----------------------------------------------------------------------------
(***************************************************************************)
(* What a step does to the command of one process.                         *)
(***************************************************************************)
Issuing(q) == replay[q].pc \in {"queued", "waiting", "exclusive"}
SameOrder(q) ==
  /\ replay'[q].way = replay[q].way /\ replay'[q].expected = replay[q].expected
  /\ replay'[q].target = replay[q].target

LEMMA CommandKinds ==
  ASSUME TypeInv, [Next]_vars, NEW q \in Process
  PROVE  \/ replay'[q] = replay[q]
         \/ replay'[q].pc \in {"idle", "asked"}
         \/ QueueReplay(q)
         \/ Issuing(q) /\ Issuing(q)' /\ SameOrder(q) /\ UNCHANGED h
         \/ Take(q)
         \/ Replay(q)
<1>. DEFINE Goal == \/ replay'[q] = replay[q]
                    \/ replay'[q].pc \in {"idle", "asked"}
                    \/ QueueReplay(q)
                    \/ Issuing(q) /\ Issuing(q)' /\ SameOrder(q) /\ UNCHANGED h
                    \/ Take(q)
                    \/ Replay(q)
<1>. SUFFICES Goal
  OBVIOUS
<1>a. replay \in [Process -> Command] /\ replay[q] \in Command
  BY DEF TypeInv, TypeOK
<1>b. replay' = replay => Goal
  OBVIOUS
<1>c. ASSUME NEW p \in Process, NEW c, replay' = [replay EXCEPT ![p] = c], p = q => c.pc \in {"idle", "asked"}
      PROVE  Goal
  BY <1>a, <1>c
<1>1. ASSUME NEW p \in Process, Launch(p) PROVE Goal
  BY <1>1, <1>b DEF Launch
<1>2. ASSUME NEW p \in Process, \E way \in {"undo", "redo"} : Ask(p, way) PROVE Goal
  <2>1. PICK way \in {"undo", "redo"} :
          UNCHANGED replay \/ replay' = [replay EXCEPT ![p] = [NoReplay EXCEPT !.pc = "asked", !.way = way]]
    BY <1>2 DEF Ask
  <2>2. [NoReplay EXCEPT !.pc = "asked", !.way = way].pc = "asked"
    BY DEF NoReplay
  <2>3. QED
    BY <2>1, <2>2, <1>b, <1>c
<1>3. ASSUME NEW p \in Process, QueueReplay(p) PROVE Goal
  BY <1>3, <1>a DEF QueueReplay
<1>4. ASSUME NEW p \in Process,
             DropCommand(p) \/ TakeRefused(p) \/ Commit(p) \/ Abandon(p)
      PROVE  Goal
  BY <1>4, <1>c DEF DropCommand, TakeRefused, Commit, Abandon, NoReplay
<1>5. ASSUME NEW p \in Process, AwaitExclusive(p) \/ EnterExclusive(p) PROVE Goal
  <2>1. PICK pc \in {"waiting", "exclusive"} : replay' = [replay EXCEPT ![p].pc = pc]
    BY <1>5 DEF AwaitExclusive, EnterExclusive
  <2>2. CASE p = q
    <3>1. replay'[q] = [replay[q] EXCEPT !.pc = pc]
      BY <1>a, <2>1, <2>2
    <3>2. replay'[q].pc = pc /\ SameOrder(q)
      BY <3>1, <1>a DEF Command, SameOrder
    <3>3. QED
      BY <1>5, <2>2, <3>2 DEF AwaitExclusive, EnterExclusive, Issuing
  <2>3. QED
    BY <1>a, <2>1, <2>2
<1>6. ASSUME NEW p \in Process, Take(p) \/ Replay(p) PROVE Goal
  BY <1>6, <1>a DEF Take, Replay
<1>7. ASSUME NEW p \in Process, End(p) PROVE Goal
  BY <1>7, <1>c DEF End, NoReplay
<1>8. ASSUME NEW w \in Worker,
             StartWorker(w) \/ Perform(w) \/ Bypass(w) \/ EnterShared(w) \/ Admit(w) \/ Refuse(w)
             \/ Publish(w) \/ PublishFails(w) \/ Leave(w) \/ LateBarrier(w)
             \/ \E o \in Worker : StartNested(w, o)
      PROVE  Goal
  BY <1>8, <1>b
     DEF StartWorker, Perform, Bypass, EnterShared, Admit, TakeSeat, Refuse, Publish, PublishFails,
         Leave, LateBarrier, StartNested
<1>9. CASE UNCHANGED vars
  BY <1>9, <1>b DEF vars
<1> HIDE DEF Goal
<1>10. QED
  BY <1>1, <1>2, <1>3, <1>4, <1>5, <1>6, <1>7, <1>8, <1>9, HomeAssumption
     DEF Next, WorkerStep, ReplayStep, Die, CutShort, CutTake, CutCommit, CutAdmit, CutAppend

-----------------------------------------------------------------------------
(***************************************************************************)
(* A command carries the generation it was issued at.  While the header    *)
(* still has that generation and is open, the stack has the top that the   *)
(* command saw, because every store to a stack raises the generation; and  *)
(* no generation returns, because it never falls while a command lives.    *)
(***************************************************************************)
Issued ==
  \A q \in Process : Issuing(q) /\ Open =>
    /\ replay[q].expected <= h.generation
    /\ replay[q].expected = h.generation /\ Stack(replay[q].way) # <<>> =>
         h.content[Top(Stack(replay[q].way))].op = replay[q].target

IssuedInv == ExclusionInv /\ Issued /\ ReplaysWhatWasAsked

LEMMA Outrun ==
  ASSUME TypeInv, [Next]_vars, Session
  PROVE  Quiet \/ ~Open' \/ (Open /\ h.generation + 1 <= h'.generation)
<1>. h.generation \in Nat /\ Locked.generation \in Nat /\ h.generation <= Locked.generation
  BY LockedFacts, LockedOpen DEF TypeInv, TypeOK, Header
<1>1. ASSUME NEW w \in Worker, Publish(w) \/ PublishFails(w) \/ LateBarrier(w)
      PROVE  Quiet \/ ~Open' \/ (Open /\ h.generation + 1 <= h'.generation)
  <2>1. CASE UNCHANGED h
    BY <2>1 DEF Quiet, Open
  <2>2. ASSUME NEW batch \in Batch, AppendBatch(batch)
        PROVE  ~Open' \/ (Open /\ h.generation + 1 <= h'.generation)
    <3>1. ~Open' \/ (Open /\ h'.generation = h.generation + 1)
      BY <2>2, AppendKinds DEF TypeInv, Stored, Open
    <3>2. QED
      BY <3>1
  <2>3. QED
    BY <1>1, <2>1, <2>2, Recordings
<1>2. ASSUME NEW p \in Process, Commit(p)
      PROVE  ~Open' \/ (Open /\ h.generation + 1 <= h'.generation)
  <2>1. h'.generation = Locked.generation + 1 /\ (Open' => Open)
    BY <1>2, CommitParts DEF Committed
  <2>2. QED
    BY <2>1
<1>3. QED
  BY <1>1, <1>2, StackKinds

LEMMA ReplayKeepsOp ==
  ASSUME TypeInv, NEW q \in Process, Replay(q)
  PROVE  /\ replay[q].pc = "reserved" /\ replay'[q].pc = "replayed"
         /\ replay[q].batch \in Batch /\ replay'[q].batch \in Batch
         /\ replay'[q].batch.op = replay[q].batch.op
         /\ replay'[q].target = replay[q].target /\ replay'[q].slot = replay[q].slot
         /\ replay'[q].way = replay[q].way
         /\ IF replay'[q].complete
            THEN /\ ~replay[q].batch.barrier /\ ~replay'[q].batch.barrier
                 /\ replay'[q].batch.state = Reversed[replay[q].batch.state]
            ELSE replay'[q].batch.barrier
         /\ UNCHANGED <<h, state, worker, ops, lost>>
<1>1. replay[q] \in Command /\ replay[q].pc = "reserved" /\ replay[q].batch \in Batch
  BY DEF Replay, TypeInv, TypeOK, Command
<1>2. PICK b \in Batch, complete \in BOOLEAN :
        /\ \/ ~replay[q].batch.barrier /\ b = [replay[q].batch EXCEPT !.state = Reversed[@]] /\ complete
           \/ b = [AsBarrier(replay[q].batch) EXCEPT !.state = "partial"] /\ ~complete
           \/ b = AsBarrier(replay[q].batch) /\ ~complete
        /\ replay' = [replay EXCEPT ![q].pc = "replayed", ![q].batch = b, ![q].complete = complete]
  BY <1>1, BatchFacts DEF Replay
<1>3. /\ b \in Batch /\ b.op = replay[q].batch.op
      /\ IF complete
         THEN ~replay[q].batch.barrier /\ ~b.barrier /\ b.state = Reversed[replay[q].batch.state]
         ELSE b.barrier
  <2>1. /\ AsBarrier(replay[q].batch) \in Batch
        /\ AsBarrier(replay[q].batch).op = replay[q].batch.op
        /\ AsBarrier(replay[q].batch).barrier
    BY <1>1 DEF Batch, AsBarrier
  <2>2. CASE b = [AsBarrier(replay[q].batch) EXCEPT !.state = "partial"] /\ ~complete
    BY <2>1, <2>2 DEF Batch
  <2>3. CASE ~replay[q].batch.barrier /\ b = [replay[q].batch EXCEPT !.state = Reversed[@]] /\ complete
    BY <1>1, <2>3, BatchFacts DEF Batch
  <2>4. QED
    BY <1>2, <2>1, <2>2, <2>3
<1>4. replay'[q] = [replay[q] EXCEPT !.pc = "replayed", !.batch = b, !.complete = complete]
  BY <1>2 DEF TypeInv, TypeOK
<1>5. /\ replay'[q].pc = "replayed" /\ replay'[q].batch = b /\ replay'[q].complete = complete
      /\ replay'[q].target = replay[q].target /\ replay'[q].slot = replay[q].slot
      /\ replay'[q].way = replay[q].way
  BY <1>1, <1>4 DEF Command
<1>6. UNCHANGED <<h, state, worker, ops, lost>>
  BY DEF Replay
<1>7. QED
  BY <1>1, <1>3, <1>5, <1>6

LEMMA TakeFinds ==
  ASSUME TypeInv, NEW q \in Process, Take(q)
  PROVE  LET s == Stack(replay[q].way) IN
         /\ Open /\ Open' /\ s # <<>> /\ s \in Seq(Slot) /\ replay[q].expected = h.generation
         /\ replay[q].pc = "exclusive" /\ replay'[q].pc = "reserved"
         /\ replay'[q].slot = Top(s) /\ replay'[q].batch = h.content[Top(s)]
         /\ replay'[q].way = replay[q].way /\ replay'[q].target = replay[q].target
         /\ h'.undo = h.undo /\ h'.redo = h.redo /\ h'.content = h.content
         /\ h'.replayPid = q /\ h.replayPid \notin Process
         /\ Stale = {} /\ \A e \in Entry : ~(h.count[e] > 0)
         /\ UNCHANGED <<state, worker, ops, lost>>
<1>1. /\ ~Busy /\ ~Swept.blocked /\ replay[q].expected = Locked.generation
      /\ Stack(replay[q].way) # <<>> /\ replay[q].pc = "exclusive"
      /\ h' = [Swept EXCEPT !.replayPid = q]
      /\ UNCHANGED <<state, worker, ops, lost>>
  BY DEF Take, Grantable
<1>2. Open /\ ~OwnerDead /\ Stale = {} /\ replay[q].expected = h.generation
      /\ ~Swept.abandoned /\ ~Swept.dirty
  BY <1>1, LockedOpen DEF TypeInv
<1>3. /\ Swept \in Header /\ Swept.undo = h.undo /\ Swept.redo = h.redo /\ Swept.content = h.content
      /\ Locked.replayPid = h.replayPid
  BY <1>2, SweptFacts, LockedFacts DEF TypeInv
<1>4. /\ h'.undo = h.undo /\ h'.redo = h.redo /\ h'.content = h.content /\ h'.replayPid = q
      /\ h'.blocked = Swept.blocked /\ h'.abandoned = Swept.abandoned /\ h'.dirty = Swept.dirty
  BY <1>1, <1>3 DEF Header
<1>5. h.replayPid \notin Process /\ \A e \in Entry : ~(h.count[e] > 0)
  BY <1>1, <1>2, <1>3, ProcessAssumption DEF Busy, Stale, Dead
<1>6. Stack(replay[q].way) \in Seq(Slot)
  BY DEF Stack, TypeInv, TypeOK, Header
<1>7. replay[q] \in Command /\ replay \in [Process -> Command]
  BY DEF TypeInv, TypeOK
<1> DEFINE slot == Top(Stack(replay[q].way))
<1>8. replay' = [replay EXCEPT ![q].pc = "reserved", ![q].slot = slot, ![q].batch = h.content[slot]]
  BY DEF Take
<1> HIDE DEF slot
<1>9. /\ replay'[q].pc = "reserved" /\ replay'[q].slot = slot /\ replay'[q].batch = h.content[slot]
      /\ replay'[q].way = replay[q].way /\ replay'[q].target = replay[q].target
  BY <1>7, <1>8 DEF Command
<1>10. QED
  BY <1>1, <1>2, <1>4, <1>5, <1>6, <1>9 DEF slot, Open

LEMMA IssuedStep == IssuedInv /\ [Next]_vars => IssuedInv'
<1>. SUFFICES ASSUME IssuedInv, [Next]_vars PROVE IssuedInv'
  OBVIOUS
<1>a. TypeInv /\ TypeInv' /\ ExclusionInv' /\ ThreadsLive
  BY ExclusionStep DEF IssuedInv, ExclusionInv
<1>b. \A q \in Process : replay[q].pc # "idle" => Session
  BY <1>a DEF ThreadsLive, Session
<1>c. h.generation \in Nat /\ h'.generation \in Nat
      /\ \A q \in Process : replay[q].expected \in Nat /\ replay'[q].expected \in Nat
  BY <1>a DEF TypeInv, TypeOK, Header, Command
<1>1. Issued'
  <2>. SUFFICES ASSUME NEW q \in Process, Issuing(q)', Open'
                PROVE  /\ replay'[q].expected <= h'.generation
                       /\ replay'[q].expected = h'.generation /\ Stack(replay[q].way)' # <<>> =>
                            h'.content[Top(Stack(replay[q].way)')].op = replay'[q].target
    BY DEF Issued
  <2>1. CASE replay'[q] = replay[q]
    <3>1. Issuing(q) /\ Session
      BY <2>1, <1>b DEF Issuing
    <3>2. CASE Quiet
      <4>1. Open /\ h'.generation = h.generation /\ h'.content = h.content
            /\ h'.undo = h.undo /\ h'.redo = h.redo
        BY <3>2 DEF Quiet
      <4>2. Stack(replay[q].way)' = Stack(replay[q].way)
        BY <2>1, <4>1 DEF Stack
      <4>3. QED
        BY <2>1, <3>1, <4>1, <4>2 DEF IssuedInv, Issued
    <3>3. CASE Open /\ h.generation + 1 <= h'.generation
      <4>1. replay[q].expected <= h.generation
        BY <3>1, <3>3 DEF IssuedInv, Issued
      <4>2. QED
        BY <1>c, <2>1, <3>3, <4>1
    <3>4. QED
      BY <1>a, <3>1, <3>2, <3>3, Outrun
  <2>2. CASE QueueReplay(q)
    <3>1. /\ h'.undo = h.undo /\ h'.redo = h.redo /\ h'.content = h.content
          /\ h'.generation = Locked.generation
      BY <1>a, <2>2, LockedFacts DEF QueueReplay, TypeInv
    <3> DEFINE s == Stack(replay[q].way)
               target == IF s = <<>> THEN 0 ELSE h.content[Top(s)].op
    <3>2. replay' = [replay EXCEPT ![q].pc = "queued", ![q].expected = Locked.generation,
                                   ![q].target = target]
      BY <2>2 DEF QueueReplay
    <3>3. target = IF s = <<>> THEN 0 ELSE h.content[Top(s)].op
      OBVIOUS
    <3> HIDE DEF target
    <3>4. /\ replay'[q].expected = Locked.generation /\ replay'[q].target = target
          /\ replay'[q].way = replay[q].way
      BY <1>a, <3>2 DEF TypeInv, TypeOK, Command
    <3>5. Stack(replay[q].way)' = s
      BY <3>1, <3>4 DEF Stack
    <3>6. QED
      BY <1>c, <3>1, <3>3, <3>4, <3>5
  <2>3. CASE Issuing(q) /\ SameOrder(q) /\ UNCHANGED h
    <3>1. Stack(replay[q].way)' = Stack(replay[q].way) /\ Open
      BY <2>3 DEF Stack, SameOrder, Open
    <3>2. QED
      BY <2>3, <3>1 DEF IssuedInv, Issued, SameOrder
  <2>4. CASE Take(q) \/ Replay(q)
    BY <1>a, <2>4, TakeFinds, ReplayKeepsOp DEF Issuing
  <2>5. QED
    BY <1>a, <2>1, <2>2, <2>3, <2>4, CommandKinds DEF Issuing
<1>2. ReplaysWhatWasAsked'
  <2>. SUFFICES ASSUME NEW q \in Process, Reserved(q)'
                PROVE  replay'[q].batch.op = replay'[q].target
    BY DEF ReplaysWhatWasAsked
  <2>1. CASE replay'[q] = replay[q]
    BY <2>1 DEF Reserved, IssuedInv, ReplaysWhatWasAsked
  <2>2. CASE Take(q)
    BY <1>a, <2>2, TakeFinds DEF Issuing, IssuedInv, Issued
  <2>3. CASE Replay(q)
    BY <1>a, <2>3, ReplayKeepsOp DEF Reserved, IssuedInv, ReplaysWhatWasAsked
  <2>4. CASE QueueReplay(q)
    BY <1>a, <2>4 DEF QueueReplay, Reserved, TypeInv, TypeOK, Command
  <2>5. QED
    BY <1>a, <2>1, <2>2, <2>3, <2>4, CommandKinds DEF Issuing, Reserved
<1>3. QED
  BY <1>a, <1>1, <1>2 DEF IssuedInv

(***************************************************************************)
(* What a command replays is the batch that was on top of its stack when   *)
(* the command was issued: between queueReplay and take its thread may     *)
(* wait for the execution lock as long as it likes, and other processes    *)
(* may publish, replay, fail and die meanwhile.                            *)
(***************************************************************************)
THEOREM ReplayIsWhatWasAsked == Spec => []ReplaysWhatWasAsked
<1>1. Init => IssuedInv
  <2>. SUFFICES ASSUME Init PROVE IssuedInv
    OBVIOUS
  <2>1. \A q \in Process : replay[q].pc = "idle"
    BY DEF Init, NoReplay
  <2>2. QED
    BY <2>1, ExclusionInit DEF IssuedInv, Issued, Issuing, ReplaysWhatWasAsked, Reserved
<1>2. IssuedInv => ReplaysWhatWasAsked
  BY Zenon DEF IssuedInv
<1>3. QED
  BY <1>1, <1>2, IssuedStep, PTL DEF Spec

-----------------------------------------------------------------------------
(***************************************************************************)
(* What a step does to the batch that a thread has still to record.        *)
(***************************************************************************)
NewWork(w) ==
  /\ worker'[w].made \in Batch /\ worker'[w].made.op = ops + 1 /\ worker'[w].made.state = "done"
  /\ ops' = ops + 1 /\ UNCHANGED <<h, state, replay, lost>>
  /\ \A v \in Worker \ {w} : worker'[v] = worker[v]

LEMMA ThreadKinds ==
  ASSUME TypeInv, [Next]_vars, NEW w \in Worker
  PROVE  \/ worker'[w] = worker[w]
         \/ ~Unrecorded(w)'
         \/ Perform(w) /\ NewWork(w) /\ worker'[w].pc = "mutated"
         \/ Bypass(w) /\ NewWork(w) /\ "bypassed" \in Faults
         \/ /\ Unrecorded(w) /\ worker'[w].made = worker[w].made
            /\ worker[w].pc = "unwinding" \/ "unwound" \in Faults
<1>. DEFINE Goal == \/ worker'[w] = worker[w]
                    \/ ~Unrecorded(w)'
                    \/ Perform(w) /\ NewWork(w) /\ worker'[w].pc = "mutated"
                    \/ Bypass(w) /\ NewWork(w) /\ "bypassed" \in Faults
                    \/ /\ Unrecorded(w) /\ worker'[w].made = worker[w].made
                       /\ worker[w].pc = "unwinding" \/ "unwound" \in Faults
<1>. SUFFICES Goal
  OBVIOUS
<1>a. worker \in [Worker -> Thread] /\ worker[w] \in Thread /\ ops \in 0..MaxOps /\ MaxOps \in Nat
  BY BoundAssumption DEF TypeInv, TypeOK
<1>b. ASSUME NEW v \in Worker, NEW t, worker' = [worker EXCEPT ![v] = t],
             v = w => t.pc \notin {"mutated", "unwinding", "late"}
      PROVE  Goal
  BY <1>a, <1>b DEF Unrecorded
<1>c. UNCHANGED worker => Goal
  BY Zenon
<1>1. ASSUME NEW p \in Process,
             \/ Launch(p) \/ QueueReplay(p) \/ DropCommand(p) \/ AwaitExclusive(p) \/ EnterExclusive(p)
             \/ Take(p) \/ TakeRefused(p) \/ Replay(p) \/ Commit(p) \/ Abandon(p)
             \/ \E way \in {"undo", "redo"} : Ask(p, way)
      PROVE  Goal
  BY <1>1, <1>c
     DEF Launch, QueueReplay, DropCommand, AwaitExclusive, EnterExclusive, Take, TakeRefused, Replay,
         Commit, Abandon, Ask
<1>2. ASSUME NEW p \in Process, End(p) PROVE Goal
  <2>1. worker'[w] = IF Home[w] = p THEN NoWork ELSE worker[w]
    BY <1>2 DEF End
  <2>2. QED
    BY <2>1 DEF NoWork, Unrecorded
<1>3. ASSUME NEW v \in Worker,
             StartWorker(v) \/ Refuse(v) \/ LateBarrier(v) \/ \E o \in Worker : StartNested(v, o)
      PROVE  Goal
  <2>1. CASE StartWorker(v) \/ Refuse(v) \/ LateBarrier(v)
    BY <2>1, <1>b DEF StartWorker, Refuse, LateBarrier, NoWork
  <2>2. ASSUME NEW o \in Worker, StartNested(v, o) PROVE Goal
    <3>1. worker' = [worker EXCEPT ![v] = [NoWork EXCEPT !.pc = "admitting", !.outer = o]]
      BY <2>2 DEF StartNested
    <3>2. [NoWork EXCEPT !.pc = "admitting", !.outer = o].pc = "admitting"
      BY DEF NoWork
    <3>3. QED
      BY <3>1, <3>2, <1>b
  <2>3. QED
    BY <1>3, <2>1, <2>2
<1>4. ASSUME NEW v \in Worker, EnterShared(v) \/ Admit(v) \/ Publish(v) PROVE Goal
  <2>1. CASE v = w
    <3>1. worker'[w].pc \in {"admitting", "working"}
      <4>1. CASE EnterShared(v)
        BY <2>1, <4>1, <1>a DEF EnterShared, Thread
      <4>2. CASE Admit(v)
        BY <2>1, <4>2, <1>a DEF Admit, TakeSeat, Thread
      <4>3. CASE Publish(v)
        BY <2>1, <4>3, <1>a DEF Publish, Thread
      <4>4. QED
        BY <1>4, <4>1, <4>2, <4>3
    <3>2. QED
      BY <3>1 DEF Unrecorded
  <2>2. CASE v # w
    BY <1>4, <1>a, <2>2 DEF EnterShared, Admit, TakeSeat, Publish
  <2>3. QED
    BY <2>1, <2>2
<1>5. ASSUME NEW v \in Worker, Perform(v) \/ Bypass(v) PROVE Goal
  <2>1. CASE v = w
    <3>1. PICK barrier \in BOOLEAN, pc \in {"mutated", "late"}, t \in {worker[w], NoWork} :
            /\ worker' = [worker EXCEPT ![w] = [t EXCEPT !.pc = pc,
                            !.made = [op |-> ops + 1, state |-> "done", barrier |-> barrier]]]
            /\ Perform(v) => pc = "mutated"
      <4>1. CASE Perform(v)
        BY <2>1, <4>1, <1>a DEF Perform
      <4>2. CASE Bypass(v)
        BY <2>1, <4>2, <1>a DEF Bypass, Perform
      <4>3. QED
        BY <1>5, <4>1, <4>2
    <3> DEFINE made == [op |-> ops + 1, state |-> "done", barrier |-> barrier]
    <3>2. ops' = ops + 1 /\ ops + 1 \in 1..MaxOps /\ UNCHANGED <<h, state, replay, lost>>
      BY <1>5, <1>a DEF Perform, Bypass
    <3>3. made \in Batch /\ made.op = ops + 1 /\ made.state = "done"
      BY <3>2 DEF Batch
    <3> HIDE DEF made
    <3>4. t \in Thread
      BY <1>a, IdleTypes
    <3>5. worker'[w].pc = pc /\ worker'[w].made = made
      BY <1>a, <3>1, <3>4 DEF Thread, made
    <3>6. NewWork(w)
      BY <1>a, <3>1, <3>2, <3>3, <3>5 DEF NewWork
    <3>7. CASE Perform(v)
      BY <2>1, <3>1, <3>5, <3>6, <3>7
    <3>8. CASE Bypass(v)
      BY <2>1, <3>6, <3>8 DEF Bypass
    <3>9. QED
      BY <1>5, <3>7, <3>8
  <2>2. CASE v # w
    BY <1>5, <1>a, <2>2 DEF Perform, Bypass
  <2>3. QED
    BY <2>1, <2>2
<1>6. ASSUME NEW v \in Worker, PublishFails(v) PROVE Goal
  <2>1. CASE v = w
    <3>1. \/ worker' = [worker EXCEPT ![w].pc = "working", ![w].made = NoBatch]
          \/ worker' = [worker EXCEPT ![w].pc = "unwinding"] /\ "unwound" \in Faults
      BY <1>6, <2>1 DEF PublishFails
    <3>2. CASE worker' = [worker EXCEPT ![w].pc = "working", ![w].made = NoBatch]
      BY <1>a, <3>2 DEF Thread, Unrecorded
    <3>3. CASE worker' = [worker EXCEPT ![w].pc = "unwinding"] /\ "unwound" \in Faults
      BY <1>a, <1>6, <2>1, <3>3 DEF Thread, Unrecorded, PublishFails
    <3>4. QED
      BY <3>1, <3>2, <3>3
  <2>2. CASE v # w
    BY <1>6, <1>a, <2>2 DEF PublishFails
  <2>3. QED
    BY <2>1, <2>2
<1>7. ASSUME NEW v \in Worker, Leave(v) PROVE Goal
  <2>1. CASE worker[v].pc = "unwinding"
    <3>1. worker' = [worker EXCEPT ![v] = [worker[v] EXCEPT !.pc = "late", !.seat = NoSeat]]
      BY <1>7, <2>1, <1>a DEF Leave
    <3>2. QED
      BY <1>a, <2>1, <3>1 DEF Thread, Unrecorded
  <2>2. CASE worker[v].pc # "unwinding"
    BY <1>7, <2>2, <1>b DEF Leave, NoWork
  <2>3. QED
    BY <2>1, <2>2
<1>8. CASE UNCHANGED vars
  BY <1>8, <1>c DEF vars
<1> HIDE DEF Goal
<1>9. QED
  BY <1>1, <1>2, <1>3, <1>4, <1>5, <1>6, <1>7, <1>8, HomeAssumption
     DEF Next, WorkerStep, ReplayStep, Die, CutShort, CutTake, CutCommit, CutAdmit, CutAppend

-----------------------------------------------------------------------------
(***************************************************************************)
(* The stacks, while every batch is recorded before its Activity ends.     *)
(* StacksSound and ReservationKept need each other: commit moves a slot    *)
(* without looking, so the stacks stay sound only if it is the top one,    *)
(* and it stays on top because no Activity is admitted meanwhile.          *)
(***************************************************************************)
OnTime == Faults \cap {"unwound", "bypassed"} = {}

NoneLate == \A w \in Worker : worker[w].pc \notin {"unwinding", "late"}
MadeStands == \A w \in Worker : Unrecorded(w) => worker[w].made.state = "done"
PendingOf(p) ==
  LET now == h.content[replay[p].slot]
      batch == replay[p].batch
  IN
  /\ batch.op = now.op
  /\ replay[p].pc = "reserved" => batch = now
  /\ replay[p].pc = "replayed" =>
       /\ batch \in Batch
       /\ IF replay[p].complete
          THEN ~now.barrier /\ ~batch.barrier /\ batch.state = Reversed[now.state]
          ELSE batch.barrier
ReplayPending == \A p \in Process : Reserved(p) /\ Open => PendingOf(p)

StacksInv ==
  /\ ExclusionInv /\ NoneLate /\ MadeStands /\ ReplayPending
  /\ StacksSound /\ ReservationKept /\ StackMatchesState

LEMMA StayOnTime ==
  ASSUME OnTime, TypeInv, [Next]_vars, NoneLate, MadeStands
  PROVE  NoneLate' /\ MadeStands'
<1>. "unwound" \notin Faults /\ "bypassed" \notin Faults
  BY DEF OnTime
<1>1. ASSUME NEW w \in Worker PROVE worker'[w].pc \notin {"unwinding", "late"}
  BY ThreadKinds DEF NoneLate, Unrecorded
<1>2. ASSUME NEW w \in Worker, Unrecorded(w)' PROVE worker'[w].made.state = "done"
  BY <1>2, ThreadKinds DEF NoneLate, MadeStands, Unrecorded, NewWork
<1>3. QED
  BY <1>1, <1>2 DEF NoneLate, MadeStands

\* append: the slots in use are those of the new stacks.
LEMMA AppendKeepsSound ==
  ASSUME TypeOK, StacksSound, Open, NEW slot \in Slot, NEW batch \in Batch, Stored(slot, batch)
  PROVE  /\ Distinct(h'.undo) /\ Elements(h'.undo) = Elements(Kept) \cup {slot}
         /\ h'.redo = <<>> /\ Elements(Kept) \subseteq Elements(h.undo)
         /\ slot \notin Elements(Kept)
         /\ \A s \in Slot : h'.content[s] # NoBatch <=> s \in Elements(h'.undo)
         /\ \A s \in Elements(Kept) : h'.content[s] = h.content[s]
         /\ h'.content[slot] = batch
<1>a. h.undo \in Seq(Slot) /\ h.redo \in Seq(Slot) /\ h.content \in [Slot -> Batch \cup {NoBatch}]
  BY DEF TypeOK, Header
<1>b. /\ Distinct(h.undo) /\ Distinct(h.redo) /\ Elements(h.undo) \cap Elements(h.redo) = {}
      /\ Elements(h.undo) \cup Elements(h.redo) = {s \in Slot : h.content[s] # NoBatch}
  BY DEF StacksSound
<1> DEFINE oldest == IF Full THEN {h.undo[1]} ELSE {}
<1>1. /\ Kept \in Seq(Slot) /\ Distinct(Kept)
      /\ Elements(h.undo) = Elements(Kept) \cup oldest /\ Elements(Kept) \cap oldest = {}
  <2>1. CASE Full
    <3>1. h.undo # <<>>
      BY <2>1, SizeAssumption DEF Full
    <3>2. QED
      BY <1>a, <1>b, <2>1, <3>1, TailFactsOf DEF Kept
  <2>2. CASE ~Full
    BY <1>a, <1>b, <2>2 DEF Kept
  <2>3. QED
    BY <2>1, <2>2
<1>2. \A s \in Slot : Spare[s] = IF s \in Elements(h.redo) \cup oldest THEN NoBatch ELSE h.content[s]
  BY DEF Spare, Released
<1> HIDE DEF oldest
<1>3. \A s \in Slot : Spare[s] # NoBatch <=> s \in Elements(Kept)
  BY <1>b, <1>1, <1>2
<1>4. \A s \in Elements(Kept) : Spare[s] = h.content[s] /\ s \in Slot
  BY <1>b, <1>1, <1>2
<1>5. slot \notin Elements(Kept)
  BY <1>3 DEF Stored, IsLeast, FreeSlots
<1>6. Distinct(h'.undo) /\ Elements(h'.undo) = Elements(Kept) \cup {slot}
  BY <1>1, <1>5, AppendFactsOf DEF Stored
<1>7. /\ h'.content[slot] = batch
      /\ \A s \in Slot \ {slot} : h'.content[s] = Spare[s]
  BY AppendParts DEF Stored
<1>8. batch # NoBatch
  BY BatchFacts
<1>9. \A s \in Slot : h'.content[s] # NoBatch <=> s \in Elements(h'.undo)
  BY <1>3, <1>6, <1>7, <1>8
<1>10. \A s \in Elements(Kept) : h'.content[s] = h.content[s]
  BY <1>4, <1>5, <1>7
<1>11. QED
  BY <1>1, <1>5, <1>6, <1>7, <1>9, <1>10 DEF Stored

\* commit: the slot that it moves was on top, so the two stacks part the slots as before.
LEMMA CommitKeepsSound ==
  ASSUME StacksInv, NEW p \in Process, Commit(p), Open'
  PROVE  StacksSound' /\ StackMatchesState'
<1>a. /\ TypeInv /\ TypeOK /\ Open /\ Reserved(p) /\ replay[p].pc = "replayed"
      /\ replay[p].slot \in Slot /\ replay[p].way \in {"undo", "redo"}
  BY CommitParts DEF StacksInv, ExclusionInv, TypeInv
<1>b. h.undo \in Seq(Slot) /\ h.redo \in Seq(Slot) /\ h.content \in [Slot -> Batch \cup {NoBatch}]
  BY <1>a DEF TypeOK, Header
<1>c. /\ Distinct(h.undo) /\ Distinct(h.redo) /\ Elements(h.undo) \cap Elements(h.redo) = {}
      /\ Elements(h.undo) \cup Elements(h.redo) = {s \in Slot : h.content[s] # NoBatch}
  BY <1>a DEF StacksInv, StacksSound
<1>d. /\ \A s \in Elements(h.undo) : h.content[s].barrier \/ h.content[s].state = "done"
      /\ \A s \in Elements(h.redo) : h.content[s].barrier \/ h.content[s].state = "undone"
  BY <1>a DEF StacksInv, StackMatchesState, InState
<1> DEFINE way == replay[p].way
           slot == replay[p].slot
           batch == replay[p].batch
<1>e. /\ batch \in Batch /\ batch # NoBatch
      /\ IF replay[p].complete
         THEN ~h.content[slot].barrier /\ batch.state = Reversed[h.content[slot].state]
         ELSE batch.barrier
  BY <1>a, BatchFacts DEF StacksInv, ReplayPending, PendingOf
<1>f. Stack(way) # <<>> /\ Top(Stack(way)) = slot
  BY <1>a DEF StacksInv, ReservationKept
<1>1. PICK saved \in BOOLEAN, move \in BOOLEAN : Committed(p, saved, move)
  BY <1>a, CommitParts
<1>2. saved
  BY <1>1 DEF Committed, Open
<1>3. /\ move = replay[p].complete
      /\ h'.content = [h.content EXCEPT ![slot] = batch]
      /\ h'.undo = IF ~move THEN h.undo ELSE IF way = "undo" THEN Pop(h.undo) ELSE Append(h.undo, slot)
      /\ h'.redo = IF ~move THEN h.redo ELSE IF way = "undo" THEN Append(h.redo, slot) ELSE Pop(h.redo)
  BY <1>1, <1>2, <1>a DEF Committed, TypeOK, Command
<1>4. /\ h'.content[slot] = batch
      /\ \A s \in Slot \ {slot} : h'.content[s] = h.content[s]
  BY <1>a, <1>b, <1>3
<1>g. slot \in Slot /\ way \in {"undo", "redo"}
  BY <1>a
<1> HIDE DEF way, slot, batch
<1>5. CASE ~move
  <2>1. slot \in Elements(Stack(way))
    BY <1>b, <1>f, PopFactsOf DEF Stack
  <2>2. {s \in Slot : h'.content[s] # NoBatch} = {s \in Slot : h.content[s] # NoBatch}
    BY <1>c, <1>e, <1>g, <1>4, <2>1 DEF Stack
  <2>3. StacksSound'
    BY <1>c, <1>3, <1>5, <2>2 DEF StacksSound
  <2>4. StackMatchesState'
    BY <1>c, <1>d, <1>e, <1>3, <1>4, <1>5 DEF StackMatchesState, InState
  <2>5. QED
    BY <2>3, <2>4
<1>6. CASE move /\ way = "undo"
  <2>1. /\ h.undo # <<>> /\ Top(h.undo) = slot
        /\ h'.undo = Pop(h.undo) /\ h'.redo = Append(h.redo, slot)
    BY <1>f, <1>3, <1>6 DEF Stack
  <2>2. /\ Distinct(h'.undo) /\ slot \notin Elements(h'.undo)
        /\ Elements(h.undo) = Elements(h'.undo) \cup {slot}
    <3>1. /\ Distinct(Pop(h.undo)) /\ Top(h.undo) \notin Elements(Pop(h.undo))
          /\ Elements(h.undo) = Elements(Pop(h.undo)) \cup {Top(h.undo)}
      BY <1>b, <1>c, <2>1, PopFactsOf
    <3>2. QED
      BY <2>1, <3>1
  <2>3. Distinct(h'.redo) /\ Elements(h'.redo) = Elements(h.redo) \cup {slot}
    BY <1>b, <1>c, <1>g, <2>1, <2>2, AppendFactsOf
  <2>4. StacksSound'
    BY <1>c, <1>e, <1>g, <1>4, <2>2, <2>3 DEF StacksSound
  <2>5. h.content[slot].state = "done" /\ batch.state = "undone"
    BY <1>d, <1>e, <1>3, <1>6, <2>2 DEF Reversed
  <2>6. StackMatchesState'
    BY <1>c, <1>d, <1>4, <2>2, <2>3, <2>5 DEF StackMatchesState, InState
  <2>7. QED
    BY <2>4, <2>6
<1>7. CASE move /\ way = "redo"
  <2>1. /\ h.redo # <<>> /\ Top(h.redo) = slot
        /\ h'.redo = Pop(h.redo) /\ h'.undo = Append(h.undo, slot)
    BY <1>f, <1>3, <1>7 DEF Stack
  <2>2. /\ Distinct(h'.redo) /\ slot \notin Elements(h'.redo)
        /\ Elements(h.redo) = Elements(h'.redo) \cup {slot}
    <3>1. /\ Distinct(Pop(h.redo)) /\ Top(h.redo) \notin Elements(Pop(h.redo))
          /\ Elements(h.redo) = Elements(Pop(h.redo)) \cup {Top(h.redo)}
      BY <1>b, <1>c, <2>1, PopFactsOf
    <3>2. QED
      BY <2>1, <3>1
  <2>3. Distinct(h'.undo) /\ Elements(h'.undo) = Elements(h.undo) \cup {slot}
    BY <1>b, <1>c, <1>g, <2>1, <2>2, AppendFactsOf
  <2>4. StacksSound'
    BY <1>c, <1>e, <1>g, <1>4, <2>2, <2>3 DEF StacksSound
  <2>5. h.content[slot].state = "undone" /\ batch.state = "done"
    BY <1>d, <1>e, <1>3, <1>7, <2>2 DEF Reversed
  <2>6. StackMatchesState'
    BY <1>c, <1>d, <1>4, <2>2, <2>3, <2>5 DEF StackMatchesState, InState
  <2>7. QED
    BY <2>4, <2>6
<1>8. QED
  BY <1>5, <1>6, <1>7, <1>g

LEMMA StacksStep == OnTime /\ StacksInv /\ [Next]_vars => StacksInv'
<1>. SUFFICES ASSUME OnTime, StacksInv, [Next]_vars PROVE StacksInv'
  OBVIOUS
<1>a. TypeInv /\ TypeOK /\ TypeInv' /\ ExclusionInv /\ ExclusionInv' /\ ThreadsLive /\ ReplayExclusive
  BY ExclusionStep DEF StacksInv, ExclusionInv, TypeInv
<1>b. NoneLate' /\ MadeStands'
  BY <1>a, StayOnTime DEF StacksInv
<1>c. ASSUME NEW w \in Worker, Publish(w) \/ PublishFails(w) \/ LateBarrier(w)
      PROVE  \A p \in Process : ~Reserved(p) /\ ~Reserved(p)'
  <2>1. Unrecorded(w) /\ replay' = replay
    BY <1>a, <1>c, Recordings
  <2>2. Admitted(w)
    BY <2>1 DEF Unrecorded, Admitted, StacksInv, NoneLate
  <2>3. QED
    BY <1>a, <2>1, <2>2 DEF ReplayExclusive, Reserved
\* What a reservation found stays, and the step of its own process keeps to it.
<1>1. ASSUME NEW p \in Process, Reserved(p)', Open',
             h'.undo = h.undo, h'.redo = h.redo, h'.content = h.content, Open
      PROVE  /\ Stack(replay[p].way)' # <<>> /\ Top(Stack(replay[p].way)') = replay'[p].slot
             /\ PendingOf(p)'
  <2>1. CASE replay'[p] = replay[p]
    <3>1. Reserved(p) /\ Stack(replay[p].way)' = Stack(replay[p].way)
      BY <1>1, <2>1 DEF Reserved, Stack
    <3>2. QED
      BY <1>1, <2>1, <3>1 DEF StacksInv, ReservationKept, ReplayPending, PendingOf
  <2>2. CASE Take(p)
    <3>1. Stack(replay[p].way)' = Stack(replay[p].way)
      BY <1>1, <1>a, <2>2, TakeFinds DEF Stack
    <3>2. QED
      BY <1>1, <1>a, <2>2, <3>1, TakeFinds DEF PendingOf
  <2>3. CASE Replay(p)
    <3>1. Reserved(p) /\ Stack(replay[p].way)' = Stack(replay[p].way)
      BY <1>1, <1>a, <2>3, ReplayKeepsOp DEF Reserved, Stack
    <3>2. /\ Stack(replay[p].way) # <<>> /\ Top(Stack(replay[p].way)) = replay[p].slot
          /\ replay[p].batch = h.content[replay[p].slot]
      BY <1>1, <1>a, <2>3, <3>1, ReplayKeepsOp DEF StacksInv, ReservationKept, ReplayPending, PendingOf
    <3>3. QED
      BY <1>1, <1>a, <2>3, <3>1, <3>2, ReplayKeepsOp DEF PendingOf
  <2>4. ~QueueReplay(p)
    <3>1. SUFFICES ASSUME QueueReplay(p) PROVE replay'[p].pc = "queued"
      BY <1>1 DEF Reserved
    <3>2. QED
      BY <1>a, <3>1 DEF QueueReplay, TypeOK, Command
  <2>5. QED
    <3>1. /\ replay'[p].pc \notin {"idle", "asked"}
          /\ ~(Issuing(p) /\ Issuing(p)' /\ SameOrder(p) /\ UNCHANGED h)
      BY <1>1 DEF Reserved, Issuing
    <3>2. replay'[p] = replay[p] \/ Take(p) \/ Replay(p)
      BY <1>a, <2>4, <3>1, CommandKinds
    <3>3. QED
      BY <2>1, <2>2, <2>3, <3>2
<1>2. CASE Quiet
  <2>1. Open' => /\ Open /\ h'.undo = h.undo /\ h'.redo = h.redo /\ h'.content = h.content
    BY <1>2 DEF Quiet
  <2>2. StacksSound' /\ StackMatchesState'
    BY <2>1 DEF StacksInv, StacksSound, StackMatchesState, InState
  <2>3. ReservationKept' /\ ReplayPending'
    BY <1>1, <2>1 DEF ReservationKept, ReplayPending
  <2>4. QED
    BY <1>a, <1>b, <2>2, <2>3 DEF StacksInv
<1>3. CASE ~Session /\ h' = FreshHeader /\ \E p \in Process : Launch(p)
  <2>1. /\ h'.undo = <<>> /\ h'.redo = <<>> /\ \A s \in Slot : h'.content[s] = NoBatch
    BY <1>3 DEF FreshHeader
  <2>2. \A p \in Process : ~Reserved(p)'
    <3>1. replay' = replay
      BY <1>3 DEF Launch
    <3>2. QED
      BY <1>a, <1>3, <3>1 DEF ThreadsLive, Session, Reserved
  <2>3. StacksSound' /\ StackMatchesState'
    BY <2>1, EmptyStack DEF StacksSound, StackMatchesState
  <2>4. QED
    BY <1>a, <1>b, <2>2, <2>3 DEF StacksInv, ReservationKept, ReplayPending
<1>4. ASSUME NEW w \in Worker, Publish(w) \/ PublishFails(w) \/ LateBarrier(w) PROVE StacksInv'
  <2>1. CASE UNCHANGED h
    <3>1. Quiet
      BY <1>a, <2>1 DEF Quiet, Open, TypeOK, Header
    <3>2. QED
      BY <1>2, <3>1
  <2>2. ASSUME NEW batch \in {worker[w].made, AsBarrier(worker[w].made)}, batch \in Batch, AppendBatch(batch)
        PROVE  StacksInv'
    <3>1. CASE ~Open'
      BY <1>a, <1>b, <3>1
         DEF StacksInv, StacksSound, StackMatchesState, ReservationKept, ReplayPending
    <3>2. CASE Open'
      <4>1. PICK slot \in Slot : Open /\ Stored(slot, batch)
        BY <1>a, <2>2, <3>2, AppendKinds DEF Open
      <4>2. batch.state = "done"
        <5>1. worker[w].made.state = "done" /\ worker[w].made \in Batch
          BY <1>a, <1>4, Recordings DEF StacksInv, MadeStands
        <5>2. QED
          BY <2>2, <5>1 DEF AsBarrier, Batch
      <4>3. StacksSound'
        <5>1. /\ Distinct(h'.undo) /\ h'.redo = <<>>
              /\ Elements(h'.undo) = {s \in Slot : h'.content[s] # NoBatch}
          <6>1. Elements(h'.undo) \subseteq Slot
            BY <1>a, LenProperties DEF Elements, TypeInv, TypeOK, Header
          <6>2. QED
            BY <1>a, <2>2, <4>1, <6>1, AppendKeepsSound DEF StacksInv
        <5>2. QED
          BY <5>1, EmptyStack DEF StacksSound
      <4>4. StackMatchesState'
        <5>1. \A s \in Elements(Kept) : h.content[s].barrier \/ h.content[s].state = "done"
          BY <1>a, <2>2, <4>1, AppendKeepsSound DEF StacksInv, StackMatchesState, InState
        <5>2. \A s \in Elements(h'.undo) : h'.content[s].barrier \/ h'.content[s].state = "done"
          BY <1>a, <2>2, <4>1, <4>2, <5>1, AppendKeepsSound DEF StacksInv
        <5>3. Elements(h'.redo) = {}
          BY <1>a, <2>2, <4>1, EmptyStack DEF Stored
        <5>4. QED
          BY <5>2, <5>3 DEF StackMatchesState, InState
      <4>5. QED
        BY <1>a, <1>b, <1>c, <1>4, <4>3, <4>4 DEF StacksInv, ReservationKept, ReplayPending
    <3>3. QED
      BY <3>1, <3>2
  <2>3. QED
    BY <1>a, <1>4, <2>1, <2>2, Recordings
<1>5. ASSUME NEW p \in Process, Commit(p) PROVE StacksInv'
  <2>1. \A q \in Process : ~Reserved(q)'
    BY <1>a, <1>5, CommitParts DEF ReplayExclusive, Reserved, TypeOK, NoReplay
  <2>2. StacksSound' /\ StackMatchesState'
    BY <1>5, CommitKeepsSound DEF StacksSound, StackMatchesState
  <2>3. QED
    BY <1>a, <1>b, <2>1, <2>2 DEF StacksInv, ReservationKept, ReplayPending
<1>6. CASE ~Open'
  BY <1>a, <1>b, <1>6 DEF StacksInv, StacksSound, StackMatchesState, ReservationKept, ReplayPending
<1>7. QED
  BY <1>a, <1>2, <1>3, <1>4, <1>5, <1>6, StackKinds

LEMMA StacksInit == Init => StacksInv
<1>. SUFFICES ASSUME Init PROVE StacksInv
  OBVIOUS
<1>1. /\ \A p \in Process : ~Reserved(p)
      /\ \A w \in Worker : worker[w].pc = "idle"
  BY DEF Init, Reserved, NoReplay, NoWork
<1>2. /\ h.undo = <<>> /\ h.redo = <<>> /\ \A s \in Slot : h.content[s] = NoBatch
  BY DEF Init, FreshHeader
<1>3. StacksSound /\ StackMatchesState
  BY <1>2, EmptyStack DEF StacksSound, StackMatchesState
<1>4. QED
  BY <1>1, <1>3, ExclusionInit
     DEF StacksInv, NoneLate, MadeStands, ReplayPending, ReservationKept, Unrecorded

(***************************************************************************)
(* While every batch is recorded before its Activity ends, an open history *)
(* has its batches on exactly one stack each and loses none, whichever     *)
(* processes publish, replay and die, and at which store they die.         *)
(***************************************************************************)
THEOREM StacksStaySound == OnTime => (Spec => []StacksSound)
<1>. SUFFICES ASSUME OnTime PROVE Spec => []StacksSound
  OBVIOUS
<1>1. StacksInv /\ [Next]_vars => StacksInv'
  BY StacksStep
<1>2. StacksInv => StacksSound
  BY DEF StacksInv
<1>3. QED
  BY <1>1, <1>2, StacksInit, PTL DEF Spec

(***************************************************************************)
(* Then commit finds what take reserved: the stack is not empty and the    *)
(* reserved slot is on top of it, so commit may move it without looking.   *)
(* The run history_late_barrier shows that it may not for later barriers.  *)
(***************************************************************************)
THEOREM CommitFindsItsSlot == OnTime => (Spec => []ReservationKept)
<1>. SUFFICES ASSUME OnTime PROVE Spec => []ReservationKept
  OBVIOUS
<1>1. StacksInv /\ [Next]_vars => StacksInv'
  BY StacksStep
<1>2. StacksInv => ReservationKept
  BY DEF StacksInv
<1>3. QED
  BY <1>1, <1>2, StacksInit, PTL DEF Spec

(***************************************************************************)
(* Then no operation is reversed twice or repeated while it stands: what   *)
(* may be replayed from the undo stack stands, from the redo stack not.    *)
(***************************************************************************)
THEOREM StacksMatchTheDisk == OnTime => (Spec => []StackMatchesState)
<1>. SUFFICES ASSUME OnTime PROVE Spec => []StackMatchesState
  OBVIOUS
<1>1. StacksInv /\ [Next]_vars => StacksInv'
  BY StacksStep
<1>2. StacksInv => StackMatchesState
  BY DEF StacksInv
<1>3. QED
  BY <1>1, <1>2, StacksInit, PTL DEF Spec
-----------------------------------------------------------------------------
(***************************************************************************)
(* What a step that leaves the history open does to the participants.      *)
(***************************************************************************)
SeatsLeft ==
  /\ h'.count = h.count /\ h'.replayPid = h.replayPid
  /\ \A w \in Worker : Admitted(w)' => Admitted(w) /\ worker'[w].seat = worker[w].seat
  /\ \A p \in Process : Reserved(p)' => Reserved(p)

LEMMA LockLeaves ==
  ASSUME TypeOK
  PROVE  /\ h' = Locked /\ Open' => h'.count = h.count /\ h'.replayPid = h.replayPid
         /\ h' = Swept /\ Open' => h'.count = h.count /\ h'.replayPid = h.replayPid
         /\ ~Locked.blocked => Locked.replayPid = h.replayPid /\ Locked.count = h.count
<1>1. ~Locked.blocked => Locked.replayPid = h.replayPid /\ Locked.count = h.count
  BY LockedFacts, LockedOpen
<1>2. h' = Swept /\ Open' => h'.count = h.count /\ h'.replayPid = h.replayPid
  <2>. SUFFICES ASSUME h' = Swept, Open' PROVE h'.count = h.count /\ h'.replayPid = h.replayPid
    OBVIOUS
  <2>1. ~Swept.blocked /\ ~Locked.blocked /\ Stale = {}
    BY LockedOpen DEF Open
  <2>2. Swept.count \in [Entry -> Nat] /\ h.count \in [Entry -> Nat]
    BY SweptFacts DEF TypeOK, Header
  <2>3. \A e \in Entry : Swept.count[e] = h.count[e]
    BY <2>1, SweptFacts
  <2>4. Swept.count = h.count
    BY <2>2, <2>3
  <2>5. QED
    BY <1>1, <2>1, <2>4, SweptFacts
<1>3. QED
  BY <1>1, <1>2 DEF Open

LEMMA SeatKinds ==
  ASSUME TypeInv, [Next]_vars, Open'
  PROVE  \/ ~Session /\ h' = FreshHeader /\ lost' = FALSE /\ UNCHANGED <<replay, worker>>
         \/ SeatsLeft
         \/ \E w \in Worker : Admit(w) \/ Leave(w)
         \/ \E p \in Process : Take(p) \/ Commit(p)
<1>. DEFINE Goal == \/ ~Session /\ h' = FreshHeader /\ lost' = FALSE /\ UNCHANGED <<replay, worker>>
                    \/ SeatsLeft
                    \/ \E w \in Worker : Admit(w) \/ Leave(w)
                    \/ \E p \in Process : Take(p) \/ Commit(p)
<1>. SUFFICES Goal
  OBVIOUS
<1>a. /\ TypeOK /\ h \in Header /\ Locked \in Header /\ Swept \in Header
      /\ worker \in [Worker -> Thread] /\ replay \in [Process -> Command]
  BY LockedFacts, SweptFacts DEF TypeInv, TypeOK
<1>b. ASSUME h' = h \/ h' = Locked \/ h' = Swept
      PROVE  h'.count = h.count /\ h'.replayPid = h.replayPid
  BY <1>a, <1>b, LockLeaves
<1>1. ASSUME NEW p \in Process, Launch(p) PROVE Goal
  <2>1. CASE Session
    <3>1. h'.count = h.count /\ h'.replayPid = h.replayPid
      BY <1>1, <1>a, <2>1 DEF Launch, Header
    <3>2. SeatsLeft
      BY <1>1, <3>1 DEF Launch, SeatsLeft, Admitted, Reserved
    <3>3. QED
      BY <3>2
  <2>2. QED
    BY <1>1, <2>1 DEF Launch
<1>2. ASSUME NEW p \in Process, NEW t, replay' = [replay EXCEPT ![p] = t] \/ replay' = replay,
             t.pc \in {"reserved", "replayed"} => Reserved(p),
             UNCHANGED worker, h' = h \/ h' = Locked \/ h' = Swept
      PROVE  Goal
  <2>1. \A q \in Process : Reserved(q)' => Reserved(q)
    BY <1>2, <1>a DEF Reserved
  <2>2. SeatsLeft
    BY <1>2, <1>b, <2>1 DEF SeatsLeft, Admitted
  <2>3. QED
    BY <2>2
<1>3. ASSUME NEW p \in Process, NEW way \in {"undo", "redo"}, Ask(p, way) PROVE Goal
  <2>1. [NoReplay EXCEPT !.pc = "asked", !.way = way].pc = "asked"
    BY DEF NoReplay
  <2>2. QED
    BY <1>2, <1>3, <2>1 DEF Ask
<1>4. ASSUME NEW p \in Process, QueueReplay(p) \/ DropCommand(p) \/ AwaitExclusive(p)
                                \/ EnterExclusive(p) \/ TakeRefused(p) \/ Replay(p)
      PROVE  Goal
  <2>1. replay'[p].pc \in {"reserved", "replayed"} => Reserved(p)
    <3>1. CASE Replay(p)
      BY <3>1 DEF Replay, Reserved
    <3>2. CASE DropCommand(p) \/ TakeRefused(p)
      BY <3>2, <1>a DEF DropCommand, TakeRefused, NoReplay
    <3>3. CASE QueueReplay(p)
      BY <3>3, <1>a DEF QueueReplay, Command
    <3>4. CASE AwaitExclusive(p) \/ EnterExclusive(p)
      BY <3>4, <1>a DEF AwaitExclusive, EnterExclusive, Command
    <3>5. QED
      BY <1>4, <3>1, <3>2, <3>3, <3>4
  <2>2. \A q \in Process \ {p} : replay'[q] = replay[q]
    BY <1>4, <1>a DEF QueueReplay, DropCommand, AwaitExclusive, EnterExclusive, TakeRefused, Replay
  <2>3. UNCHANGED worker /\ (h' = h \/ h' = Locked \/ h' = Swept)
    BY <1>4 DEF QueueReplay, DropCommand, AwaitExclusive, EnterExclusive, TakeRefused, Replay
  <2>4. SeatsLeft
    BY <1>b, <2>1, <2>2, <2>3 DEF SeatsLeft, Admitted, Reserved
  <2>5. QED
    BY <2>4
<1>5. ASSUME NEW p \in Process, Abandon(p) PROVE Goal
  BY <1>5, <1>a DEF Abandon, Header, Open
<1>6. ASSUME NEW p \in Process, Die(p) PROVE Goal
  <2>1. SeatsLeft
    BY <1>6, <1>a DEF Die, End, SeatsLeft, Admitted, Reserved, NoWork, NoReplay
  <2>2. QED
    BY <2>1
<1>7. ASSUME NEW p \in Process, CutShort(p) \/ CutTake(p) \/ CutCommit(p) PROVE Goal
  BY <1>7, <1>a DEF CutShort, CutTake, CutCommit, Header, Open
<1>8. ASSUME NEW w \in Worker, CutAdmit(w) \/ CutAppend(w) PROVE Goal
  <2>1. CASE CutAdmit(w)
    BY <2>1, <1>a DEF CutAdmit, Header, Open
  <2>2. CASE CutAppend(w)
    BY <2>2, <1>a, TornAppend DEF CutAppend, Open
  <2>3. QED
    BY <1>8, <2>1, <2>2
<1>9. ASSUME NEW w \in Worker, worker'[w].pc \in {"working", "mutated", "unwinding"} =>
                                 Admitted(w) /\ worker'[w].seat = worker[w].seat,
             \A v \in Worker \ {w} : worker'[v] = worker[v], UNCHANGED replay,
             h'.count = h.count /\ h'.replayPid = h.replayPid
      PROVE  Goal
  <2>1. SeatsLeft
    BY <1>9 DEF SeatsLeft, Admitted, Reserved
  <2>2. QED
    BY <2>1
<1>10. ASSUME NEW w \in Worker,
              StartWorker(w) \/ Perform(w) \/ Bypass(w) \/ EnterShared(w)
              \/ \E o \in Worker : StartNested(w, o)
       PROVE  Goal
  <2>1. UNCHANGED <<h, replay>> /\ \A v \in Worker \ {w} : worker'[v] = worker[v]
    BY <1>10, <1>a DEF StartWorker, Perform, Bypass, EnterShared, StartNested
  <2>2. worker'[w].pc \in {"working", "mutated", "unwinding"} =>
          Admitted(w) /\ worker'[w].seat = worker[w].seat
    <3>1. CASE StartWorker(w) \/ EnterShared(w)
      BY <3>1, <1>a DEF StartWorker, EnterShared, NoWork, Thread
    <3>2. CASE Perform(w)
      BY <3>2, <1>a DEF Perform, Thread, Admitted
    <3>3. CASE Bypass(w)
      BY <3>3, <1>a DEF Bypass, NoWork
    <3>4. CASE \E o \in Worker : StartNested(w, o)
      BY <3>4, <1>a DEF StartNested, NoWork
    <3>5. QED
      BY <1>10, <3>1, <3>2, <3>3, <3>4
  <2>3. QED
    BY <1>9, <2>1, <2>2
<1>11. ASSUME NEW w \in Worker, Refuse(w) PROVE Goal
  BY <1>11, <1>a DEF Refuse, Header, Open
<1>12. ASSUME NEW w \in Worker, Publish(w) \/ PublishFails(w) \/ LateBarrier(w) PROVE Goal
  <2>1. h'.count = h.count /\ h'.replayPid = h.replayPid
    <3>1. ASSUME NEW batch \in Batch, AppendBatch(batch)
          PROVE  h'.count = h.count /\ h'.replayPid = h.replayPid
      <4>1. ~Locked.blocked
        BY <3>1 DEF AppendBatch, Open
      <4>2. QED
        BY <3>1, <4>1, <1>a, AppendFacts, LockLeaves
    <3>2. QED
      BY <1>12, <3>1, Recordings
  <2>2. UNCHANGED replay /\ \A v \in Worker \ {w} : worker'[v] = worker[v]
    BY <1>12, <1>a DEF Publish, PublishFails, LateBarrier
  <2>3. worker'[w].pc \in {"working", "mutated", "unwinding"} =>
          Admitted(w) /\ worker'[w].seat = worker[w].seat
    <3>1. CASE Publish(w)
      BY <3>1, <1>a DEF Publish, Thread, Admitted
    <3>2. CASE PublishFails(w)
      BY <3>2, <1>a DEF PublishFails, Thread, Admitted
    <3>3. CASE LateBarrier(w)
      BY <3>3, <1>a DEF LateBarrier, NoWork
    <3>4. QED
      BY <1>12, <3>1, <3>2, <3>3
  <2>4. QED
    BY <1>9, <2>1, <2>2, <2>3
<1>13. CASE UNCHANGED vars
  <2>1. SeatsLeft
    BY <1>13 DEF vars, SeatsLeft, Admitted, Reserved
  <2>2. QED
    BY <2>1
<1>14. ASSUME NEW w \in Worker, Admit(w) \/ Leave(w) PROVE Goal
  BY <1>14
<1>15. ASSUME NEW p \in Process, Take(p) \/ Commit(p) PROVE Goal
  BY <1>15
<1> HIDE DEF Goal
<1>16. QED
  BY <1>1, <1>3, <1>4, <1>5, <1>6, <1>7, <1>8, <1>10, <1>11, <1>12, <1>13, <1>14, <1>15
     DEF Next, WorkerStep, ReplayStep

-----------------------------------------------------------------------------
(***************************************************************************)
(* Lost work, while the recorder fails at most in a way that it repairs    *)
(* under its own Activity.  A change that nobody will record leaves a      *)
(* witness in the header until the history is closed: an entry that counts *)
(* more threads than its process runs, or a reservation nobody holds.      *)
(* take refuses in either case.                                            *)
(***************************************************************************)
Recoverable == Faults \subseteq {"retained"}

Uncounted(e) == h.count[e] > Cardinality(Seated(e))
Ownerless == h.replayPid # NoProcess /\ ~Reserved(h.replayPid)
Witnessed == lost => ~Open \/ Ownerless \/ \E e \in Entry : Uncounted(e)

LossInv == StacksInv /\ Witnessed

LEMMA StillUncounted ==
  ASSUME ExclusionInv, NEW e \in Entry, Uncounted(e), h'.count = h.count,
         \A w \in Worker : Admitted(w)' => Admitted(w) /\ worker'[w].seat = worker[w].seat
  PROVE  Uncounted(e)'
<1>1. Seated(e)' \subseteq Seated(e)
  BY DEF Seated
<1>2. /\ Cardinality(Seated(e)') <= Cardinality(Seated(e))
      /\ Cardinality(Seated(e)') \in Nat /\ Cardinality(Seated(e)) \in Nat
  BY <1>1, SeatedFinite, FS_Subset, FS_CardinalityType
<1>3. h.count[e] \in Nat
  BY DEF ExclusionInv, TypeInv, TypeOK, Header
<1>4. QED
  BY <1>2, <1>3 DEF Uncounted

LEMMA LossKinds ==
  ASSUME Recoverable, TypeInv, [Next]_vars, Open', lost', ~lost
  PROVE  \E p \in Process : End(p) /\ UNCHANGED h /\ (Reserved(p) \/ \E w \in Workers(p) : Unrecorded(w))
<1>a. TypeOK /\ h \in Header /\ Locked \in Header /\ Swept \in Header
  BY LockedFacts, SweptFacts DEF TypeInv, TypeOK
<1>1. ASSUME NEW p \in Process, NEW way \in {"undo", "redo"},
             \/ Launch(p) \/ QueueReplay(p) \/ DropCommand(p) \/ AwaitExclusive(p) \/ EnterExclusive(p)
             \/ Take(p) \/ TakeRefused(p) \/ Replay(p) \/ Ask(p, way)
      PROVE  FALSE
  BY <1>1 DEF Launch, QueueReplay, DropCommand, AwaitExclusive, EnterExclusive, Take, TakeRefused, Replay, Ask
<1>2. ASSUME NEW p \in Process, Abandon(p) \/ CutShort(p) \/ CutTake(p) \/ CutCommit(p) PROVE FALSE
  BY <1>2, <1>a DEF Abandon, CutShort, CutTake, CutCommit, Header, Open
<1>3. ASSUME NEW p \in Process, Commit(p) PROVE FALSE
  BY <1>3, CommitParts DEF Committed, Open
<1>4. ASSUME NEW w \in Worker,
             StartWorker(w) \/ Perform(w) \/ Bypass(w) \/ EnterShared(w) \/ Admit(w) \/ Refuse(w)
             \/ Leave(w) \/ \E o \in Worker : StartNested(w, o)
      PROVE  FALSE
  BY <1>4 DEF StartWorker, Perform, Bypass, EnterShared, StartNested, Admit, TakeSeat, Refuse, Leave
<1>5. ASSUME NEW w \in Worker, CutAdmit(w) \/ CutAppend(w) PROVE FALSE
  <2>1. CASE CutAdmit(w)
    BY <2>1, <1>a DEF CutAdmit, Header, Open
  <2>2. CASE CutAppend(w)
    BY <2>2, <1>a, TornAppend DEF CutAppend, Open
  <2>3. QED
    BY <1>5, <2>1, <2>2
<1>6. ASSUME NEW w \in Worker, Publish(w) \/ PublishFails(w) \/ LateBarrier(w) PROVE FALSE
  <2>1. \/ \E batch \in {worker[w].made, AsBarrier(worker[w].made)} : AppendBatch(batch)
        \/ UNCHANGED lost
    BY <1>6 DEF Publish, PublishFails, LateBarrier, Recoverable
  <2>2. worker[w].made \in Batch /\ AsBarrier(worker[w].made) \in Batch
    BY <1>6, Recordings, BatchFacts
  <2>3. QED
    BY <1>a, <2>1, <2>2, AppendKinds DEF Open
<1>7. CASE UNCHANGED vars
  BY <1>7 DEF vars
<1>8. ASSUME NEW p \in Process, Die(p)
      PROVE  End(p) /\ UNCHANGED h /\ (Reserved(p) \/ \E w \in Workers(p) : Unrecorded(w))
  BY <1>8 DEF Die, End
<1>9. QED
  BY <1>1, <1>2, <1>3, <1>4, <1>5, <1>6, <1>7, <1>8 DEF Next, WorkerStep, ReplayStep

\* A process that ends with a reservation or an unrecorded change is missed.
LEMMA EndLeavesWitness ==
  ASSUME ExclusionInv, Recoverable, NoneLate, NEW p \in Process, End(p), UNCHANGED h,
         Reserved(p) \/ \E w \in Workers(p) : Unrecorded(w)
  PROVE  Ownerless' \/ \E e \in Entry : Uncounted(e)'
<1>1. CASE Reserved(p)
  <2>1. h'.replayPid = p /\ p # NoProcess
    BY <1>1, ReservationStays
  <2>2. ~Reserved(p)'
    BY DEF End, ExclusionInv, TypeInv, TypeOK, Reserved, NoReplay
  <2>3. QED
    BY <2>1, <2>2 DEF Ownerless, Reserved
<1>2. ASSUME NEW w \in Workers(p), Unrecorded(w) PROVE \E e \in Entry : Uncounted(e)'
  <2>1. w \in Worker /\ Home[w] = p /\ Admitted(w)
    BY <1>2 DEF Workers, NoneLate, Unrecorded, Admitted
  <2>2. PICK e \in Entry : w \in Seated(e)
    BY <2>1 DEF ExclusionInv, SeatsNamed, Seated
  <2>3. Seated(e)' \subseteq Seated(e) \ {w}
    BY <2>1 DEF End, Seated, Admitted, NoWork
  <2>4. /\ IsFiniteSet(Seated(e)) /\ Cardinality(Seated(e)) \in Nat
        /\ Cardinality(Seated(e)') \in Nat
    BY SeatedFinite, <2>3, FS_Subset, FS_CardinalityType
  <2>5. Cardinality(Seated(e) \ {w}) = Cardinality(Seated(e)) - 1
    BY <2>2, <2>4, FS_RemoveElement
  <2>6. Cardinality(Seated(e)') <= Cardinality(Seated(e) \ {w})
    <3>1. IsFiniteSet(Seated(e) \ {w})
      BY <2>4, FS_Subset
    <3>2. QED
      BY <2>3, <3>1, FS_Subset
  <2>7. Cardinality(Seated(e)) <= h.count[e] /\ h.count[e] \in Nat
    BY <2>2 DEF ExclusionInv, SeatsCounted, TypeInv, TypeOK, Header
  <2>8. Uncounted(e)'
    <3>1. h'.count[e] > Cardinality(Seated(e)')
      BY <2>4, <2>5, <2>6, <2>7
    <3>2. QED
      BY <3>1 DEF Uncounted
  <2>9. QED
    BY <2>2, <2>8
<1>3. QED
  BY <1>1, <1>2

LEMMA AdmitKeepsWitness ==
  ASSUME ExclusionInv, NEW w \in Worker, Admit(w), NEW e \in Entry, Uncounted(e)
  PROVE  Uncounted(e)'
<1>a. TypeOK /\ Locked \in Header /\ Locked.count = h.count /\ h.count \in [Entry -> Nat]
  BY LockedFacts DEF ExclusionInv, TypeInv, TypeOK, Header
<1>1. PICK f \in Entry : TakeSeat(w, f, [Locked EXCEPT !.pidOf[f] = Home[w], !.count[f] = @ + 1])
  BY DEF Admit
<1>2. h'.count = [h.count EXCEPT ![f] = @ + 1]
  BY <1>1, <1>a DEF TakeSeat, Header
<1>3. \A x \in Worker \ {w} : worker'[x] = worker[x]
  BY <1>1, <1>a DEF TakeSeat, TypeOK
<1>4. worker'[w].seat = f
  BY <1>1, <1>a DEF TakeSeat, TypeOK, Thread
<1>5. Seated(e)' \subseteq IF e = f THEN Seated(e) \cup {w} ELSE Seated(e)
  BY <1>3, <1>4 DEF Seated, Admitted
<1>6. /\ IsFiniteSet(Seated(e)) /\ Cardinality(Seated(e)) \in Nat
      /\ IsFiniteSet(Seated(e) \cup {w}) /\ Cardinality(Seated(e) \cup {w}) \in Nat
      /\ Cardinality(Seated(e) \cup {w}) <= Cardinality(Seated(e)) + 1
  <2>1. IsFiniteSet(Seated(e)) /\ Cardinality(Seated(e)) \in Nat
    BY SeatedFinite
  <2>2. /\ IsFiniteSet(Seated(e) \cup {w})
        /\ \/ Cardinality(Seated(e) \cup {w}) = Cardinality(Seated(e))
           \/ Cardinality(Seated(e) \cup {w}) = Cardinality(Seated(e)) + 1
    BY <2>1, FS_AddElement
  <2>3. QED
    BY <2>1, <2>2
<1>7. CASE e = f
  <2>1. /\ Cardinality(Seated(e)') <= Cardinality(Seated(e) \cup {w})
        /\ Cardinality(Seated(e)') \in Nat
    BY <1>5, <1>6, <1>7, FS_Subset, FS_CardinalityType
  <2>2. h'.count[e] = h.count[e] + 1 /\ h.count[e] \in Nat
    BY <1>a, <1>2, <1>7
  <2>3. h'.count[e] > Cardinality(Seated(e)')
    BY <2>1, <2>2, <1>6 DEF Uncounted
  <2>4. QED
    BY <2>3 DEF Uncounted
<1>8. CASE e # f
  <2>1. /\ Cardinality(Seated(e)') <= Cardinality(Seated(e))
        /\ Cardinality(Seated(e)') \in Nat
    BY <1>5, <1>6, <1>8, FS_Subset, FS_CardinalityType
  <2>2. h'.count[e] = h.count[e] /\ h.count[e] \in Nat
    BY <1>a, <1>2, <1>8
  <2>3. h'.count[e] > Cardinality(Seated(e)')
    BY <2>1, <2>2, <1>6 DEF Uncounted
  <2>4. QED
    BY <2>3 DEF Uncounted
<1>9. QED
  BY <1>7, <1>8

LEMMA LeaveKeepsWitness ==
  ASSUME ExclusionInv, NEW w \in Worker, Leave(w), NEW e \in Entry, Uncounted(e)
  PROVE  Uncounted(e)'
<1>a. TypeOK /\ Locked \in Header /\ Locked.count = h.count /\ h.count \in [Entry -> Nat]
  BY LockedFacts DEF ExclusionInv, TypeInv, TypeOK, Header
<1> DEFINE f == worker[w].seat
<1>1. Admitted(w) /\ f \in Entry /\ w \in Seated(f)
  BY DEF Leave, Admitted, ExclusionInv, SeatsNamed, Seated
<1>2. h'.count = [h.count EXCEPT ![f] = IF @ > 0 THEN @ - 1 ELSE @]
  BY <1>a DEF Leave, Header
<1>3. ~Admitted(w)' /\ \A x \in Worker \ {w} : worker'[x] = worker[x]
  <2>1. worker' = [worker EXCEPT ![w] =
          IF worker[w].pc = "unwinding" THEN [worker[w] EXCEPT !.pc = "late", !.seat = NoSeat] ELSE NoWork]
    BY <1>a DEF Leave, TypeOK
  <2>2. QED
    BY <1>a, <2>1 DEF TypeOK, Thread, Admitted, NoWork
<1> HIDE DEF f
<1>4. Seated(e)' \subseteq Seated(e) \ {w}
  BY <1>3 DEF Seated, Admitted
<1>5. IsFiniteSet(Seated(e)) /\ Cardinality(Seated(e)) \in Nat
  BY SeatedFinite
<1>6. CASE e = f
  <2>1. Cardinality(Seated(e) \ {w}) = Cardinality(Seated(e)) - 1 /\ IsFiniteSet(Seated(e) \ {w})
    BY <1>1, <1>5, <1>6, FS_RemoveElement, FS_Subset
  <2>2. Cardinality(Seated(e)') <= Cardinality(Seated(e) \ {w}) /\ Cardinality(Seated(e)') \in Nat
    BY <1>4, <2>1, FS_Subset, FS_CardinalityType
  <2>3. h.count[e] \in Nat /\ h'.count[e] = IF h.count[e] > 0 THEN h.count[e] - 1 ELSE h.count[e]
    BY <1>1, <1>2, <1>6, <1>a
  <2>4. h'.count[e] > Cardinality(Seated(e)')
    BY <1>5, <2>1, <2>2, <2>3 DEF Uncounted
  <2>5. QED
    BY <2>4 DEF Uncounted
<1>7. CASE e # f
  <2>1. Cardinality(Seated(e)') <= Cardinality(Seated(e)) /\ Cardinality(Seated(e)') \in Nat
    BY <1>4, <1>5, FS_Subset, FS_CardinalityType
  <2>2. h.count[e] \in Nat /\ h'.count[e] = h.count[e]
    BY <1>2, <1>7, <1>a
  <2>3. h'.count[e] > Cardinality(Seated(e)')
    BY <1>5, <2>1, <2>2 DEF Uncounted
  <2>4. QED
    BY <2>3 DEF Uncounted
<1>8. QED
  BY <1>6, <1>7

\* take leaves no witness unnoticed.
LEMMA TakeRefusesLost ==
  ASSUME ExclusionInv, NEW p \in Process, Take(p)
  PROVE  ~Ownerless /\ \A e \in Entry : ~Uncounted(e)
<1>1. /\ h.replayPid \notin Process /\ \A e \in Entry : ~(h.count[e] > 0)
      /\ h.replayPid \in Process \cup {NoProcess} /\ \A e \in Entry : h.count[e] \in Nat
  BY TakeFinds DEF ExclusionInv, TypeInv, TypeOK, Header
<1>2. ASSUME NEW e \in Entry PROVE ~Uncounted(e)
  BY <1>1, SeatedFinite DEF Uncounted
<1>3. QED
  BY <1>1, <1>2 DEF Ownerless

\* Only a new session opens a history, and it has lost nothing.
LEMMA OpenKept ==
  ASSUME TypeInv, [Next]_vars, Open', lost'
  PROVE  Open
<1>1. ASSUME NEW w \in Worker, Publish(w) \/ PublishFails(w) \/ LateBarrier(w) PROVE Open
  <2>1. CASE UNCHANGED h
    BY <2>1 DEF Open
  <2>2. ASSUME NEW batch \in Batch, AppendBatch(batch) PROVE Open
    BY <2>2, AppendKinds DEF TypeInv, Open
  <2>3. QED
    BY <1>1, <2>1, <2>2, Recordings
<1>2. QED
  BY <1>1, StackKinds, CommitParts DEF Quiet, Launch

LEMMA LossStep == Recoverable /\ LossInv /\ [Next]_vars => LossInv'
<1>. SUFFICES ASSUME Recoverable, LossInv, [Next]_vars PROVE LossInv'
  OBVIOUS
<1>a. StacksInv' /\ StacksInv /\ ExclusionInv /\ TypeInv /\ TypeOK /\ NoneLate
  BY StacksStep DEF Recoverable, OnTime, LossInv, StacksInv, ExclusionInv, TypeInv
<1>b. h.replayPid \in Process \cup {NoProcess}
  BY <1>a DEF TypeOK, Header
<1>. SUFFICES ASSUME Open', lost' PROVE Ownerless' \/ \E e \in Entry : Uncounted(e)'
  BY <1>a DEF LossInv, Witnessed
<1>1. CASE ~lost
  BY <1>1, <1>a, LossKinds, EndLeavesWitness
<1>2. CASE lost
  <2>1. Open
    BY <1>2, <1>a, OpenKept
  <2>2. Ownerless \/ \E e \in Entry : Uncounted(e)
    BY <1>2, <2>1 DEF LossInv, Witnessed
  <2>3. CASE SeatsLeft
    <3>1. Ownerless => Ownerless'
      BY <1>b, <2>3 DEF SeatsLeft, Ownerless
    <3>2. \A e \in Entry : Uncounted(e) => Uncounted(e)'
      BY <1>a, <2>3, StillUncounted DEF SeatsLeft
    <3>3. QED
      BY <2>2, <3>1, <3>2
  <2>4. ASSUME NEW w \in Worker, Admit(w) PROVE Ownerless' \/ \E e \in Entry : Uncounted(e)'
    <3>1. ~Ownerless
      <4>1. Locked.replayPid = NoProcess /\ Locked \in Header
        BY <1>a, <2>4, LockedFacts DEF Admit
      <4>2. h'.blocked = Locked.blocked
        BY <2>4, <4>1 DEF Admit, TakeSeat, Header
      <4>3. h.replayPid = NoProcess
        BY <1>a, <4>1, <4>2, LockLeaves DEF Open
      <4>4. QED
        BY <4>3 DEF Ownerless
    <3>2. QED
      BY <1>a, <2>2, <2>4, <3>1, AdmitKeepsWitness
  <2>5. ASSUME NEW w \in Worker, Leave(w) PROVE Ownerless' \/ \E e \in Entry : Uncounted(e)'
    <3>1. Ownerless => Ownerless'
      <4>1. Locked \in Header
        BY <1>a, LockedFacts
      <4>2. h'.blocked = Locked.blocked /\ h'.replayPid = Locked.replayPid /\ UNCHANGED replay
        BY <2>5, <4>1 DEF Leave, Header
      <4>3. QED
        BY <1>a, <4>2, LockLeaves DEF Open, Ownerless, Reserved
    <3>2. QED
      BY <1>a, <2>2, <2>5, <3>1, LeaveKeepsWitness
  <2>6. ASSUME NEW p \in Process, Take(p) PROVE FALSE
    BY <1>a, <2>2, <2>6, TakeRefusesLost
  <2>7. ASSUME NEW p \in Process, Commit(p) PROVE Ownerless' \/ \E e \in Entry : Uncounted(e)'
    <3>1. Reserved(p) /\ UNCHANGED worker
      BY <1>a, <2>7, CommitParts
    <3>2. ~Ownerless
      BY <1>a, <3>1, ReservationStays DEF Ownerless
    <3>3. h'.count = h.count
      BY <1>a, <2>7, LockedFacts DEF Commit, Header
    <3>4. \A e \in Entry : Uncounted(e) => Uncounted(e)'
      BY <1>a, <3>1, <3>3, StillUncounted DEF Admitted
    <3>5. QED
      BY <2>2, <3>2, <3>4
  <2>8. QED
    BY <1>a, <2>3, <2>4, <2>5, <2>6, <2>7, SeatKinds
<1>3. QED
  BY <1>1, <1>2

(***************************************************************************)
(* While the recorder fails only in the way that it repairs at once, no    *)
(* replay is granted over a change on disk that the history misses: not    *)
(* over one whose process died before recording it, not over one that a    *)
(* thread has still to record, not over a replay that never committed, and *)
(* not when the identifier of the dead process has been given to another.  *)
(***************************************************************************)
THEOREM NoReplayOverLoss == Recoverable => (Spec => NoReplayOverLostWork)
<1>. SUFFICES ASSUME Recoverable PROVE Spec => NoReplayOverLostWork
  OBVIOUS
<1>1. Init => LossInv
  BY StacksInit DEF Init, LossInv, Witnessed
<1>2. LossInv /\ [Next]_vars => LossInv'
  BY LossStep
<1>3. LossInv /\ [Next]_vars =>
        [\A p \in Process : ~Reserved(p) /\ Reserved(p)' =>
           ~lost /\ \A w \in Worker : ~Unrecorded(w)]_vars
  <2>. SUFFICES ASSUME LossInv, [Next]_vars, NEW p \in Process, ~Reserved(p), Reserved(p)'
                PROVE  ~lost /\ \A w \in Worker : ~Unrecorded(w)
    OBVIOUS
  <2>1. TypeInv /\ TypeOK /\ ExclusionInv /\ ExclusionInv' /\ NoneLate
    BY ExclusionStep DEF LossInv, StacksInv, ExclusionInv, TypeInv
  <2>2. Take(p)
    <3>1. ~Replay(p)
      BY DEF Replay, Reserved
    <3>2. ~QueueReplay(p)
      BY <2>1 DEF QueueReplay, Reserved, TypeOK, Command
    <3>3. QED
      BY <2>1, <3>1, <3>2, CommandKinds DEF Reserved, Issuing
  <2>3. ~lost
    BY <2>1, <2>2, TakeFinds, TakeRefusesLost DEF LossInv, Witnessed
  <2>4. \A w \in Worker : ~Admitted(w)
    BY <2>1, <2>2, TakeFinds DEF ExclusionInv, ReplayExclusive, Admitted
  <2>5. QED
    BY <2>1, <2>3, <2>4 DEF NoneLate, Unrecorded, Admitted
<1>4. QED
  BY <1>1, <1>2, <1>3, PTL DEF Spec, NoReplayOverLostWork

-----------------------------------------------------------------------------
(***************************************************************************)
(* Barriers, whatever the recorder does.  A slot that a reservation names  *)
(* may be released and given to a later batch under it; commit then writes *)
(* over that batch, but it does not carry it over: operations are numbered *)
(* once, so the two cannot be the same.                                    *)
(***************************************************************************)
Unused(op) ==
  /\ \A s \in Slot : h.content[s].op # op
  /\ \A p \in Process : Reserved(p) => replay[p].batch.op # op
FreshWork ==
  \A w \in Worker : Unrecorded(w) =>
    /\ worker[w].made.op <= ops /\ Unused(worker[w].made.op)
    /\ \A v \in Worker \ {w} : Unrecorded(v) => worker[v].made.op # worker[w].made.op
Numbered ==
  /\ \A s \in Slot : h.content[s].op <= ops
  /\ \A p \in Process : Reserved(p) => replay[p].batch.op <= ops
KeptBarrier ==
  \A p \in Process : Reserved(p) =>
    LET now == h.content[replay[p].slot]
        batch == replay[p].batch
    IN  now.op = batch.op =>
          /\ replay[p].pc = "reserved" => now.barrier = batch.barrier
          /\ replay[p].pc = "replayed" /\ replay[p].complete => ~now.barrier

BarrierInv == ExclusionInv /\ FreshWork /\ Numbered /\ KeptBarrier

Recording(w, s) ==
  /\ Unrecorded(w) /\ ~Unrecorded(w)'
  /\ h'.content[s] \in {worker[w].made, AsBarrier(worker[w].made)}
Rewriting(p, s) ==
  /\ Reserved(p) /\ ~Reserved(p)' /\ replay[p].pc = "replayed" /\ s = replay[p].slot
  /\ h'.content[s] = replay[p].batch

\* What a step stores in a slot.
LEMMA TornContent ==
  ASSUME TypeOK, NEW batch, NEW x \in AppendPrefixes(batch), NEW s \in Slot
  PROVE  /\ x.content[s] \in {h.content[s], NoBatch, batch}
         /\ x.redo = h.redo \/ x.redo = <<>>
         /\ \/ x.undo \in {h.undo, Kept}
            \/ \E slot \in Slot : x.undo = Append(Kept, slot) /\ x.content[slot] = batch
<1>. DEFINE Torn(u, r, c) == [h EXCEPT !.undo = u, !.redo = r, !.content = c,
                                      !.abandoned = TRUE, !.dirty = TRUE]
            Into(slot) == [Spare EXCEPT ![slot] = batch]
            first == {slot \in Slot : IsLeast(slot, FreeSlots)}
<1>1. \A u, r, c : Torn(u, r, c).undo = u /\ Torn(u, r, c).redo = r /\ Torn(u, r, c).content = c
  BY DEF TypeOK, Header
<1>2. \A S : Released(S)[s] \in {h.content[s], NoBatch}
  BY DEF Released
<1>3. Spare[s] \in {h.content[s], NoBatch}
  BY <1>2 DEF Spare
<1>4. ASSUME NEW slot \in Slot
      PROVE  Into(slot)[s] \in {h.content[s], NoBatch, batch} /\ Into(slot)[slot] = batch
  BY <1>3, AppendParts
<1>5. \/ \E some \in SUBSET Elements(h.redo) : x = Torn(h.undo, h.redo, Released(some))
      \/ x \in {Torn(h.undo, <<>>, Released(Elements(h.redo))),
                Torn(h.undo, <<>>, Spare), Torn(Kept, <<>>, Spare)}
      \/ \E slot \in first : x = Torn(Kept, <<>>, Into(slot))
      \/ \E slot \in first : x = Torn(Append(Kept, slot), <<>>, Into(slot))
  BY DEF AppendPrefixes
<1>6. first \subseteq Slot
  OBVIOUS
<1> HIDE DEF Torn, Into, first
<1>7. ASSUME NEW some \in SUBSET Elements(h.redo),
             x = Torn(h.undo, h.redo, Released(some)) \/ x = Torn(h.undo, <<>>, Released(Elements(h.redo)))
      PROVE  x.content[s] \in {h.content[s], NoBatch} /\ x.redo \in {h.redo, <<>>} /\ x.undo = h.undo
  BY <1>1, <1>2, <1>7
<1>8. CASE x = Torn(h.undo, <<>>, Spare) \/ x = Torn(Kept, <<>>, Spare)
  BY <1>1, <1>3, <1>8
<1>9. ASSUME NEW slot \in Slot,
             x = Torn(Kept, <<>>, Into(slot)) \/ x = Torn(Append(Kept, slot), <<>>, Into(slot))
      PROVE  /\ x.content[s] \in {h.content[s], NoBatch, batch} /\ x.redo = <<>>
             /\ x.undo = Kept \/ (x.undo = Append(Kept, slot) /\ x.content[slot] = batch)
  <2>1. CASE x = Torn(Kept, <<>>, Into(slot))
    <3>1. x.content = Into(slot) /\ x.redo = <<>> /\ x.undo = Kept
      BY <1>1, <2>1
    <3>2. QED
      BY <1>4, <3>1
  <2>2. CASE x = Torn(Append(Kept, slot), <<>>, Into(slot))
    <3> DEFINE longer == Append(Kept, slot)
    <3>a. x = Torn(longer, <<>>, Into(slot))
      BY <2>2
    <3> HIDE DEF longer
    <3>1. x.content = Into(slot) /\ x.redo = <<>> /\ x.undo = longer
      BY <1>1, <3>a
    <3>2. QED
      BY <1>4, <3>1 DEF longer
  <2>3. QED
    BY <1>9, <2>1, <2>2
<1>10. QED
  <2>1. \/ \E some \in SUBSET Elements(h.redo) :
             x = Torn(h.undo, h.redo, Released(some)) \/ x = Torn(h.undo, <<>>, Released(Elements(h.redo)))
        \/ x = Torn(h.undo, <<>>, Spare) \/ x = Torn(Kept, <<>>, Spare)
        \/ \E slot \in Slot :
             x = Torn(Kept, <<>>, Into(slot)) \/ x = Torn(Append(Kept, slot), <<>>, Into(slot))
    BY <1>5, <1>6
  <2>2. QED
    <3>1. ASSUME NEW some \in SUBSET Elements(h.redo),
                 x = Torn(h.undo, h.redo, Released(some)) \/ x = Torn(h.undo, <<>>, Released(Elements(h.redo)))
          PROVE  /\ x.content[s] \in {h.content[s], NoBatch, batch}
                 /\ x.redo = h.redo \/ x.redo = <<>>
                 /\ x.undo \in {h.undo, Kept}
      BY <3>1, <1>7
    <3>2. CASE x = Torn(h.undo, <<>>, Spare) \/ x = Torn(Kept, <<>>, Spare)
      BY <3>2, <1>1, <1>8
    <3>3. QED
      BY <2>1, <3>1, <3>2, <1>9

LEMMA SpareContent ==
  ASSUME NEW s \in Slot
  PROVE  Spare[s] \in {h.content[s], NoBatch}
BY DEF Spare, Released

\* No recording step leaves its thread with the batch it recorded.
LEMMA RecordingEnds ==
  ASSUME TypeInv, NEW w \in Worker, Publish(w) \/ PublishFails(w) \/ LateBarrier(w), h' # h
  PROVE  ~Unrecorded(w)'
<1>1. CASE Publish(w)
  BY <1>1 DEF Publish, TypeInv, TypeOK, Thread, Unrecorded
<1>2. CASE PublishFails(w)
  BY <1>2 DEF PublishFails, TypeInv, TypeOK, Thread, Unrecorded
<1>3. CASE LateBarrier(w)
  BY <1>3 DEF LateBarrier, TypeInv, TypeOK, Unrecorded, NoWork
<1>4. QED
  BY <1>1, <1>2, <1>3

LEMMA ContentKinds ==
  ASSUME TypeInv, [Next]_vars, NEW s \in Slot
  PROVE  \/ h'.content[s] \in {h.content[s], NoBatch}
         \/ \E w \in Worker : Recording(w, s)
         \/ \E p \in Process : Rewriting(p, s)
<1>. DEFINE Goal == \/ h'.content[s] \in {h.content[s], NoBatch}
                    \/ \E w \in Worker : Recording(w, s)
                    \/ \E p \in Process : Rewriting(p, s)
<1>. SUFFICES Goal
  OBVIOUS
<1>a. TypeOK /\ h \in Header /\ Locked \in Header /\ Swept \in Header
  BY LockedFacts, SweptFacts DEF TypeInv, TypeOK
<1>1. CASE Quiet
  BY <1>1 DEF Quiet
<1>2. CASE h' = FreshHeader
  BY <1>2 DEF FreshHeader
<1>3. ASSUME NEW w \in Worker, Publish(w) \/ PublishFails(w) \/ LateBarrier(w) PROVE Goal
  <2>1. CASE UNCHANGED h
    BY <2>1
  <2>2. ASSUME h' # h, NEW batch \in {worker[w].made, AsBarrier(worker[w].made)}, batch \in Batch,
               AppendBatch(batch)
        PROVE  Goal
    <3>1. CASE h' = Locked \/ h'.content = Spare
      BY <1>a, <3>1, LockedFacts, SpareContent
    <3>2. ASSUME NEW slot \in Slot, Stored(slot, batch) PROVE Goal
      <4>1. h'.content[s] \in {h.content[s], NoBatch, batch}
        BY <1>a, <3>2, AppendParts, SpareContent DEF Stored
      <4>2. Unrecorded(w) /\ ~Unrecorded(w)'
        BY <1>3, <2>2, Recordings, RecordingEnds
      <4>3. QED
        BY <2>2, <4>1, <4>2 DEF Recording
    <3>3. QED
      BY <1>a, <2>2, <3>1, <3>2, AppendKinds
  <2>3. QED
    BY <1>3, <2>1, <2>2, Recordings
<1>4. ASSUME NEW p \in Process, Commit(p) PROVE Goal
  <2>1. PICK saved, move \in BOOLEAN : Committed(p, saved, move)
    BY <1>4, CommitParts
  <2>2. /\ Reserved(p) /\ replay[p].pc = "replayed"
        /\ ~Reserved(p)'
    BY <1>a, <1>4, CommitParts DEF TypeOK, Reserved, NoReplay
  <2>3. h'.content[s] \in {h.content[s], NoBatch} \/ (s = replay[p].slot /\ h'.content[s] = replay[p].batch)
    BY <1>a, <2>1 DEF Committed, TypeOK, Header
  <2>4. QED
    BY <2>2, <2>3 DEF Rewriting
<1>5. ASSUME NEW w \in Worker, CutAppend(w) PROVE Goal
  <2>1. h' \in AppendPrefixes(worker[w].made) /\ Unrecorded(w) /\ End(Home[w])
    BY <1>5 DEF CutAppend, Unrecorded
  <2>2. ~Unrecorded(w)'
    BY <2>1 DEF End, Unrecorded, NoWork
  <2>3. QED
    BY <1>a, <2>1, <2>2, TornContent DEF Recording
<1>6. ASSUME NEW p \in Process, CutCommit(p) PROVE Goal
  <2>1. PICK batch \in {NoBatch, replay[p].batch} : h'.content = [h.content EXCEPT ![replay[p].slot] = batch]
    BY <1>a, <1>6 DEF CutCommit, Header
  <2>2. /\ Reserved(p) /\ replay[p].pc = "replayed"
        /\ ~Reserved(p)'
    BY <1>a, <1>6 DEF CutCommit, End, TypeOK, Reserved, NoReplay
  <2>3. h'.content[s] \in {h.content[s], NoBatch} \/ (s = replay[p].slot /\ h'.content[s] = replay[p].batch)
    BY <1>a, <2>1 DEF Header
  <2>4. QED
    BY <2>2, <2>3 DEF Rewriting
<1> HIDE DEF Goal
<1>7. QED
  BY <1>1, <1>2, <1>3, <1>4, <1>5, <1>6, StackKinds

\* A step that numbers an operation, or a new session, which forgets them all.
NewSession ==
  /\ h' = FreshHeader /\ UNCHANGED <<replay, worker>>
  /\ \A p \in Process : ~Reserved(p)
  /\ \A w \in Worker : ~Unrecorded(w)

LEMMA OpsKinds ==
  ASSUME ExclusionInv, [Next]_vars
  PROVE  UNCHANGED ops \/ (\E w \in Worker : NewWork(w)) \/ NewSession
<1>a. TypeInv /\ TypeOK
  BY DEF ExclusionInv, TypeInv
<1>1. ASSUME NEW p \in Process, Launch(p) PROVE UNCHANGED ops \/ NewSession
  <2>1. CASE Session
    BY <1>1, <2>1 DEF Launch
  <2>2. CASE ~Session
    <3>1. \A q \in Process : ~Reserved(q)
      BY <2>2 DEF Session, ExclusionInv, ThreadsLive, Reserved
    <3>2. \A w \in Worker : ~Unrecorded(w)
      BY <2>2, HomeAssumption DEF Session, ExclusionInv, ThreadsLive, Unrecorded
    <3>3. QED
      BY <1>1, <2>2, <3>1, <3>2 DEF Launch, NewSession
  <2>3. QED
    BY <2>1, <2>2
<1>2. ASSUME NEW w \in Worker, Perform(w) \/ Bypass(w) PROVE NewWork(w)
  <2>1. worker'[w] # worker[w] /\ Unrecorded(w)' /\ ~Unrecorded(w)
    <3>1. CASE Perform(w)
      BY <3>1, <1>a DEF Perform, TypeOK, Thread, Unrecorded
    <3>2. CASE Bypass(w)
      BY <3>2, <1>a DEF Bypass, TypeOK, NoWork, Unrecorded
    <3>3. QED
      BY <1>2, <3>1, <3>2
  <2>2. QED
    BY <1>a, <2>1, ThreadKinds
<1>3. ASSUME NEW p \in Process, NEW way \in {"undo", "redo"},
             \/ QueueReplay(p) \/ DropCommand(p) \/ ReplayStep(p) \/ Ask(p, way) \/ End(p)
      PROVE  UNCHANGED ops
  BY <1>3 DEF QueueReplay, DropCommand, ReplayStep, AwaitExclusive, EnterExclusive, Take, TakeRefused,
              Replay, Commit, Abandon, Ask, End
<1>4. ASSUME NEW w \in Worker,
             StartWorker(w) \/ WorkerStep(w) \/ \E o \in Worker : StartNested(w, o)
      PROVE  UNCHANGED ops
  BY <1>4 DEF StartWorker, WorkerStep, EnterShared, Admit, TakeSeat, Refuse, Publish, PublishFails,
              Leave, LateBarrier, StartNested
<1>5. QED
  BY <1>1, <1>2, <1>3, <1>4, HomeAssumption
     DEF Next, Die, CutShort, CutTake, CutCommit, CutAdmit, CutAppend, vars

LEMMA ReservedFrom ==
  ASSUME TypeInv, [Next]_vars, NEW p \in Process, Reserved(p)'
  PROVE  \/ Reserved(p) /\ replay'[p] = replay[p]
         \/ Replay(p)
         \/ Take(p)
<1>1. ~QueueReplay(p)
  BY DEF QueueReplay, Reserved, TypeInv, TypeOK, Command
<1>2. QED
  BY <1>1, CommandKinds DEF Reserved, Issuing

LEMMA FreshStep == BarrierInv /\ [Next]_vars => (FreshWork /\ Numbered)'
<1>. SUFFICES ASSUME BarrierInv, [Next]_vars PROVE (FreshWork /\ Numbered)'
  OBVIOUS
<1>a. /\ TypeInv /\ TypeOK /\ ExclusionInv /\ FreshWork /\ Numbered /\ TypeInv'
      /\ ops \in Nat /\ ops' \in Nat
      /\ \A s \in Slot : h.content[s].op \in Nat /\ h'.content[s].op \in Nat
      /\ \A p \in Process : replay[p].batch.op \in Nat
      /\ \A w \in Worker : Unrecorded(w) => /\ worker[w].made \in Batch
                                            /\ worker[w].made.op \in Nat /\ worker[w].made.op > 0
      /\ \A batch \in Batch : AsBarrier(batch).op = batch.op
  <2>1. TypeInv /\ TypeOK /\ ExclusionInv /\ FreshWork /\ Numbered /\ TypeInv' /\ TypeOK'
    BY TypeStep DEF BarrierInv, ExclusionInv, TypeInv
  <2>2. \A batch \in Batch \cup {NoBatch} : batch.op \in Nat
    BY BatchFacts, BoundAssumption
  <2>3. \A w \in Worker : Unrecorded(w) => worker[w].made \in Batch
    BY <2>1 DEF TypeInv, Recorded
  <2>4. \A batch \in Batch : batch.op \in Nat /\ batch.op > 0 /\ AsBarrier(batch).op = batch.op
    BY BoundAssumption DEF Batch, AsBarrier
  <2>5. h \in Header /\ h' \in Header /\ replay \in [Process -> Command] /\ ops \in Nat /\ ops' \in Nat
    BY <2>1, BoundAssumption DEF TypeOK
  <2>6. QED
    BY <2>1, <2>2, <2>3, <2>4, <2>5 DEF Header, Command
<1>0. NoBatch.op = 0
  BY DEF NoBatch
<1>1. CASE NewSession
  <2>1. /\ \A s \in Slot : h'.content[s] = NoBatch
        /\ \A p \in Process : ~Reserved(p)'
        /\ \A w \in Worker : ~Unrecorded(w)'
    BY <1>1 DEF NewSession, FreshHeader, Reserved, Unrecorded
  <2>2. QED
    BY <1>a, <1>0, <2>1 DEF FreshWork, Numbered
<1>2. ASSUME NEW w \in Worker, NewWork(w) PROVE (FreshWork /\ Numbered)'
  <2>1. UNCHANGED <<h, replay>> /\ worker'[w].made.op = ops + 1 /\ ops' = ops + 1
        /\ \A v \in Worker \ {w} : worker'[v] = worker[v]
    BY <1>2 DEF NewWork
  <2>2. Numbered'
    BY <1>a, <2>1 DEF Numbered, Reserved
  <2>n. PICK n \in Nat : n = ops + 1
    BY <1>a
  <2>3. Unused(n)'
    BY <1>a, <2>1, <2>n DEF Numbered, Unused, Reserved
  <2>4. \A v \in Worker \ {w} : Unrecorded(v)' => worker'[v].made.op <= ops
    BY <1>a, <2>1 DEF FreshWork, Unrecorded
  <2>5. \A v \in Worker \ {w} : Unrecorded(v)' => worker'[v].made.op \in Nat
    BY <1>a, <2>1 DEF FreshWork, Unrecorded
  <2>6. \A v \in Worker \ {w} : Unrecorded(v)' => Unused(worker[v].made.op)'
    BY <1>a, <2>1 DEF FreshWork, Unrecorded, Unused, Reserved
  <2>7. FreshWork'
    <3>. SUFFICES ASSUME NEW v \in Worker, Unrecorded(v)'
                  PROVE  /\ worker'[v].made.op <= ops' /\ Unused(worker[v].made.op)'
                         /\ \A x \in Worker \ {v} : Unrecorded(x)' => worker'[x].made.op # worker'[v].made.op
      BY DEF FreshWork
    <3>1. CASE v = w
      <4>1. worker'[v].made.op = n
        BY <2>1, <2>n, <3>1
      <4>2. Unused(worker[v].made.op)'
        BY <2>3, <4>1 DEF Unused
      <4>3. \A x \in Worker \ {v} : Unrecorded(x)' => worker'[x].made.op # worker'[v].made.op
        BY <1>a, <2>n, <2>4, <2>5, <3>1, <4>1
      <4>4. QED
        BY <1>a, <2>1, <2>n, <4>1, <4>2, <4>3
    <3>2. CASE v # w
      <4>1. worker'[v].made.op <= ops' /\ Unused(worker[v].made.op)'
        BY <1>a, <2>1, <2>4, <2>5, <2>6, <3>2
      <4>2. worker'[w].made.op # worker'[v].made.op
        BY <1>a, <2>1, <2>4, <2>5, <3>2
      <4>3. \A x \in Worker \ {v, w} : Unrecorded(x)' => worker'[x].made.op # worker'[v].made.op
        BY <1>a, <2>1, <3>2 DEF FreshWork, Unrecorded
      <4>4. QED
        BY <4>1, <4>2, <4>3
    <3>3. QED
      BY <3>1, <3>2
  <2>8. QED
    BY <2>2, <2>7
<1>3. CASE UNCHANGED ops /\ ~\E w \in Worker : NewWork(w)
  <2>1. \A w \in Worker : Unrecorded(w)' => Unrecorded(w) /\ worker'[w].made = worker[w].made
    BY <1>3, <1>a, ThreadKinds DEF Unrecorded
  <2>2. \A s \in Slot :
          \/ h'.content[s].op \in {h.content[s].op, 0}
          \/ \E w \in Worker : Unrecorded(w) /\ ~Unrecorded(w)' /\ h'.content[s].op = worker[w].made.op
          \/ \E p \in Process : Reserved(p) /\ h'.content[s].op = replay[p].batch.op
    BY <1>a, <1>0, ContentKinds DEF Recording, Rewriting
  <2>3. \A p \in Process : Reserved(p)' =>
          \/ Reserved(p) /\ replay'[p].batch.op = replay[p].batch.op
          \/ \E s \in Slot : replay'[p].batch.op = h.content[s].op
    <3>1. ASSUME NEW p \in Process, Replay(p) PROVE Reserved(p) /\ replay'[p].batch.op = replay[p].batch.op
      BY <1>a, <3>1, ReplayKeepsOp DEF Reserved
    <3>2. ASSUME NEW p \in Process, Take(p) PROVE \E s \in Slot : replay'[p].batch.op = h.content[s].op
      BY <1>a, <3>2, TakeFinds, PopFactsOf
    <3>3. QED
      BY <1>a, <3>1, <3>2, ReservedFrom
  <2>4. Numbered'
    BY <1>a, <1>3, <2>2, <2>3 DEF Numbered, FreshWork
  <2>5. ASSUME NEW w \in Worker, Unrecorded(w)'
        PROVE  Unused(worker[w].made.op)'
    <3>1. \A s \in Slot : h'.content[s].op # worker'[w].made.op
      BY <1>a, <2>1, <2>2, <2>5 DEF FreshWork, Unused
    <3>2. \A p \in Process : Reserved(p)' => replay'[p].batch.op # worker'[w].made.op
      BY <1>a, <2>1, <2>3, <2>5 DEF FreshWork, Unused
    <3>3. QED
      BY <3>1, <3>2 DEF Unused
  <2>6. FreshWork'
    BY <1>a, <1>3, <2>1, <2>5 DEF FreshWork
  <2>7. QED
    BY <2>4, <2>6
<1>4. QED
  BY <1>a, <1>1, <1>2, <1>3, OpsKinds

LEMMA BarrierStep == BarrierInv /\ [Next]_vars => BarrierInv'
<1>. SUFFICES ASSUME BarrierInv, [Next]_vars PROVE BarrierInv'
  OBVIOUS
<1>a. TypeInv /\ TypeOK /\ ExclusionInv' /\ FreshWork /\ KeptBarrier /\ ReplayExclusive
  BY ExclusionStep DEF BarrierInv, ExclusionInv, TypeInv
<1>1. ASSUME NEW p \in Process, Reserved(p)'
      PROVE  LET now == h'.content[replay'[p].slot]
                 batch == replay'[p].batch
             IN  now.op = batch.op =>
                   /\ replay'[p].pc = "reserved" => now.barrier = batch.barrier
                   /\ replay'[p].pc = "replayed" /\ replay'[p].complete => ~now.barrier
  <2>1. CASE Reserved(p) /\ replay'[p] = replay[p]
    <3> DEFINE s == replay[p].slot
               batch == replay[p].batch
    <3>1. s \in Slot /\ batch \in Batch \cup {NoBatch}
      BY <1>a, <2>1 DEF TypeInv, TypeOK, Recorded, Command
    <3>2. CASE h'.content[s] = h.content[s]
      BY <1>a, <2>1, <3>2 DEF KeptBarrier
    <3>3. CASE h'.content[s] = NoBatch
      <4>1. \A b \in Batch : b.op # 0
        BY DEF Batch
      <4>2. batch.op = 0 => batch.barrier = FALSE
        BY <3>1, <4>1 DEF NoBatch
      <4>3. NoBatch.op = 0 /\ NoBatch.barrier = FALSE
        BY DEF NoBatch
      <4>4. QED
        BY <2>1, <3>3, <4>2, <4>3
    <3>4. ASSUME NEW w \in Worker, Recording(w, s) PROVE h'.content[s].op # batch.op
      <4>1. worker[w].made \in Batch /\ AsBarrier(worker[w].made).op = worker[w].made.op
        BY <1>a, <3>4 DEF TypeInv, Recorded, Recording, Batch, AsBarrier
      <4>2. batch.op # worker[w].made.op
        BY <1>a, <2>1, <3>4 DEF FreshWork, Unused, Recording
      <4>3. QED
        BY <3>4, <4>1, <4>2 DEF Recording
    <3>5. ASSUME NEW q \in Process, Rewriting(q, s) PROVE FALSE
      <4>1. q = p
        BY <1>a, <2>1, <3>5 DEF ReplayExclusive, Rewriting
      <4>2. QED
        BY <1>1, <3>5, <4>1 DEF Rewriting
    <3>6. QED
      BY <1>a, <2>1, <3>1, <3>2, <3>3, <3>4, <3>5, ContentKinds
  <2>2. CASE Replay(p)
    <3>1. Reserved(p) /\ h' = h
      BY <1>a, <2>2, ReplayKeepsOp DEF Reserved
    <3>2. QED
      BY <1>a, <2>2, <3>1, ReplayKeepsOp DEF KeptBarrier
  <2>3. CASE Take(p)
    BY <1>a, <2>3, TakeFinds
  <2>4. QED
    BY <1>a, <1>1, <2>1, <2>2, <2>3, ReservedFrom
<1>2. KeptBarrier'
  BY <1>1 DEF KeptBarrier
<1>3. QED
  BY <1>a, <1>2, FreshStep DEF BarrierInv

\* What a stack gains is a batch just recorded, or one that a replay carries over.
CarriedOver(s, from) ==
  \E p \in Process :
    /\ Reserved(p) /\ replay[p].pc = "replayed" /\ replay[p].complete
    /\ replay[p].way = from /\ s = replay[p].slot /\ h'.content[s] = replay[p].batch

LEMMA StacksGain ==
  ASSUME TypeInv, [Next]_vars, NEW s \in Slot
  PROVE  /\ s \in Elements(h'.redo) => s \in Elements(h.redo) \/ CarriedOver(s, "undo")
         /\ s \in Elements(h'.undo) =>
              s \in Elements(h.undo) \/ CarriedOver(s, "redo") \/ \E w \in Worker : Recording(w, s)
<1>. DEFINE Goal == /\ s \in Elements(h'.redo) => s \in Elements(h.redo) \/ CarriedOver(s, "undo")
                    /\ s \in Elements(h'.undo) =>
                         \/ s \in Elements(h.undo) \/ CarriedOver(s, "redo")
                         \/ \E w \in Worker : Recording(w, s)
<1>. SUFFICES Goal
  OBVIOUS
<1>a. TypeOK /\ h \in Header /\ h.undo \in Seq(Slot) /\ h.redo \in Seq(Slot) /\ Kept \in Seq(Slot)
  BY AppendParts DEF TypeInv, TypeOK, Header
<1>b. Elements(Kept) \subseteq Elements(h.undo) /\ Elements(<<>>) = {}
  <2>1. CASE Full
    <3>1. h.undo # <<>>
      BY <2>1, SizeAssumption DEF Full
    <3>2. QED
      BY <1>a, <2>1, <3>1, TailFactsOf, EmptyStack DEF Kept
  <2>2. CASE ~Full
    BY <2>2, EmptyStack DEF Kept
  <2>3. QED
    BY <2>1, <2>2
<1>1. CASE Quiet
  BY <1>1 DEF Quiet
<1>2. CASE h' = FreshHeader
  BY <1>2, <1>b DEF FreshHeader
<1>3. ASSUME NEW w \in Worker, Publish(w) \/ PublishFails(w) \/ LateBarrier(w) PROVE Goal
  <2>1. CASE UNCHANGED h
    BY <2>1
  <2>2. ASSUME h' # h, NEW batch \in {worker[w].made, AsBarrier(worker[w].made)}, batch \in Batch,
               AppendBatch(batch)
        PROVE  Goal
    <3>1. CASE h' = Locked
      BY <1>a, <3>1, LockedFacts
    <3>2. CASE h'.undo = Kept /\ h'.redo = <<>>
      BY <1>b, <3>2
    <3>3. ASSUME NEW slot \in Slot, Stored(slot, batch) PROVE Goal
      <4>1. h'.redo = <<>> /\ Elements(h'.undo) = Elements(Kept) \cup {slot}
        BY <1>a, <3>3, AppendFactsOf DEF Stored
      <4>2. h'.content[slot] = batch
        BY <1>a, <3>3, AppendParts DEF Stored
      <4>3. Recording(w, slot)
        BY <1>3, <2>2, <4>2, Recordings, RecordingEnds DEF Recording
      <4>4. QED
        BY <1>b, <4>1, <4>3
    <3>4. QED
      BY <1>a, <2>2, <3>1, <3>2, <3>3, AppendKinds
  <2>3. QED
    BY <1>3, <2>1, <2>2, Recordings
<1>4. ASSUME NEW p \in Process, Commit(p) PROVE Goal
  <2>1. /\ Reserved(p) /\ replay[p].pc = "replayed" /\ replay[p].slot \in Slot
        /\ replay[p].way \in {"undo", "redo"}
    BY <1>4, CommitParts
  <2>2. PICK saved, move \in BOOLEAN : Committed(p, saved, move)
    BY <1>4, CommitParts
  <2>3. CASE ~move
    BY <2>2, <2>3 DEF Committed
  <2>4. CASE move
    <3>1. /\ replay[p].complete /\ Stack(replay[p].way) # <<>>
          /\ h'.content[replay[p].slot] = replay[p].batch
      BY <1>a, <2>1, <2>2, <2>4 DEF Committed, Header
    <3>2. CarriedOver(replay[p].slot, replay[p].way)
      BY <2>1, <3>1 DEF CarriedOver
    <3>3. CASE replay[p].way = "undo"
      <4>1. h.undo # <<>> /\ h'.undo = Pop(h.undo) /\ h'.redo = Append(h.redo, replay[p].slot)
        BY <2>2, <2>4, <3>1, <3>3 DEF Committed, Stack
      <4>2. Elements(h'.undo) \subseteq Elements(h.undo)
        BY <1>a, <4>1, PopFactsOf
      <4>3. Elements(h'.redo) = Elements(h.redo) \cup {replay[p].slot}
        BY <1>a, <2>1, <4>1, AppendFactsOf
      <4>4. QED
        BY <3>2, <3>3, <4>2, <4>3
    <3>4. CASE replay[p].way = "redo"
      <4>1. h.redo # <<>> /\ h'.redo = Pop(h.redo) /\ h'.undo = Append(h.undo, replay[p].slot)
        BY <2>2, <2>4, <3>1, <3>4 DEF Committed, Stack
      <4>2. Elements(h'.redo) \subseteq Elements(h.redo)
        BY <1>a, <4>1, PopFactsOf
      <4>3. Elements(h'.undo) = Elements(h.undo) \cup {replay[p].slot}
        BY <1>a, <2>1, <4>1, AppendFactsOf
      <4>4. QED
        BY <3>2, <3>4, <4>2, <4>3
    <3>5. QED
      BY <2>1, <3>3, <3>4
  <2>5. QED
    BY <2>3, <2>4
<1>5. ASSUME NEW w \in Worker, CutAppend(w) PROVE Goal
  <2>1. h' \in AppendPrefixes(worker[w].made) /\ Unrecorded(w) /\ End(Home[w])
    BY <1>5 DEF CutAppend, Unrecorded
  <2>2. ~Unrecorded(w)'
    BY <2>1 DEF End, Unrecorded, NoWork
  <2>3. /\ h'.redo = h.redo \/ h'.redo = <<>>
        /\ \/ h'.undo \in {h.undo, Kept}
           \/ \E slot \in Slot : h'.undo = Append(Kept, slot) /\ h'.content[slot] = worker[w].made
    BY <1>a, <2>1, TornContent
  <2>4. CASE h'.undo \in {h.undo, Kept}
    BY <1>b, <2>3, <2>4
  <2>5. ASSUME NEW slot \in Slot, h'.undo = Append(Kept, slot), h'.content[slot] = worker[w].made
        PROVE  Goal
    <3>1. Elements(h'.undo) = Elements(Kept) \cup {slot}
      BY <1>a, <2>5, AppendFactsOf
    <3>2. Recording(w, slot)
      BY <2>1, <2>2, <2>5 DEF Recording
    <3>3. QED
      BY <1>b, <2>3, <3>1, <3>2
  <2>6. QED
    BY <2>3, <2>4, <2>5
<1>6. ASSUME NEW p \in Process, CutCommit(p) PROVE Goal
  <2>1. PICK popped \in BOOLEAN :
          /\ popped => Stack(replay[p].way) # <<>>
          /\ h'.undo = IF popped /\ replay[p].way = "undo" THEN Pop(h.undo) ELSE h.undo
          /\ h'.redo = IF popped /\ replay[p].way = "redo" THEN Pop(h.redo) ELSE h.redo
    BY <1>a, <1>6 DEF CutCommit, Header
  <2>2. Elements(h'.undo) \subseteq Elements(h.undo)
    BY <1>a, <2>1, PopFactsOf DEF Stack
  <2>3. Elements(h'.redo) \subseteq Elements(h.redo)
    BY <1>a, <2>1, PopFactsOf DEF Stack
  <2>4. QED
    BY <2>2, <2>3
<1> HIDE DEF Goal
<1>7. QED
  BY <1>1, <1>2, <1>3, <1>4, <1>5, <1>6, StackKinds

(***************************************************************************)
(* A batch that a barrier forbids replaying is never carried over, however *)
(* late barriers are recorded, whatever commit finds in the slot it        *)
(* rewrites and wherever a process dies.                                   *)
(***************************************************************************)
THEOREM BarriersStay == Spec => BarrierStays
<1>1. Init => BarrierInv
  <2>. SUFFICES ASSUME Init PROVE BarrierInv
    OBVIOUS
  <2>1. /\ \A p \in Process : ~Reserved(p)
        /\ \A w \in Worker : ~Unrecorded(w)
        /\ \A s \in Slot : h.content[s].op = 0
        /\ ops = 0
    BY DEF Init, Reserved, NoReplay, NoWork, Unrecorded, FreshHeader, NoBatch
  <2>2. QED
    BY <2>1, ExclusionInit DEF BarrierInv, FreshWork, Numbered, KeptBarrier
<1>2. BarrierInv /\ [Next]_vars =>
        [\A s \in Slot :
           h.content[s].barrier /\ h'.content[s].op = h.content[s].op =>
             /\ s \in Elements(h.undo) \ Elements(h.redo) => s \notin Elements(h'.redo)
             /\ s \in Elements(h.redo) \ Elements(h.undo) => s \notin Elements(h'.undo)]_vars
  <2>. SUFFICES ASSUME BarrierInv, [Next]_vars, NEW s \in Slot,
                       h.content[s].barrier, h'.content[s].op = h.content[s].op
                PROVE  /\ s \in Elements(h.undo) \ Elements(h.redo) => s \notin Elements(h'.redo)
                       /\ s \in Elements(h.redo) \ Elements(h.undo) => s \notin Elements(h'.undo)
    OBVIOUS
  <2>a. TypeInv /\ TypeOK
    BY DEF BarrierInv, ExclusionInv, TypeInv
  <2>1. \A way : ~CarriedOver(s, way)
    BY DEF CarriedOver, BarrierInv, KeptBarrier
  <2>2. ASSUME NEW w \in Worker, Recording(w, s) PROVE FALSE
    <3>1. worker[w].made \in Batch /\ AsBarrier(worker[w].made).op = worker[w].made.op
      BY <2>a, <2>2 DEF TypeInv, Recorded, Recording, Batch, AsBarrier
    <3>2. h.content[s].op # worker[w].made.op
      BY <2>2 DEF BarrierInv, FreshWork, Unused, Recording
    <3>3. QED
      BY <2>2, <3>1, <3>2 DEF Recording
  <2>3. QED
    BY <2>a, <2>1, <2>2, StacksGain
<1>3. QED
  BY <1>1, <1>2, BarrierStep, PTL DEF Spec, BarrierStays
-----------------------------------------------------------------------------
(***************************************************************************)
(* The shared header implements FileHistory, step by step.                 *)
(***************************************************************************)
(* The contents c of the slots on a stack s, as a sequence of batches. *)

Content == Batch \cup {NoBatch}
Contents(s, c) == [i \in 1..Len(s) |-> c[s[i]]]

LEMMA ContentsType ==
  ASSUME NEW c \in [Slot -> Content], NEW s \in Seq(Slot)
  PROVE  /\ Contents(s, c) \in Seq(Content) /\ Len(Contents(s, c)) = Len(s)
         /\ \A i \in 1..Len(s) : Contents(s, c)[i] = c[s[i]]
         /\ s = <<>> <=> Contents(s, c) = <<>>
<1>1. Len(s) \in Nat /\ \A i \in 1..Len(s) : s[i] \in Slot
  BY LenProperties
<1>2. Contents(s, c) \in [1..Len(s) -> Content]
  BY <1>1 DEF Contents
<1>3. Contents(s, c) \in Seq(Content)
  BY <1>1, <1>2, IsASeq DEF Contents
<1>4. Len(Contents(s, c)) = Len(s)
  BY <1>1, <1>2, <1>3, LenProperties
<1>5. s = <<>> <=> Contents(s, c) = <<>>
  BY <1>1, <1>3, <1>4, EmptySeq
<1>6. QED
  BY <1>3, <1>4, <1>5 DEF Contents

LEMMA ContentsSame ==
  ASSUME NEW c \in [Slot -> Content], NEW d \in [Slot -> Content], NEW s \in Seq(Slot),
         \A x \in Elements(s) : d[x] = c[x]
  PROVE  Contents(s, d) = Contents(s, c)
<1>1. \A i \in 1..Len(s) : d[s[i]] = c[s[i]]
  BY DEF Elements
<1>2. QED
  BY <1>1 DEF Contents

LEMMA ContentsAppend ==
  ASSUME NEW c \in [Slot -> Content], NEW d \in [Slot -> Content], NEW s \in Seq(Slot), NEW x \in Slot,
         \A y \in Elements(s) : d[y] = c[y]
  PROVE  Contents(Append(s, x), d) = Append(Contents(s, c), d[x])
<1> DEFINE t == Append(s, x)
           e == d[x]
           u == Contents(s, c)
<1>1. /\ t \in Seq(Slot) /\ Len(t) = Len(s) + 1 /\ Len(s) \in Nat
      /\ \A i \in 1..Len(s) : t[i] = s[i]
      /\ t[Len(s) + 1] = x
  BY AppendProperties, LenProperties
<1>2. e \in Content /\ u \in Seq(Content) /\ Len(u) = Len(s) /\ \A i \in 1..Len(s) : u[i] = c[s[i]]
  BY ContentsType
<1>3. \A i \in 1..Len(s) : d[s[i]] = c[s[i]]
  BY DEF Elements
<1> HIDE DEF t, u, e
<1>4. /\ Append(u, e) \in Seq(Content) /\ Len(Append(u, e)) = Len(s) + 1
      /\ \A i \in 1..Len(s) : Append(u, e)[i] = u[i]
      /\ Append(u, e)[Len(s) + 1] = e
  BY <1>2, AppendProperties
<1>5. /\ Contents(t, d) \in Seq(Content) /\ Len(Contents(t, d)) = Len(s) + 1
      /\ \A i \in 1..(Len(s) + 1) : Contents(t, d)[i] = d[t[i]]
  <2>1. /\ Contents(t, d) \in Seq(Content) /\ Len(Contents(t, d)) = Len(t)
        /\ \A i \in 1..Len(t) : Contents(t, d)[i] = d[t[i]]
    BY <1>1, ContentsType
  <2>2. QED
    BY <1>1, <2>1
<1>6. \A i \in 1..(Len(s) + 1) : Contents(t, d)[i] = Append(u, e)[i]
  <2>. SUFFICES ASSUME NEW i \in 1..(Len(s) + 1) PROVE Contents(t, d)[i] = Append(u, e)[i]
    OBVIOUS
  <2>1. CASE i \in 1..Len(s)
    BY <1>1, <1>2, <1>3, <1>4, <1>5, <2>1
  <2>2. CASE i = Len(s) + 1
    BY <1>1, <1>4, <1>5, <2>2 DEF e
  <2>3. QED
    <3>1. i \in 1..Len(s) \/ i = Len(s) + 1
      BY <1>1
    <3>2. QED
      BY <2>1, <2>2, <3>1
<1>7. Contents(t, d) = Append(u, e)
  BY <1>4, <1>5, <1>6, SeqEqual
<1>8. QED
  BY <1>7 DEF t, u, e

LEMMA ContentsTail ==
  ASSUME NEW c \in [Slot -> Content], NEW s \in Seq(Slot), s # <<>>
  PROVE  Contents(Tail(s), c) = Tail(Contents(s, c))
<1> DEFINE t == Tail(s)
           u == Contents(s, c)
<1>1. /\ t \in Seq(Slot) /\ Len(t) = Len(s) - 1 /\ Len(s) \in Nat \ {0}
      /\ \A i \in 1..Len(t) : t[i] = s[i + 1]
  BY HeadTailProperties, EmptySeq
<1>2. u \in Seq(Content) /\ u # <<>> /\ Len(u) = Len(s) /\ \A i \in 1..Len(s) : u[i] = c[s[i]]
  BY ContentsType
<1> HIDE DEF t, u
<1>3. Tail(u) \in Seq(Content) /\ Len(Tail(u)) = Len(u) - 1 /\ \A i \in 1..Len(Tail(u)) : Tail(u)[i] = u[i + 1]
  BY <1>2, HeadTailProperties
<1>4. Contents(t, c) \in Seq(Content) /\ Len(Contents(t, c)) = Len(t) /\ \A i \in 1..Len(t) : Contents(t, c)[i] = c[t[i]]
  BY <1>1, ContentsType
<1>5. \A i \in 1..Len(t) : Contents(t, c)[i] = Tail(u)[i]
  <2>. SUFFICES ASSUME NEW i \in 1..Len(t) PROVE Contents(t, c)[i] = Tail(u)[i]
    OBVIOUS
  <2>1. i \in 1..Len(Tail(u)) /\ i + 1 \in 1..Len(s)
    BY <1>1, <1>2, <1>3
  <2>2. QED
    BY <1>1, <1>2, <1>3, <1>4, <2>1
<1>6. Contents(t, c) = Tail(u)
  BY <1>1, <1>2, <1>3, <1>4, <1>5, SeqEqual
<1>7. QED
  BY <1>6 DEF t, u

LEMMA ContentsPop ==
  ASSUME NEW c \in [Slot -> Content], NEW s \in Seq(Slot), s # <<>>
  PROVE  /\ Contents(Pop(s), c) = Abstract!Older(Contents(s, c))
         /\ c[Top(s)] = Abstract!Newest(Contents(s, c))
<1> DEFINE t == Pop(s)
           u == Contents(s, c)
<1>1. /\ t \in Seq(Slot) /\ Len(t) = Len(s) - 1 /\ Len(s) \in Nat \ {0}
      /\ \A i \in 1..(Len(s) - 1) : t[i] = s[i]
  BY PopFactsOf, EmptySeq
<1>2. u \in Seq(Content) /\ u # <<>> /\ Len(u) = Len(s) /\ \A i \in 1..Len(s) : u[i] = c[s[i]]
  BY ContentsType
<1>3. Abstract!Older(u) = Pop(u) /\ Abstract!Newest(u) = Top(u)
  BY DEF Abstract!Older, Abstract!Newest, Pop, Top
<1>4. Top(u) = c[Top(s)]
  BY <1>1, <1>2 DEF Top
<1> HIDE DEF t, u
<1>5. Pop(u) \in Seq(Content) /\ Len(Pop(u)) = Len(u) - 1 /\ \A i \in 1..(Len(u) - 1) : Pop(u)[i] = u[i]
  BY <1>2, PopFactsOf
<1>6. Contents(t, c) \in Seq(Content) /\ Len(Contents(t, c)) = Len(t) /\ \A i \in 1..Len(t) : Contents(t, c)[i] = c[t[i]]
  BY <1>1, ContentsType
<1>7. \A i \in 1..Len(t) : Contents(t, c)[i] = Pop(u)[i]
  BY <1>1, <1>2, <1>5, <1>6
<1>8. Contents(t, c) = Pop(u)
  BY <1>1, <1>2, <1>5, <1>6, <1>7, SeqEqual
<1>9. QED
  BY <1>3, <1>4, <1>8 DEF t, u

-----------------------------------------------------------------------------
(***************************************************************************)
(* The mapping.  A step that closes the history maps to Close, whatever    *)
(* else it does, so what remains are the steps of an open history and the  *)
(* start of a session.                                                     *)
(***************************************************************************)
Working == {w \in Worker : Admitted(w)}
ReplayerSeen == h.replayPid \in Process => state[h.replayPid] # "fresh"
RefineInv == StacksInv /\ ReplayerSeen

LEMMA ClosedMeaning == TypeOK => (Closed <=> ~Open \/ OwnerDead)
<1>. SUFFICES ASSUME TypeOK PROVE Closed <=> ~Open \/ OwnerDead
  OBVIOUS
<1>1. Locked.blocked = (h.blocked \/ Interrupted \/ OwnerDead)
  BY DEF TypeOK, Header, Locked
<1>2. QED
  BY <1>1 DEF Closed, Open, Interrupted

LEMMA TurnMeaning ==
  ExclusionInv =>
    /\ \A p \in Process : Reserved(p) => Turn = replay[p].way
    /\ (\A p \in Process : ~Reserved(p)) => Turn = "none"
<1>. SUFFICES ASSUME ExclusionInv
              PROVE  /\ \A p \in Process : Reserved(p) => Turn = replay[p].way
                     /\ (\A p \in Process : ~Reserved(p)) => Turn = "none"
  OBVIOUS
<1>1. ASSUME NEW p \in Process, Reserved(p) PROVE Turn = replay[p].way
  <2>1. (CHOOSE q \in Process : Reserved(q)) = p
    BY <1>1 DEF ExclusionInv, ReplayExclusive
  <2>2. QED
    BY <1>1, <2>1 DEF Turn
<1>2. QED
  BY <1>1 DEF Turn

LEMMA StateKinds ==
  ASSUME [Next]_vars
  PROVE  UNCHANGED state \/ (\E p \in Process : Launch(p)) \/ \E p \in Process : End(p)
<1>1. ASSUME NEW p \in Process, NEW way \in {"undo", "redo"},
             QueueReplay(p) \/ DropCommand(p) \/ ReplayStep(p) \/ Ask(p, way)
      PROVE  UNCHANGED state
  BY <1>1 DEF QueueReplay, DropCommand, ReplayStep, AwaitExclusive, EnterExclusive, Take, TakeRefused,
              Replay, Commit, Abandon, Ask
<1>2. ASSUME NEW w \in Worker,
             \/ StartWorker(w) \/ Perform(w) \/ Bypass(w) \/ WorkerStep(w)
             \/ \E o \in Worker : StartNested(w, o)
      PROVE  UNCHANGED state
  <2>1. CASE StartWorker(w) \/ \E o \in Worker : StartNested(w, o)
    BY Zenon, <2>1 DEF StartWorker, StartNested
  <2>2. CASE Perform(w) \/ Bypass(w)
    BY Zenon, <2>2 DEF Perform, Bypass
  <2>3. CASE EnterShared(w) \/ Admit(w) \/ Refuse(w) \/ Leave(w)
    BY Zenon, <2>3 DEF EnterShared, Admit, TakeSeat, Refuse, Leave
  <2>4. CASE Publish(w) \/ PublishFails(w) \/ LateBarrier(w)
    BY Zenon, <2>4 DEF Publish, PublishFails, LateBarrier
  <2>5. QED
    BY Zenon, <1>2, <2>1, <2>2, <2>3, <2>4 DEF WorkerStep
<1>3. QED
  BY Zenon, <1>1, <1>2, HomeAssumption
     DEF Next, Die, CutShort, CutTake, CutCommit, CutAdmit, CutAppend, vars

LEMMA AdmittedFrom ==
  ASSUME TypeInv, [Next]_vars, NEW w \in Worker, Admitted(w)', ~Admitted(w)
  PROVE  Admit(w)
<1>a. worker \in [Worker -> Thread] /\ worker[w] \in Thread
  BY DEF TypeInv, TypeOK
<1>1. CASE UNCHANGED worker
  BY <1>1 DEF Admitted
<1>2. ASSUME NEW p \in Process, NEW way \in {"undo", "redo"},
             Launch(p) \/ QueueReplay(p) \/ DropCommand(p) \/ ReplayStep(p) \/ Ask(p, way)
      PROVE  UNCHANGED worker
  BY <1>2 DEF Launch, QueueReplay, DropCommand, ReplayStep, AwaitExclusive, EnterExclusive, Take,
              TakeRefused, Replay, Commit, Abandon, Ask
<1>3. ASSUME NEW p \in Process, End(p) PROVE FALSE
  BY <1>3 DEF End, Admitted, NoWork
<1>4. ASSUME NEW v \in Worker, v # w, \/ StartWorker(v) \/ Perform(v) \/ Bypass(v) \/ WorkerStep(v)
                                    \/ \E o \in Worker : StartNested(v, o)
      PROVE  FALSE
  <2>1. worker'[w] = worker[w]
    BY <1>a, <1>4
       DEF StartWorker, Perform, Bypass, WorkerStep, EnterShared, Admit, TakeSeat, Refuse, Publish,
           PublishFails, Leave, LateBarrier, StartNested
  <2>2. QED
    BY <2>1 DEF Admitted
<1>5. CASE StartWorker(w) \/ EnterShared(w) \/ Refuse(w)
  BY <1>a, <1>5 DEF StartWorker, EnterShared, Refuse, NoWork, Thread, Admitted
<1>6. ASSUME NEW o \in Worker, StartNested(w, o) PROVE FALSE
  BY <1>a, <1>6 DEF StartNested, NoWork, Admitted
<1>7. CASE Bypass(w)
  BY <1>a, <1>7 DEF Bypass, NoWork, Admitted
<1>8. CASE Perform(w) \/ Publish(w) \/ PublishFails(w) \/ Leave(w)
  BY <1>a, <1>8 DEF Perform, Publish, PublishFails, Leave, NoWork, Admitted
<1>9. CASE LateBarrier(w)
  BY <1>a, <1>9 DEF LateBarrier, NoWork, Admitted
<1>10. QED
  BY <1>1, <1>2, <1>3, <1>4, <1>5, <1>6, <1>7, <1>8, <1>9, HomeAssumption
     DEF Next, WorkerStep, Die, CutShort, CutTake, CutCommit, CutAdmit, CutAppend, vars

LEMMA ReservedKept ==
  ASSUME ExclusionInv, [Next]_vars, NEW p \in Process, Reserved(p), ~(~Open' \/ OwnerDead')
  PROVE  Reserved(p)' \/ Commit(p)
<1>a. /\ TypeInv /\ TypeOK /\ replay \in [Process -> Command] /\ Locked \in Header /\ h \in Header
      /\ Swept \in Header
  BY LockedFacts, SweptFacts DEF ExclusionInv, TypeInv, TypeOK
<1>1. CASE UNCHANGED replay
  BY <1>1 DEF Reserved
<1>2. ASSUME NEW w \in Worker, \/ StartWorker(w) \/ Perform(w) \/ Bypass(w) \/ WorkerStep(w)
                               \/ \E o \in Worker : StartNested(w, o)
      PROVE  UNCHANGED replay
  BY <1>2
     DEF StartWorker, Perform, Bypass, WorkerStep, EnterShared, Admit, TakeSeat, Refuse, Publish,
         PublishFails, Leave, LateBarrier, StartNested
<1>3. ASSUME NEW q \in Process, End(q), q # p \/ UNCHANGED h PROVE Reserved(p)'
  <2>1. q # p
    <3>1. SUFFICES ASSUME q = p, UNCHANGED h PROVE OwnerDead'
      BY <1>3
    <3>2. ~Up(p)' /\ h'.replayPid = p
      BY <1>a, <1>3, <3>1, ReservationStays DEF End, Up, TypeOK
    <3>3. QED
      BY <3>2 DEF OwnerDead, Dead
  <2>2. QED
    BY <1>a, <1>3, <2>1 DEF End, Reserved
<1>4. ASSUME NEW q \in Process, CutShort(q) \/ CutTake(q) \/ CutCommit(q) \/ Abandon(q) PROVE FALSE
  BY <1>4, <1>a DEF CutShort, CutTake, CutCommit, Abandon, Header, Open
<1>5. ASSUME NEW w \in Worker, CutAdmit(w) \/ CutAppend(w) PROVE FALSE
  <2>1. CASE CutAdmit(w)
    BY <2>1, <1>a DEF CutAdmit, Header, Open
  <2>2. CASE CutAppend(w)
    BY <2>2, <1>a, TornAppend DEF CutAppend, Open
  <2>3. QED
    BY <1>5, <2>1, <2>2
<1>6. ASSUME NEW q \in Process, NEW way \in {"undo", "redo"},
             \/ QueueReplay(q) \/ DropCommand(q) \/ AwaitExclusive(q) \/ EnterExclusive(q)
             \/ Take(q) \/ TakeRefused(q) \/ Ask(q, way)
      PROVE  Reserved(p)'
  <2>1. ~Reserved(q) \/ UNCHANGED replay
    BY <1>6 DEF QueueReplay, DropCommand, AwaitExclusive, EnterExclusive, Take, TakeRefused, Ask, Reserved
  <2>2. q # p => replay'[p] = replay[p]
    BY <1>a, <1>6 DEF QueueReplay, DropCommand, AwaitExclusive, EnterExclusive, Take, TakeRefused, Ask
  <2>3. QED
    BY <1>1, <2>1, <2>2 DEF Reserved
<1>7. ASSUME NEW q \in Process, Replay(q) PROVE Reserved(p)'
  <2>1. q = p
    BY <1>a, <1>7, ReplayKeepsOp DEF ExclusionInv, ReplayExclusive, Reserved
  <2>2. QED
    BY <1>a, <1>7, <2>1, ReplayKeepsOp DEF Reserved
<1>8. ASSUME NEW q \in Process, Commit(q) PROVE q = p
  BY <1>a, <1>8, CommitParts DEF ExclusionInv, ReplayExclusive
<1>9. ASSUME NEW q \in Process, Launch(q) PROVE UNCHANGED replay
  BY <1>9 DEF Launch
<1>10. QED
  BY <1>1, <1>2, <1>3, <1>4, <1>5, <1>6, <1>7, <1>8, <1>9
     DEF Next, ReplayStep, Die, vars

(***************************************************************************)
(* With process identifiers given once, a closed history opens only with a *)
(* new session: the process of a dead replay does not come back to life.   *)
(***************************************************************************)
LEMMA ClosedUntilSession ==
  ASSUME ReusePids = FALSE, TypeInv, ReplayerSeen, [Next]_vars,
         ~Open \/ OwnerDead, ~(~Open' \/ OwnerDead')
  PROVE  ~Session /\ h' = FreshHeader /\ UNCHANGED <<replay, worker>>
<1>a. TypeOK /\ h \in Header /\ Locked \in Header
  BY LockedFacts DEF TypeInv, TypeOK
<1>. SUFFICES ASSUME ~(~Session /\ h' = FreshHeader /\ lost' = FALSE /\ UNCHANGED <<replay, worker>>)
              PROVE  FALSE
  OBVIOUS
<1>1. Open
  <2>1. ASSUME NEW w \in Worker, Publish(w) \/ PublishFails(w) \/ LateBarrier(w) PROVE Open
    <3>1. CASE UNCHANGED h
      BY <3>1 DEF Open
    <3>2. ASSUME NEW batch \in Batch, AppendBatch(batch) PROVE Open
      BY <3>2, AppendKinds DEF TypeInv, Open
    <3>3. QED
      BY <2>1, <3>1, <3>2, Recordings
  <2>2. ASSUME ~Session, h' = FreshHeader, NEW p \in Process, Launch(p) PROVE FALSE
    BY <2>2 DEF Launch
  <2>3. QED
    BY <2>1, <2>2, StackKinds, CommitParts DEF Quiet
<1>2. OwnerDead /\ h.replayPid \in Process /\ ~Up(h.replayPid)
  BY <1>1 DEF OwnerDead, Dead
<1>3. Locked.blocked
  BY <1>2 DEF TypeInv, TypeOK, Header, Locked
<1>4. ASSUME NEW w \in Worker, Admit(w) \/ Leave(w) PROVE FALSE
  <2>1. h'.blocked = Locked.blocked
    BY <1>a, <1>4 DEF Admit, TakeSeat, Leave, Header
  <2>2. QED
    BY <1>3, <2>1 DEF Open
<1>5. ASSUME NEW p \in Process, Take(p) PROVE FALSE
  BY <1>a, <1>3, <1>5, LockedOpen DEF Take, Grantable
<1>6. ASSUME NEW p \in Process, Commit(p) PROVE FALSE
  BY <1>3, <1>6, CommitParts DEF Committed, Open
<1>7. CASE SeatsLeft
  <2>1. Up(h.replayPid)'
    <3>1. h'.replayPid = h.replayPid
      BY <1>7 DEF SeatsLeft
    <3>2. QED
      BY <1>2, <3>1 DEF OwnerDead, Dead
  <2>2. PICK p \in Process : Launch(p) /\ p = h.replayPid
    <3>1. h'.replayPid = h.replayPid
      BY <1>7 DEF SeatsLeft
    <3>2. state[h.replayPid] # "up" /\ state'[h.replayPid] = "up"
      BY <1>2, <2>1, <3>1 DEF Up
    <3>3. ASSUME NEW p \in Process, End(p) PROVE FALSE
      BY <1>2, <1>a, <3>2, <3>3 DEF End, TypeOK
    <3>4. ASSUME NEW p \in Process, Launch(p) PROVE p = h.replayPid
      BY <1>2, <1>a, <3>2, <3>4 DEF Launch, TypeOK
    <3>5. QED
      BY <3>2, <3>3, <3>4, StateKinds
  <2>3. ~Session
    BY <1>2, <2>2 DEF Launch, ReplayerSeen
  <2>4. QED
    BY <2>2, <2>3 DEF Launch
<1>8. QED
  BY <1>a, <1>4, <1>5, <1>6, <1>7, SeatKinds

LEMMA SeenStep ==
  ASSUME RefineInv, [Next]_vars
  PROVE  ReplayerSeen'
<1>a. /\ TypeInv /\ TypeOK /\ h \in Header /\ Locked \in Header /\ Swept \in Header
      /\ ThreadsLive /\ NoProcess \notin Process
      /\ Locked.replayPid \in {h.replayPid, NoProcess} /\ Swept.replayPid = Locked.replayPid
  BY LockedFacts, SweptFacts, ProcessAssumption
     DEF RefineInv, StacksInv, ExclusionInv, TypeInv, TypeOK
<1>1. ASSUME NEW p \in Process, state[p] # "fresh" PROVE state'[p] # "fresh"
  <2>1. ASSUME NEW q \in Process, Launch(q) PROVE state'[p] # "fresh"
    BY <1>a, <1>1, <2>1 DEF Launch, TypeOK
  <2>2. ASSUME NEW q \in Process, End(q) PROVE state'[p] # "fresh"
    BY <1>a, <1>1, <2>2 DEF End, TypeOK
  <2>3. QED
    BY <1>1, <2>1, <2>2, StateKinds
<1>2. CASE h'.replayPid \in {h.replayPid, NoProcess}
  BY <1>a, <1>1, <1>2 DEF RefineInv, ReplayerSeen
<1>3. ASSUME NEW p \in Process, Take(p) \/ CutTake(p) PROVE ReplayerSeen'
  <2>1. h'.replayPid = p
    BY <1>a, <1>3 DEF Take, CutTake, Header
  <2>2. state[p] # "fresh"
    BY <1>a, <1>3 DEF Take, CutTake, ThreadsLive, Up
  <2>3. QED
    BY <1>1, <2>1, <2>2 DEF ReplayerSeen
<1>4. ASSUME h' \in {h, Locked, Swept} PROVE h'.replayPid \in {h.replayPid, NoProcess}
  BY <1>a, <1>4
<1>5. ASSUME NEW p \in Process, NEW way \in {"undo", "redo"},
             \/ Launch(p) \/ QueueReplay(p) \/ DropCommand(p) \/ AwaitExclusive(p) \/ EnterExclusive(p)
             \/ TakeRefused(p) \/ Replay(p) \/ Ask(p, way) \/ Die(p) \/ CutShort(p) \/ CutCommit(p)
      PROVE  h'.replayPid \in {h.replayPid, NoProcess}
  <2>1. CASE Launch(p)
    <3>1. FreshHeader.replayPid = NoProcess
      BY DEF FreshHeader
    <3>2. CASE Session
      BY <1>a, <2>1, <3>2 DEF Launch, Header
    <3>3. CASE ~Session
      BY <2>1, <3>1, <3>3 DEF Launch
    <3>4. QED
      BY <3>2, <3>3
  <2>2. CASE QueueReplay(p) \/ DropCommand(p) \/ AwaitExclusive(p) \/ EnterExclusive(p)
             \/ TakeRefused(p) \/ Replay(p) \/ Ask(p, way) \/ Die(p)
    <3>1. h' \in {h, Locked, Swept}
      BY <2>2 DEF QueueReplay, DropCommand, AwaitExclusive, EnterExclusive, TakeRefused, Replay, Ask, Die
    <3>2. QED
      BY <1>4, <3>1
  <2>3. CASE CutShort(p) \/ CutCommit(p)
    BY <1>a, <2>3 DEF CutShort, CutCommit, Header
  <2>4. QED
    BY <1>5, <2>1, <2>2, <2>3
<1>6. ASSUME NEW p \in Process, Commit(p) \/ Abandon(p)
      PROVE  h'.replayPid \in {h.replayPid, NoProcess}
  BY <1>a, <1>6 DEF Commit, Abandon, Header
<1>7. ASSUME NEW w \in Worker,
             \/ StartWorker(w) \/ Perform(w) \/ Bypass(w) \/ EnterShared(w)
             \/ Admit(w) \/ Refuse(w) \/ Leave(w) \/ CutAdmit(w) \/ \E o \in Worker : StartNested(w, o)
      PROVE  h'.replayPid \in {h.replayPid, NoProcess}
  <2>1. CASE StartWorker(w) \/ Perform(w) \/ Bypass(w) \/ EnterShared(w) \/ \E o \in Worker : StartNested(w, o)
    <3>1. h' = h
      BY <2>1 DEF StartWorker, Perform, Bypass, EnterShared, StartNested
    <3>2. QED
      BY <3>1
  <2>2. CASE Admit(w) \/ Refuse(w) \/ Leave(w) \/ CutAdmit(w)
    BY <1>a, <2>2 DEF Admit, TakeSeat, Refuse, Leave, CutAdmit, Header
  <2>3. QED
    BY <1>7, <2>1, <2>2
<1>8. ASSUME NEW w \in Worker, Publish(w) \/ PublishFails(w) \/ LateBarrier(w)
      PROVE  h'.replayPid \in {h.replayPid, NoProcess}
  <2>1. ASSUME NEW batch \in Batch, AppendBatch(batch) PROVE h'.replayPid \in {h.replayPid, NoProcess}
    BY <1>a, <2>1, AppendFacts
  <2>2. CASE UNCHANGED h
    BY <2>2
  <2>3. QED
    <3>1. UNCHANGED h \/ \E batch \in Batch : AppendBatch(batch)
      BY <1>a, <1>8, Recordings
    <3>2. QED
      BY <2>1, <2>2, <3>1
<1>9. ASSUME NEW w \in Worker, CutAppend(w) PROVE h'.replayPid \in {h.replayPid, NoProcess}
  BY <1>a, <1>9, TornAppend DEF CutAppend
<1>10. CASE UNCHANGED vars
  BY <1>2, <1>10 DEF vars
<1>11. QED
  BY <1>2, <1>3, <1>5, <1>6, <1>7, <1>8, <1>9, <1>10 DEF Next, WorkerStep, ReplayStep

LEMMA ClosedIsBoolean == TypeOK => Closed \in BOOLEAN
BY LockedFacts DEF Header, Closed

\* The mapping, field by field, before and after a step.
LEMMA Mapped ==
  ASSUME RefineInv, RefineInv'
  PROVE  /\ Closed \in BOOLEAN /\ Closed' \in BOOLEAN
         /\ Closed <=> ~Open \/ OwnerDead
         /\ Closed' <=> ~Open' \/ OwnerDead'
         /\ Batches(h.undo) = IF Closed THEN <<>> ELSE Contents(h.undo, h.content)
         /\ Batches(h.redo) = IF Closed THEN <<>> ELSE Contents(h.redo, h.content)
         /\ Batches(h.undo)' = IF Closed' THEN <<>> ELSE Contents(h'.undo, h'.content)
         /\ Batches(h.redo)' = IF Closed' THEN <<>> ELSE Contents(h'.redo, h'.content)
         /\ \A p \in Process : Reserved(p) => Turn = replay[p].way
         /\ (\A p \in Process : ~Reserved(p)) => Turn = "none"
         /\ \A p \in Process : Reserved(p)' => Turn' = replay'[p].way
         /\ (\A p \in Process : ~Reserved(p)') => Turn' = "none"
<1>1. (TypeOK => (Closed <=> ~Open \/ OwnerDead))'
  BY ClosedMeaning, PTL
<1>2. (ExclusionInv =>
        /\ \A p \in Process : Reserved(p) => Turn = replay[p].way
        /\ (\A p \in Process : ~Reserved(p)) => Turn = "none")'
  BY TurnMeaning, PTL
<1>3. /\ Batches(h.undo) = IF Closed THEN <<>> ELSE Contents(h.undo, h.content)
      /\ Batches(h.redo) = IF Closed THEN <<>> ELSE Contents(h.redo, h.content)
  BY DEF Batches, Contents
<1>4. /\ Batches(h.undo)' = IF Closed' THEN <<>> ELSE Contents(h'.undo, h'.content)
      /\ Batches(h.redo)' = IF Closed' THEN <<>> ELSE Contents(h'.redo, h'.content)
  BY DEF Batches, Contents
<1>5. TypeOK /\ TypeOK' /\ ExclusionInv /\ ExclusionInv'
  BY DEF RefineInv, StacksInv, ExclusionInv, TypeInv
<1>6. Closed <=> ~Open \/ OwnerDead
  BY <1>5, ClosedMeaning
<1>7. Closed' <=> ~Open' \/ OwnerDead'
  BY <1>1, <1>5
<1>8. /\ \A p \in Process : Reserved(p) => Turn = replay[p].way
      /\ (\A p \in Process : ~Reserved(p)) => Turn = "none"
  BY <1>5, TurnMeaning
<1>9. /\ \A p \in Process : Reserved(p)' => Turn' = replay'[p].way
      /\ (\A p \in Process : ~Reserved(p)') => Turn' = "none"
  BY <1>2, <1>5
<1>10. Closed \in BOOLEAN /\ Closed' \in BOOLEAN
  <2>1. TypeOK => Closed \in BOOLEAN
    BY ClosedIsBoolean
  <2>2. (TypeOK => Closed \in BOOLEAN)'
    BY ClosedIsBoolean, PTL
  <2>3. QED
    BY <1>5, <2>1, <2>2
<1>11. QED
  BY <1>10, <1>3, <1>4, <1>6, <1>7, <1>8, <1>9

\* Admission changes neither the stacks nor whether the history is closed.
LEMMA AdmitMapped ==
  ASSUME RefineInv, RefineInv', NEW w \in Worker, Admit(w)
  PROVE  Abstract!Work(w)
<1>a. /\ TypeOK /\ ExclusionInv /\ h \in Header /\ Locked \in Header /\ NoProcess \notin Process
      /\ worker \in [Worker -> Thread]
  BY LockedFacts, ProcessAssumption DEF RefineInv, StacksInv, ExclusionInv, TypeInv, TypeOK
<1>1. /\ h'.undo = h.undo /\ h'.redo = h.redo /\ h'.content = h.content
      /\ h'.blocked = Locked.blocked /\ ~h'.abandoned /\ ~h'.dirty /\ h'.replayPid = NoProcess
  BY <1>a, LockedFacts, LockedOpen DEF Admit, TakeSeat, Header
<1>2. Closed' <=> Closed
  BY <1>a, <1>1, Mapped DEF Closed, Open, OwnerDead, Dead
<1>3. Batches(h.undo)' = Batches(h.undo) /\ Batches(h.redo)' = Batches(h.redo)
  BY <1>1, <1>2, Mapped
<1>4. UNCHANGED replay /\ \A p \in Process : ~Reserved(p) /\ ~Reserved(p)'
  BY <1>a, ReservationStays DEF Admit, TakeSeat, Reserved
<1>5. Turn = "none" /\ Turn' = "none"
  BY <1>4, Mapped
<1>6. Working' = Working \cup {w}
  BY <1>a DEF Admit, TakeSeat, Working, Admitted, Thread
<1>7. QED
  BY <1>2, <1>3, <1>5, <1>6 DEF Abstract!Work, Working

\* A step into a closed history forgets both stacks and admits nobody.
LEMMA CloseMapped ==
  ASSUME RefineInv, RefineInv', [Next]_vars, Closed', \A w \in Worker : ~Admit(w)
  PROVE  Abstract!Close
<1>a. TypeInv /\ TypeOK /\ TypeOK' /\ ThreadsLive'
  BY DEF RefineInv, StacksInv, ExclusionInv, TypeInv
<1>1. Batches(h.undo)' = <<>> /\ Batches(h.redo)' = <<>>
  BY Mapped
<1>2. Working' \subseteq Working
  BY <1>a, AdmittedFrom DEF Working
<1>3. Turn' \in {Turn, "none"}
  <2>1. ASSUME NEW p \in Process, Reserved(p)' PROVE Turn' = Turn
    <3>1. ~Take(p)
      <4>1. SUFFICES ASSUME Take(p) PROVE ~Closed'
        OBVIOUS
      <4>2. Open' /\ h'.replayPid = p
        BY <1>a, <4>1, TakeFinds
      <4>3. Up(p)'
        BY <1>a, <2>1 DEF ThreadsLive, Reserved
      <4>4. QED
        BY <4>2, <4>3, Mapped DEF OwnerDead, Dead
    <3>2. Reserved(p) /\ replay'[p].way = replay[p].way
      BY <1>a, <2>1, <3>1, ReservedFrom, ReplayKeepsOp DEF Reserved
    <3>3. QED
      BY <2>1, <3>2, Mapped
  <2>2. QED
    BY <2>1, Mapped
<1>4. QED
  BY <1>1, <1>2, <1>3 DEF Abstract!Close, Working

\* A new session finds nobody at work.
LEMMA SessionMapped ==
  ASSUME RefineInv, RefineInv', ~Session, h' = FreshHeader, UNCHANGED <<replay, worker>>
  PROVE  Abstract!NewSession
<1>a. /\ \A p \in Process : ~Reserved(p) /\ ~Reserved(p)'
      /\ \A w \in Worker : ~Admitted(w) /\ ~Admitted(w)'
  BY HomeAssumption
     DEF RefineInv, StacksInv, ExclusionInv, ThreadsLive, Session, Reserved, Admitted
<1>1. Turn = "none" /\ Turn' = "none" /\ Working = {} /\ Working' = {}
  BY <1>a, Mapped DEF Working
<1>2. ~Closed'
  BY Mapped, ProcessAssumption DEF FreshHeader, Open, OwnerDead, Dead
<1>3. h'.undo = <<>> /\ h'.redo = <<>>
  BY DEF FreshHeader
<1>4. Batches(h.undo)' = <<>> /\ Batches(h.redo)' = <<>>
  <2>1. TypeOK'
    BY DEF RefineInv, StacksInv, ExclusionInv, TypeInv
  <2>2. h'.content \in [Slot -> Content] /\ <<>> \in Seq(Slot)
    BY <2>1, EmptyStack DEF TypeOK, Header, Content
  <2>3. Contents(<<>>, h'.content) = <<>>
    BY <2>2, ContentsType
  <2>4. QED
    BY <1>2, <1>3, <2>3, Mapped
<1>5. QED
  BY <1>1, <1>2, <1>4 DEF Abstract!NewSession, Working

\* The steps of a history that is open and stays so.
LEMMA TakeMapped ==
  ASSUME RefineInv, RefineInv', ~Closed, ~Closed', NEW p \in Process, Take(p)
  PROVE  Abstract!StartReplay(replay[p].way)
<1>a. /\ TypeInv /\ TypeOK /\ ExclusionInv /\ ExclusionInv'
      /\ h.undo \in Seq(Slot) /\ h.redo \in Seq(Slot) /\ h.content \in [Slot -> Content]
      /\ replay[p].way \in {"undo", "redo"}
  BY DEF RefineInv, StacksInv, ExclusionInv, TypeInv, TypeOK, Header, Command, Content
<1>1. /\ h'.undo = h.undo /\ h'.redo = h.redo /\ h'.content = h.content
      /\ replay'[p].pc = "reserved" /\ replay'[p].way = replay[p].way /\ UNCHANGED worker
      /\ Stack(replay[p].way) # <<>> /\ h.replayPid \notin Process
  BY <1>a, TakeFinds
<1>2. Batches(h.undo)' = Batches(h.undo) /\ Batches(h.redo)' = Batches(h.redo)
  BY <1>1, Mapped
<1>3. (IF replay[p].way = "undo" THEN Batches(h.undo) ELSE Batches(h.redo)) # <<>>
  BY <1>a, <1>1, Mapped, ContentsType DEF Stack
<1>4. Turn = "none"
  BY <1>a, <1>1, ReservationStays, Mapped
<1>5. Turn' = replay[p].way
  BY <1>1, Mapped DEF Reserved
<1>6. Working = {} /\ Working' = Working
  BY <1>a, <1>1 DEF ExclusionInv, ReplayExclusive, Reserved, Admitted, Working
<1>7. QED
  BY <1>2, <1>3, <1>4, <1>5, <1>6, Mapped DEF Abstract!StartReplay, Working

LEMMA RecordMapped ==
  ASSUME RefineInv, RefineInv', ~Closed, ~Closed', NEW batch \in Batch, NEW slot \in Slot,
         Open, Stored(slot, batch), UNCHANGED replay, Working' = Working, Working # {}
  PROVE  Abstract!Record(batch)
<1>a. /\ TypeInv /\ TypeOK /\ StacksSound
      /\ h.undo \in Seq(Slot) /\ h.redo \in Seq(Slot) /\ h.content \in [Slot -> Content]
      /\ h'.content \in [Slot -> Content]
      /\ Kept \in Seq(Slot)
  <2>1. TypeOK /\ TypeOK' /\ TypeInv /\ StacksSound
    BY DEF RefineInv, StacksInv, ExclusionInv, TypeInv
  <2>2. QED
    BY <2>1, AppendParts DEF TypeOK, Header, Content
<1> DEFINE past == Contents(h.undo, h.content)
<1>1. Contents(Kept, h.content) = IF Len(past) = Limit THEN Tail(past) ELSE past
  <2>1. Len(past) = Len(h.undo)
    BY <1>a, ContentsType
  <2>2. CASE Full
    <3>1. h.undo # <<>>
      BY <2>2, SizeAssumption DEF Full
    <3>2. Kept = Tail(h.undo)
      BY <2>2 DEF Kept
    <3>3. Contents(Tail(h.undo), h.content) = Tail(past)
      BY <1>a, <3>1, ContentsTail
    <3>4. QED
      BY <2>1, <2>2, <3>2, <3>3 DEF Full
  <2>3. CASE ~Full
    BY <2>1, <2>3 DEF Kept, Full
  <2>4. QED
    BY <2>2, <2>3
<1>2. Contents(h'.undo, h'.content) = Append(Contents(Kept, h.content), batch)
  <2>1. h'.undo = Append(Kept, slot) /\ h'.content[slot] = batch
        /\ \A s \in Elements(Kept) : h'.content[s] = h.content[s]
    BY <1>a, AppendKeepsSound DEF Stored
  <2>2. Contents(Append(Kept, slot), h'.content) = Append(Contents(Kept, h.content), h'.content[slot])
    BY <1>a, <2>1, ContentsAppend
  <2>3. QED
    BY <2>1, <2>2
<1>3. h'.redo = <<>> /\ Contents(<<>>, h'.content) = <<>>
  BY <1>a, EmptyStack, ContentsType DEF Stored
<1> HIDE DEF past
<1>4. Batches(h.undo)' = Append(IF Len(past) = Limit THEN Tail(past) ELSE past, batch)
      /\ Batches(h.redo)' = <<>> /\ Batches(h.undo) = past
  BY <1>1, <1>2, <1>3, Mapped DEF past
<1>5. Turn' = Turn
  BY DEF Turn, Reserved
<1>6. QED
  BY <1>4, <1>5, Mapped DEF Abstract!Record, Working

LEMMA RestMapped ==
  ASSUME RefineInv, RefineInv', [Next]_vars, ~Closed, ~Closed', Quiet,
         \A w \in Worker : ~Admit(w), \A p \in Process : ~Take(p) /\ ~Commit(p)
  PROVE  Abstract!Rest(Working \ Working')
<1>a. TypeInv /\ TypeOK /\ ExclusionInv
  BY DEF RefineInv, StacksInv, ExclusionInv, TypeInv
<1>1. Batches(h.undo)' = Batches(h.undo) /\ Batches(h.redo)' = Batches(h.redo)
  BY Mapped DEF Quiet
<1>2. Working' \subseteq Working
  BY <1>a, AdmittedFrom DEF Working
<1>3. Turn' = Turn
  <2>1. ASSUME NEW p \in Process, Reserved(p) PROVE Turn' = Turn
    <3>1. Reserved(p)'
      BY <1>a, <2>1, ReservedKept, Mapped
    <3>2. replay'[p].way = replay[p].way
      BY <1>a, <3>1, ReservedFrom, ReplayKeepsOp
    <3>3. QED
      BY <2>1, <3>1, <3>2, Mapped
  <2>2. ASSUME \A p \in Process : ~Reserved(p) PROVE Turn' = Turn
    <3>1. \A p \in Process : ~Reserved(p)'
      BY <1>a, <2>2, ReservedFrom, ReplayKeepsOp DEF Reserved
    <3>2. QED
      BY <2>2, <3>1, Mapped
  <2>3. QED
    BY <2>1, <2>2
<1>4. Working' = Working \ (Working \ Working')
  BY <1>2
<1>5. QED
  BY <1>1, <1>3, <1>4, Mapped DEF Abstract!Rest, Working

\* The contents of a stack whose top is rewritten in place, or carried over.
LEMMA ContentsTop ==
  ASSUME NEW c \in [Slot -> Content], NEW s \in Seq(Slot), s # <<>>, Distinct(s),
         NEW d \in [Slot -> Content], \A x \in Slot \ {Top(s)} : d[x] = c[x]
  PROVE  /\ Contents(Pop(s), d) = Abstract!Older(Contents(s, c))
         /\ Contents(s, d) = Append(Abstract!Older(Contents(s, c)), d[Top(s)])
         /\ c[Top(s)] = Abstract!Newest(Contents(s, c))
<1> DEFINE t == Pop(s)
<1>1. /\ t \in Seq(Slot) /\ Top(s) \in Slot /\ Len(t) = Len(s) - 1 /\ Len(s) \in Nat \ {0}
      /\ \A i \in 1..(Len(s) - 1) : t[i] = s[i]
      /\ Top(s) \notin Elements(t)
  BY PopFactsOf, EmptySeq
<1>2. \A x \in Elements(t) : x \in Slot \ {Top(s)}
  <2>1. \A i \in 1..Len(t) : t[i] \in Slot
    BY <1>1, LenProperties
  <2>2. QED
    BY <1>1, <2>1 DEF Elements
<1>3. \A x \in Elements(t) : d[x] = c[x]
  BY <1>2
<1>4. s = Append(t, Top(s))
  <2>1. /\ Append(t, Top(s)) \in Seq(Slot) /\ Len(Append(t, Top(s))) = Len(t) + 1
        /\ \A i \in 1..Len(t) : Append(t, Top(s))[i] = t[i]
        /\ Append(t, Top(s))[Len(t) + 1] = Top(s)
    BY <1>1, AppendProperties
  <2> HIDE DEF t
  <2>2. \A i \in 1..Len(s) : Append(t, Top(s))[i] = s[i]
    <3>. SUFFICES ASSUME NEW i \in 1..Len(s) PROVE Append(t, Top(s))[i] = s[i]
      OBVIOUS
    <3>1. CASE i = Len(s)
      BY <1>1, <2>1, <3>1 DEF Top
    <3>2. CASE i # Len(s)
      BY <1>1, <2>1, <3>2
    <3>3. QED
      BY <3>1, <3>2
  <2>3. Len(Append(t, Top(s))) = Len(s)
    BY <1>1, <2>1
  <2>4. QED
    BY <2>1, <2>2, <2>3, SeqEqual
<1>5. Contents(t, d) = Contents(t, c)
  BY <1>1, <1>3, ContentsSame
<1>6. Contents(t, c) = Abstract!Older(Contents(s, c)) /\ c[Top(s)] = Abstract!Newest(Contents(s, c))
  BY ContentsPop
<1>7. Contents(Append(t, Top(s)), d) = Append(Contents(t, c), d[Top(s)])
  <2> HIDE DEF t
  <2>1. QED
    BY <1>1, <1>3, ContentsAppend
<1>8. QED
  BY <1>4, <1>5, <1>6, <1>7

\* Commit finds the slot that take reserved, and moves or marks that one batch.
LEMMA CommitMapped ==
  ASSUME RefineInv, RefineInv', ~Closed, ~Closed', NEW p \in Process, Commit(p)
  PROVE  Abstract!Complete \/ Abstract!Fail
<1>a. /\ TypeInv /\ TypeOK /\ TypeOK' /\ Open /\ Open' /\ Reserved(p) /\ replay[p].pc = "replayed"
      /\ replay[p].slot \in Slot /\ replay[p].way \in {"undo", "redo"}
      /\ UNCHANGED worker /\ replay' = [replay EXCEPT ![p] = NoReplay]
      /\ StacksSound /\ ReservationKept /\ StackMatchesState /\ ReplayPending /\ ReplayExclusive
  BY CommitParts, Mapped DEF RefineInv, StacksInv, ExclusionInv, TypeInv
<1>b. /\ h.undo \in Seq(Slot) /\ h.redo \in Seq(Slot) /\ h.content \in [Slot -> Content]
      /\ h'.content \in [Slot -> Content]
  BY <1>a DEF TypeOK, Header, Content
<1>c. /\ Distinct(h.undo) /\ Distinct(h.redo) /\ Elements(h.undo) \cap Elements(h.redo) = {}
      /\ Elements(h.undo) \cup Elements(h.redo) = {s \in Slot : h.content[s] # NoBatch}
  BY <1>a DEF StacksSound
<1>d. /\ \A s \in Elements(h.undo) : h.content[s].barrier \/ h.content[s].state = "done"
      /\ \A s \in Elements(h.redo) : h.content[s].barrier \/ h.content[s].state = "undone"
  BY <1>a DEF StackMatchesState, InState
<1> DEFINE way == replay[p].way
           slot == replay[p].slot
           batch == replay[p].batch
           now == h.content[slot]
           past == Contents(h.undo, h.content)
           future == Contents(h.redo, h.content)
<1>e. /\ batch \in Batch /\ batch.op = now.op
      /\ IF replay[p].complete
         THEN ~now.barrier /\ ~batch.barrier /\ batch.state = Reversed[now.state]
         ELSE batch.barrier
  BY <1>a DEF ReplayPending, PendingOf
<1>f. Stack(way) # <<>> /\ Top(Stack(way)) = slot
  BY <1>a DEF ReservationKept
<1>1. PICK saved \in BOOLEAN, move \in BOOLEAN : Committed(p, saved, move)
  BY <1>a, CommitParts
<1>2. saved
  BY <1>1, <1>a DEF Committed, Open
<1>3. /\ move = replay[p].complete
      /\ h'.content = [h.content EXCEPT ![slot] = batch]
      /\ h'.undo = IF ~move THEN h.undo ELSE IF way = "undo" THEN Pop(h.undo) ELSE Append(h.undo, slot)
      /\ h'.redo = IF ~move THEN h.redo ELSE IF way = "undo" THEN Append(h.redo, slot) ELSE Pop(h.redo)
  BY <1>1, <1>2, <1>a DEF Committed, TypeOK, Command
<1>4. h'.content[slot] = batch /\ \A s \in Slot \ {slot} : h'.content[s] = h.content[s]
  BY <1>a, <1>b, <1>3
<1>5. Turn = way /\ Turn' = "none" /\ Working' = Working /\ way \in {"undo", "redo"}
  <2>1. \A q \in Process : ~Reserved(q)'
    BY <1>a DEF ReplayExclusive, Reserved, TypeOK, NoReplay
  <2>2. Working' = Working
    BY <1>a DEF Working, Admitted
  <2>3. QED
    BY <1>a, <2>1, <2>2, Mapped
<1>6. /\ Batches(h.undo) = past /\ Batches(h.redo) = future
      /\ Batches(h.undo)' = Contents(h'.undo, h'.content)
      /\ Batches(h.redo)' = Contents(h'.redo, h'.content)
      /\ ~Closed /\ UNCHANGED Closed
  BY Mapped
<1>7. slot \in Slot /\ slot \in Elements(Stack(way)) /\ now \in Batch
  <2>1. Top(Stack(way)) \in Elements(Stack(way))
    BY <1>b, <1>f, PopFactsOf DEF Stack
  <2>2. slot \in Elements(h.undo) \cup Elements(h.redo)
    BY <1>f, <2>1 DEF Stack
  <2>3. now \in Content /\ now # NoBatch
    BY <1>b, <1>c, <2>2
  <2>4. QED
    BY <1>a, <1>f, <2>1, <2>3 DEF Content
<1> HIDE DEF way, slot, batch, now, past, future
<1>8. CASE way = "undo"
  <2>1. h.undo # <<>> /\ Top(h.undo) = slot
    BY <1>f, <1>8 DEF Stack
  <2>2. /\ Contents(Pop(h.undo), h'.content) = Abstract!Older(past)
        /\ Contents(h.undo, h'.content) = Append(Abstract!Older(past), batch)
        /\ now = Abstract!Newest(past)
    BY <1>b, <1>c, <1>4, <2>1, ContentsTop DEF past, now
  <2>3. \A x \in Elements(h.redo) : h'.content[x] = h.content[x]
    <3>1. slot \notin Elements(h.redo) /\ Elements(h.redo) \subseteq Slot
      BY <1>c, <1>7, <1>8 DEF Stack
    <3>2. QED
      BY <1>4, <3>1
  <2>4. CASE move
    <3>1. Contents(h'.redo, h'.content) = Append(future, batch)
      <4>1. Contents(Append(h.redo, slot), h'.content) = Append(Contents(h.redo, h.content), h'.content[slot])
        BY <1>b, <1>7, <2>3, ContentsAppend
      <4>2. h'.redo = Append(h.redo, slot)
        BY <1>3, <1>8, <2>4
      <4>3. QED
        BY <1>4, <4>1, <4>2 DEF future
    <3>2. Contents(h'.undo, h'.content) = Abstract!Older(past)
      BY <1>3, <1>8, <2>2, <2>4
    <3>3. ~now.barrier /\ now.state = "done" /\ batch = [now EXCEPT !.state = "undone"]
      <4>1. ~now.barrier /\ ~batch.barrier /\ batch.op = now.op /\ batch.state = Reversed[now.state]
        BY <1>e, <1>3, <2>4
      <4>2. now.state = "done"
        BY <1>d, <1>7, <1>8, <4>1 DEF Stack, now
      <4>3. QED
        BY <1>e, <1>7, <4>1, <4>2 DEF Batch, Reversed
    <3>4. QED
      BY <1>5, <1>6, <1>8, <2>2, <3>1, <3>2, <3>3 DEF Abstract!Complete, Working
  <2>5. CASE ~move
    <3>1. h'.undo = h.undo /\ h'.redo = h.redo /\ batch.barrier
      BY <1>e, <1>3, <2>5
    <3>2. Contents(h.redo, h'.content) = future
      BY <1>b, <2>3, ContentsSame DEF future
    <3>3. QED
      BY <1>e, <1>5, <1>6, <1>8, <2>2, <3>1, <3>2 DEF Abstract!Fail, Working
  <2>6. QED
    BY <2>4, <2>5
<1>9. CASE way = "redo"
  <2>1. h.redo # <<>> /\ Top(h.redo) = slot
    BY <1>f, <1>9 DEF Stack
  <2>2. /\ Contents(Pop(h.redo), h'.content) = Abstract!Older(future)
        /\ Contents(h.redo, h'.content) = Append(Abstract!Older(future), batch)
        /\ now = Abstract!Newest(future)
    BY <1>b, <1>c, <1>4, <2>1, ContentsTop DEF future, now
  <2>3. \A x \in Elements(h.undo) : h'.content[x] = h.content[x]
    <3>1. slot \notin Elements(h.undo) /\ Elements(h.undo) \subseteq Slot
      BY <1>c, <1>7, <1>9 DEF Stack
    <3>2. QED
      BY <1>4, <3>1
  <2>4. CASE move
    <3>1. Contents(h'.undo, h'.content) = Append(past, batch)
      <4>1. Contents(Append(h.undo, slot), h'.content) = Append(Contents(h.undo, h.content), h'.content[slot])
        BY <1>b, <1>7, <2>3, ContentsAppend
      <4>2. h'.undo = Append(h.undo, slot)
        BY <1>3, <1>9, <2>4
      <4>3. QED
        BY <1>4, <4>1, <4>2 DEF past
    <3>2. Contents(h'.redo, h'.content) = Abstract!Older(future)
      BY <1>3, <1>9, <2>2, <2>4
    <3>3. ~now.barrier /\ now.state = "undone" /\ batch = [now EXCEPT !.state = "done"]
      <4>1. ~now.barrier /\ ~batch.barrier /\ batch.op = now.op /\ batch.state = Reversed[now.state]
        BY <1>e, <1>3, <2>4
      <4>2. now.state = "undone"
        BY <1>d, <1>7, <1>9, <4>1 DEF Stack, now
      <4>3. QED
        BY <1>e, <1>7, <4>1, <4>2 DEF Batch, Reversed
    <3>4. QED
      BY <1>5, <1>6, <1>9, <2>2, <3>1, <3>2, <3>3 DEF Abstract!Complete, Working
  <2>5. CASE ~move
    <3>1. h'.undo = h.undo /\ h'.redo = h.redo /\ batch.barrier
      BY <1>e, <1>3, <2>5
    <3>2. Contents(h.undo, h'.content) = past
      BY <1>b, <2>3, ContentsSame DEF past
    <3>3. QED
      BY <1>e, <1>5, <1>6, <1>9, <2>2, <3>1, <3>2 DEF Abstract!Fail, Working
  <2>6. QED
    BY <2>4, <2>5
<1>10. QED
  BY <1>5, <1>8, <1>9

-----------------------------------------------------------------------------
(* Every step maps to a step of FileHistory. *)

LEMMA RecordingMapped ==
  ASSUME OnTime, RefineInv, RefineInv', [Next]_vars, ~Closed, ~Closed', NEW w \in Worker,
         Publish(w) \/ PublishFails(w) \/ LateBarrier(w)
  PROVE  Quiet \/ \E batch \in Batch : Abstract!Record(batch)
<1>a. TypeInv /\ TypeOK /\ h \in Header /\ worker[w].pc # "late" /\ worker \in [Worker -> Thread]
  BY DEF RefineInv, StacksInv, ExclusionInv, TypeInv, TypeOK, NoneLate
<1>1. CASE UNCHANGED h
  BY <1>a, <1>1 DEF Quiet, Open, Header
<1>2. ASSUME NEW batch \in Batch, AppendBatch(batch) PROVE Abstract!Record(batch)
  <2>1. Open'
    BY Mapped
  <2>2. PICK slot \in Slot : Open /\ Stored(slot, batch)
    BY <1>a, <1>2, <2>1, AppendKinds DEF Open
  <2>3. Working' = Working /\ w \in Working
    <3>1. /\ worker[w].pc = "mutated" /\ worker'[w].pc = "working"
          /\ \A v \in Worker \ {w} : worker'[v] = worker[v]
      <4>1. CASE Publish(w)
        BY <1>a, <4>1 DEF Publish
      <4>2. CASE PublishFails(w)
        <5>1. "unwound" \notin Faults
          BY DEF OnTime
        <5>2. /\ worker[w].pc = "mutated"
              /\ worker' = [worker EXCEPT ![w].pc = "working", ![w].made = NoBatch]
          BY <4>2, <5>1 DEF PublishFails
        <5>3. QED
          BY <1>a, <5>2 DEF Thread
      <4>3. QED
        BY <1>a, <4>1, <4>2 DEF LateBarrier
    <3>2. QED
      BY <3>1 DEF Working, Admitted
  <2>4. UNCHANGED replay
    BY <1>a, Recordings
  <2>5. Working # {}
    BY <2>3
  <2>6. QED
    BY <2>2, <2>3, <2>4, <2>5, RecordMapped
<1>3. QED
  BY <1>a, <1>1, <1>2, Recordings

LEMMA StepMapped ==
  ASSUME OnTime, ReusePids = FALSE, RefineInv, RefineInv', [Next]_vars
  PROVE  Abstract!Next
<1>a. TypeInv /\ ReplayerSeen /\ Working \subseteq Worker
  BY DEF RefineInv, StacksInv, ExclusionInv, Working
<1>1. ASSUME NEW w \in Worker, Admit(w) PROVE Abstract!Next
  BY <1>1, AdmitMapped DEF Abstract!Next
<1>2. CASE Closed' /\ \A w \in Worker : ~Admit(w)
  BY <1>2, CloseMapped DEF Abstract!Next
<1>3. CASE ~Session /\ h' = FreshHeader /\ UNCHANGED <<replay, worker>>
  BY <1>3, SessionMapped DEF Abstract!Next
<1>4. CASE Closed /\ ~Closed'
  <2>1. (~Open \/ OwnerDead) /\ ~(~Open' \/ OwnerDead')
    BY <1>4, Mapped
  <2>2. ~Session /\ h' = FreshHeader /\ UNCHANGED <<replay, worker>>
    BY <1>a, <2>1, ClosedUntilSession
  <2>3. QED
    BY <1>3, <2>2
<1>5. CASE ~Closed /\ ~Closed' /\ \A w \in Worker : ~Admit(w)
  <2>1. ASSUME NEW p \in Process, Take(p) PROVE Abstract!Next
    <3>1. replay[p].way \in {"undo", "redo"}
      BY <1>a DEF TypeInv, TypeOK, Command
    <3>2. QED
      BY <1>5, <2>1, <3>1, TakeMapped DEF Abstract!Next
  <2>2. ASSUME NEW p \in Process, Commit(p) PROVE Abstract!Next
    BY <1>5, <2>2, CommitMapped DEF Abstract!Next
  <2>3. CASE Quiet /\ \A p \in Process : ~Take(p) /\ ~Commit(p)
    <3>1. Abstract!Rest(Working \ Working')
      BY <1>5, <2>3, RestMapped
    <3>2. Working \ Working' \in SUBSET Working
      OBVIOUS
    <3>3. QED
      BY <3>1, <3>2 DEF Abstract!Next, Working
  <2>4. ASSUME NEW w \in Worker, Publish(w) \/ PublishFails(w) \/ LateBarrier(w) PROVE Abstract!Next
    <3>1. Quiet \/ \E batch \in Batch : Abstract!Record(batch)
      BY <1>5, <2>4, RecordingMapped
    <3>2. QED
      BY <2>1, <2>2, <2>3, <3>1 DEF Abstract!Next
  <2>5. CASE ~Session /\ h' = FreshHeader /\ \E p \in Process : Launch(p)
    <3>1. UNCHANGED <<replay, worker>>
      BY <2>5 DEF Launch
    <3>2. QED
      BY <1>3, <2>5, <3>1
  <2>6. Open'
    BY <1>5, Mapped
  <2>7. QED
    BY <1>a, <2>1, <2>2, <2>3, <2>4, <2>5, <2>6, StackKinds
<1>6. QED
  BY <1>1, <1>2, <1>4, <1>5

LEMMA RefineInit == Init => RefineInv /\ Abstract!Init
<1>. SUFFICES ASSUME Init PROVE RefineInv /\ Abstract!Init
  OBVIOUS
<1>1. RefineInv
  BY StacksInit, ProcessAssumption DEF RefineInv, ReplayerSeen, Init, FreshHeader
<1>2. TypeOK /\ ExclusionInv
  BY <1>1 DEF RefineInv, StacksInv, ExclusionInv, TypeInv
<1>3. ~Closed /\ Closed \in BOOLEAN
  BY <1>2, ClosedMeaning, ClosedIsBoolean, ProcessAssumption DEF Init, FreshHeader, Open, OwnerDead, Dead
<1>4. Turn = "none"
  BY <1>2, TurnMeaning DEF Init, NoReplay, Reserved
<1>5. Working = {}
  BY DEF Working, Admitted, Init, NoWork
<1>6. Batches(h.undo) = <<>> /\ Batches(h.redo) = <<>>
  <2>1. h.undo = <<>> /\ h.redo = <<>> /\ h.content \in [Slot -> Content] /\ <<>> \in Seq(Slot)
    BY <1>2, EmptyStack DEF Init, FreshHeader, TypeOK, Header, Content
  <2>2. Contents(<<>>, h.content) = <<>>
    BY <2>1, ContentsType
  <2>3. QED
    BY <1>3, <2>1, <2>2 DEF Batches, Contents
<1>7. QED
  BY <1>1, <1>3, <1>4, <1>5, <1>6 DEF Abstract!Init, Working

(***************************************************************************)
(* The shared header implements FileHistory: while every batch is recorded *)
(* before its Activity ends and no identifier is reused, every step of     *)
(* every process, and every death inside a critical section, is a step of  *)
(* one history that is worked on, replayed, recorded into or closed.       *)
(***************************************************************************)
THEOREM HistoryImplemented == OnTime /\ ReusePids = FALSE => (Spec => Implements)
<1>. SUFFICES ASSUME OnTime, ReusePids = FALSE PROVE Spec => Implements
  OBVIOUS
<1>1. Init => RefineInv /\ Abstract!Init
  BY RefineInit
<1>2. RefineInv /\ [Next]_vars => RefineInv'
  <2>1. RefineInv /\ [Next]_vars => StacksInv'
    BY StacksStep DEF RefineInv
  <2>2. QED
    BY <2>1, SeenStep DEF RefineInv
<1>3. RefineInv /\ RefineInv' /\ [Next]_vars => Abstract!Next
  BY StepMapped
<1>4. QED
  BY <1>1, <1>2, <1>3, PTL DEF Spec, Implements, Abstract!Spec
=============================================================================
