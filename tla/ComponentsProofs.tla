--------------------------- MODULE ComponentsProofs ---------------------------
(***************************************************************************)
(* Proofs about components of MCComponents: drops on a panel, for any      *)
(* number of drags; the delivery of the adapter to a child, for any number *)
(* of attempts of the host; and the hooks of a dialog, called within one   *)
(* another to any depth.                                                   *)
(***************************************************************************)
EXTENDS MCComponents, FiniteSetTheorems, SequenceTheorems, TLAPS

-----------------------------------------------------------------------------
(***************************************************************************)
(* The inductive invariant of the drops.                                   *)
(***************************************************************************)
Drop ==
  [hook : {"none", "asking", "starting", "handed", "returned"},
   worker : {"none", "begun", "moved", "failed", "mute", "done"}, capable : BOOLEAN,
   async : {"no", "started", "ended"}, native : BOOLEAN, told : {"nothing", "move", "none"},
   deleted : BOOLEAN]

\* Until the worker begins, and as long as it lives, nobody else moves; who was asked to
\* wait hears of the end from the worker, or from the hook that could not start it.
DropSound(r) ==
  /\ r.hook # "returned" \/ r.worker # "none" => ~r.native /\ ~r.deleted /\ r.told # "move"
  /\ r.hook \in {"none", "asking", "starting"} => r.worker = "none"
  /\ r.hook \in {"none", "asking"} => r.async = "no"
  /\ r.hook = "handed" => r.worker # "none"
  /\ r.hook = "returned" /\ r.worker = "none" => r.async # "started"
  /\ r.worker = "done" => r.async # "started"

Moves(r) == r.hook = "starting" \/ r.worker = "begun"
Gain(r) == IF Moves(r) THEN 1 ELSE 0
Movers == {d \in Drag : Moves(drag[d])}

DropsInv ==
  /\ drag \in [Drag -> Drop] /\ \A d \in Drag : DropSound(drag[d])
  /\ active = Cardinality(Movers)

\* The instance's set theory is the library's.
LEMMA DragsCounts ==
  \A S : (Drags!IsFiniteSet(S) <=> IsFiniteSet(S)) /\ Drags!Cardinality(S) = Cardinality(S)
<1>1. \A S : Drags!IsFiniteSet(S) <=> IsFiniteSet(S)
  BY DEF Drags!IsFiniteSet, IsFiniteSet
<1>2. \A S : Drags!Cardinality(S) = Cardinality(S)
  BY Zenon DEF Drags!Cardinality, Cardinality
<1>3. QED
  BY <1>1, <1>2

LEMMA DragIsFinite == IsFiniteSet(Drag)
BY Instances, DragsCounts DEF Drags!DragAssumption

\* A step replaces the record of its drag, and keeps the count.
LEMMA BecomesKeeps ==
  ASSUME DropsInv, NEW d \in Drag, NEW r \in Drop, DropSound(r), drag' = [drag EXCEPT ![d] = r],
         active' = active + Gain(r) - Gain(drag[d])
  PROVE  DropsInv'
<1>1. drag' \in [Drag -> Drop] /\ drag'[d] = r /\ \A e \in Drag \ {d} : drag'[e] = drag[e]
  BY DEF DropsInv
<1>2. \A e \in Drag : DropSound(drag'[e])
  BY <1>1 DEF DropsInv
<1>3. IsFiniteSet(Movers) /\ Cardinality(Movers) \in Nat
  BY DragIsFinite, FS_Subset, FS_CardinalityType DEF Movers
<1>4. Movers' = {e \in Drag : Moves(drag'[e])}
  BY DEF Movers, Moves
<1>5. Cardinality(Movers') = Cardinality(Movers) + Gain(r) - Gain(drag[d])
  <2> USE DEF Gain
  <2>1. CASE Moves(r) /\ ~Moves(drag[d])
    <3>1. Movers' = Movers \cup {d} /\ d \notin Movers
      BY <1>1, <1>4, <2>1 DEF Movers
    <3>2. Cardinality(Movers \cup {d}) = Cardinality(Movers) + 1
      BY <1>3, <3>1, FS_AddElement
    <3>3. QED
      BY <1>3, <2>1, <3>1, <3>2
  <2>2. CASE ~Moves(r) /\ Moves(drag[d])
    <3>1. Movers' = Movers \ {d} /\ d \in Movers
      BY <1>1, <1>4, <2>2 DEF Movers
    <3>2. QED
      <4>1. Cardinality(Movers \ {d}) = Cardinality(Movers) - 1
        BY <1>3, <3>1, FS_RemoveElement
      <4>2. QED
        BY <1>3, <2>2, <3>1, <4>1
  <2>3. CASE Moves(r) <=> Moves(drag[d])
    <3>1. Movers' = Movers
      BY <1>1, <1>4, <2>3 DEF Movers
    <3>2. QED
      BY <1>3, <2>3, <3>1
  <2>4. QED
    BY <2>1, <2>2, <2>3
<1>6. active' = Cardinality(Movers')
  BY <1>5 DEF DropsInv
<1>7. QED
  BY <1>1, <1>2, <1>6 DEF DropsInv

LEMMA DropsStep ==
  ASSUME DropsInv, Drags!Next
  PROVE  DropsInv'
<1>1. PICK d \in Drag :
        \/ \E capable \in BOOLEAN : Drags!Dropped(d, capable)
        \/ Drags!Unsuitable(d) \/ Drags!Negotiate(d) \/ Drags!StartThread(d)
        \/ Drags!ThreadFails(d) \/ Drags!Return(d)
        \/ Drags!NoApartment(d) \/ Drags!Answer(d) \/ Drags!Delete(d)
        \/ \E how \in {"moved", "failed"} : Drags!Run(d, how)
  BY DEF Drags!Next
<1>2. drag[d] \in Drop /\ DropSound(drag[d]) /\ active \in Int
  BY DragIsFinite, FS_Subset, FS_CardinalityType DEF DropsInv, Movers
<1> DEFINE o == drag[d]
<1>o. o \in Drop /\ DropSound(o) /\ o = drag[d] /\ active \in Int
  BY <1>2
<1> HIDE DEF o
<1>3. ASSUME NEW capable \in BOOLEAN, Drags!Dropped(d, capable) PROVE DropsInv'
  <2> DEFINE r == [o EXCEPT !.hook = "asking", !.capable = capable]
  <2>1. o.hook = "none"
    BY <1>3, <1>o DEF Drags!Dropped, Drags!Hook, Drags!Worker, Drags!Set, DropSound, Drop
  <2>2. r \in Drop /\ DropSound(r) /\ ~Moves(r) /\ ~Moves(o)
    BY <1>o, <2>1 DEF Drop, DropSound, Moves
  <2>3. drag' = [drag EXCEPT ![d] = r] /\ active' = active
    BY <1>3, <1>o DEF Drags!Dropped, Drags!Hook, Drags!Worker, Drags!Set
  <2> HIDE DEF r
  <2>4. active' = active + Gain(r) - Gain(drag[d])
    BY <1>o, <2>2, <2>3 DEF Gain
  <2>5. QED
    BY <2>1, <2>2, <2>3, <2>4, BecomesKeeps, Zenon
<1>4. CASE Drags!Unsuitable(d)
  <2> DEFINE r == [o EXCEPT !.hook = "returned", !.native = TRUE, !.told = "move"]
  <2>1. o.hook = "asking"
    BY <1>4, <1>o DEF Drags!Unsuitable, Drags!Hook, Drags!Worker, Drags!Set, DropSound, Drop
  <2>2. r \in Drop /\ DropSound(r) /\ ~Moves(r) /\ ~Moves(o)
    BY <1>o, <2>1 DEF Drop, DropSound, Moves
  <2>3. drag' = [drag EXCEPT ![d] = r] /\ active' = active
    BY <1>4, <1>o DEF Drags!Unsuitable, Drags!Native, Drags!Hook, Drags!Worker, Drags!Set
  <2> HIDE DEF r
  <2>4. active' = active + Gain(r) - Gain(drag[d])
    BY <1>o, <2>2, <2>3 DEF Gain
  <2>5. QED
    BY <2>1, <2>2, <2>3, <2>4, BecomesKeeps, Zenon
<1>5. CASE Drags!Negotiate(d)
  <2>1. PICK async \in {"started", o.async} :
          drag' = [drag EXCEPT ![d] = [[o EXCEPT !.hook = "starting"] EXCEPT !.async = async]]
    <3>1. [o EXCEPT !.hook = "starting"] = [[o EXCEPT !.hook = "starting"] EXCEPT !.async = o.async]
      BY <1>o DEF Drop
    <3>2. QED
      BY <1>5, <1>o, <3>1 DEF Drags!Negotiate, Drags!Set
  <2> DEFINE r == [[o EXCEPT !.hook = "starting"] EXCEPT !.async = async]
  <2>2. o.hook = "asking" /\ active' = active + 1
    BY <1>5, <1>o DEF Drags!Negotiate, Drags!Hook
  <2>3. r \in Drop /\ DropSound(r) /\ Moves(r) /\ ~Moves(o)
    BY <1>o, <2>2 DEF Drop, DropSound, Moves
  <2> HIDE DEF r
  <2>4. active' = active + Gain(r) - Gain(drag[d])
    BY <1>o, <2>2, <2>3 DEF Gain
  <2>5. QED
    BY <2>1, <2>2, <2>3, <2>4, BecomesKeeps, Zenon DEF r
<1>6. CASE Drags!StartThread(d)
  <2> DEFINE r == [o EXCEPT !.hook = "handed", !.worker = "begun"]
  <2>1. o.hook = "starting"
    BY <1>6, <1>o DEF Drags!StartThread, Drags!Hook, Drags!Worker, Drags!Set, DropSound, Drop
  <2>2. r \in Drop /\ DropSound(r) /\ Moves(r) /\ Moves(o)
    BY <1>o, <2>1 DEF Drop, DropSound, Moves
  <2>3. drag' = [drag EXCEPT ![d] = r] /\ active' = active
    BY <1>6, <1>o DEF Drags!StartThread, Drags!Hook, Drags!Worker, Drags!Set
  <2> HIDE DEF r
  <2>4. active' = active + Gain(r) - Gain(drag[d])
    BY <1>o, <2>2, <2>3 DEF Gain
  <2>5. QED
    BY <2>1, <2>2, <2>3, <2>4, BecomesKeeps, Zenon
<1>7. CASE Drags!ThreadFails(d)
  <2> DEFINE r == [o EXCEPT !.hook = "returned", !.native = TRUE, !.told = "move",
                           !.async = IF @ = "started" THEN "ended" ELSE @]
  <2>1. o.hook = "starting"
    BY <1>7, <1>o DEF Drags!ThreadFails, Drags!Hook, Drags!Worker, Drags!Set, DropSound, Drop
  <2>2. r \in Drop /\ DropSound(r) /\ ~Moves(r) /\ Moves(o)
    BY <1>o, <2>1 DEF Drop, DropSound, Moves
  <2>3. drag' = [drag EXCEPT ![d] = r] /\ active' = active - 1
    BY <1>7, <1>o DEF Drags!ThreadFails, Drags!Native, Drags!Hook, Drags!Worker, Drags!Set
  <2> HIDE DEF r
  <2>4. active' = active + Gain(r) - Gain(drag[d])
    BY <1>o, <2>2, <2>3 DEF Gain
  <2>5. QED
    BY <2>1, <2>2, <2>3, <2>4, BecomesKeeps, Zenon
<1>8. CASE Drags!Return(d)
  <2> DEFINE r == [o EXCEPT !.hook = "returned", !.told = "none"]
  <2>1. o.hook = "handed"
    BY <1>8, <1>o DEF Drags!Return, Drags!Hook, Drags!Worker, Drags!Set, DropSound, Drop
  <2>2. r \in Drop /\ DropSound(r) /\ (Moves(r) <=> Moves(o))
    BY <1>o, <2>1 DEF Drop, DropSound, Moves
  <2>3. drag' = [drag EXCEPT ![d] = r] /\ active' = active
    BY <1>8, <1>o DEF Drags!Return, Drags!Hook, Drags!Worker, Drags!Set
  <2> HIDE DEF r
  <2>4. active' = active + Gain(r) - Gain(drag[d])
    BY <1>o, <2>2, <2>3 DEF Gain
  <2>5. QED
    BY <2>1, <2>2, <2>3, <2>4, BecomesKeeps, Zenon
<1>9. CASE Drags!NoApartment(d)
  <2> DEFINE r == [o EXCEPT !.worker = "mute"]
  <2>1. o.worker = "begun"
    BY <1>9, <1>o DEF Drags!NoApartment, Drags!Hook, Drags!Worker, Drags!Set, DropSound, Drop
  <2>2. r \in Drop /\ DropSound(r) /\ ~Moves(r) /\ Moves(o)
    BY <1>o, <2>1 DEF Drop, DropSound, Moves
  <2>3. drag' = [drag EXCEPT ![d] = r] /\ active' = active - 1
    BY <1>9, <1>o DEF Drags!NoApartment, Drags!Hook, Drags!Worker, Drags!Set
  <2> HIDE DEF r
  <2>4. active' = active + Gain(r) - Gain(drag[d])
    BY <1>o, <2>2, <2>3 DEF Gain
  <2>5. QED
    BY <2>1, <2>2, <2>3, <2>4, BecomesKeeps, Zenon
<1>10. CASE Drags!Answer(d)
  <2>1. PICK r : /\ drag' = [drag EXCEPT ![d] = r]
                 /\ \/ r = [o EXCEPT !.worker = "done", !.async = "ended", !.told = "none"]
                    \/ r = [o EXCEPT !.worker = "mute"]
                    \/ r = [o EXCEPT !.worker = "done"] /\ o.async # "started"
    <3>1. CASE drag[d].async = "started"
      BY <1>10, <1>o, <3>1 DEF Drags!Answer, Drags!Set
    <3>2. CASE drag[d].async # "started"
      BY <1>10, <1>o, <3>2 DEF Drags!Answer, Drags!Set
    <3>3. QED
      BY <3>1, <3>2
  <2>2. o.worker \in {"moved", "failed"} /\ active' = active
    BY <1>10, <1>o DEF Drags!Answer, Drags!Finished
  <2>3. r \in Drop /\ DropSound(r) /\ ~Moves(r) /\ ~Moves(o)
    <3>1. CASE r = [o EXCEPT !.worker = "done", !.async = "ended", !.told = "none"]
      BY <1>o, <2>2, <3>1 DEF Drop, DropSound, Moves
    <3>2. CASE r = [o EXCEPT !.worker = "mute"]
      BY <1>o, <2>2, <3>2 DEF Drop, DropSound, Moves
    <3>3. CASE r = [o EXCEPT !.worker = "done"] /\ o.async # "started"
      BY <1>o, <2>2, <3>3 DEF Drop, DropSound, Moves
    <3>4. QED
      BY <2>1, <3>1, <3>2, <3>3
  <2>4. active' = active + Gain(r) - Gain(drag[d])
    BY <1>o, <2>2, <2>3 DEF Gain
  <2>5. QED
    BY <2>1, <2>2, <2>3, <2>4, BecomesKeeps, Zenon
<1>11. CASE Drags!Delete(d)
  <2> DEFINE r == [o EXCEPT !.deleted = TRUE]
  <2>1. o.hook = "returned" /\ o.told = "move" /\ o.worker = "none"
    BY <1>11, <1>o DEF Drags!Delete, Drags!Hook, Drags!Worker, Drags!Set, DropSound, Drop
  <2>2. r \in Drop /\ DropSound(r) /\ (Moves(r) <=> Moves(o))
    BY <1>o, <2>1 DEF Drop, DropSound, Moves
  <2>3. drag' = [drag EXCEPT ![d] = r] /\ active' = active
    BY <1>11, <1>o DEF Drags!Delete, Drags!Hook, Drags!Worker, Drags!Set
  <2> HIDE DEF r
  <2>4. active' = active + Gain(r) - Gain(drag[d])
    BY <1>o, <2>2, <2>3 DEF Gain
  <2>5. QED
    BY <2>1, <2>2, <2>3, <2>4, BecomesKeeps, Zenon
<1>12. ASSUME NEW how \in {"moved", "failed"}, Drags!Run(d, how) PROVE DropsInv'
  <2> DEFINE r == [o EXCEPT !.worker = how]
  <2>1. o.worker = "begun"
    BY <1>12, <1>o DEF Drags!Run, Drags!Hook, Drags!Worker, Drags!Set, DropSound, Drop
  <2>2. r \in Drop /\ DropSound(r) /\ ~Moves(r) /\ Moves(o)
    BY <1>o, <2>1 DEF Drop, DropSound, Moves
  <2>3. drag' = [drag EXCEPT ![d] = r] /\ active' = active - 1
    BY <1>12, <1>o DEF Drags!Run, Drags!Hook, Drags!Worker, Drags!Set
  <2> HIDE DEF r
  <2>4. active' = active + Gain(r) - Gain(drag[d])
    BY <1>o, <2>2, <2>3 DEF Gain
  <2>5. QED
    BY <2>1, <2>2, <2>3, <2>4, BecomesKeeps, Zenon
<1>13. QED
  BY <1>1, <1>3, <1>4, <1>5, <1>6, <1>7, <1>8, <1>9, <1>10, <1>11, <1>12

LEMMA DropsHold == Spec => [](On("drag") => DropsInv)
<1>1. Init => (On("drag") => DropsInv)
  <2> SUFFICES ASSUME Init, On("drag") PROVE DropsInv
    OBVIOUS
  <2>1. Drags!Init
    BY DEF Init, DragsInit
  <2>2. drag \in [Drag -> Drop] /\ \A d \in Drag : DropSound(drag[d])
    BY <2>1 DEF Drags!Init, Drop, DropSound
  <2>3. Movers = {}
    BY <2>1 DEF Drags!Init, Movers, Moves
  <2>4. QED
    BY <2>1, <2>2, <2>3, FS_EmptySet DEF Drags!Init, DropsInv
<1>2. (On("drag") => DropsInv) /\ [Next]_vars => (On("drag") => DropsInv)'
  <2> SUFFICES ASSUME On("drag") => DropsInv, [Next]_vars, On("drag")' PROVE DropsInv'
    OBVIOUS
  <2>1. CASE UNCHANGED vars
    <3>1. UNCHANGED <<moving, drag, active>>
      BY <2>1 DEF vars, DragsVars
    <3>2. QED
      BY <3>1 DEF On, DropsInv, DropSound, Movers, Moves
  <2>2. CASE Next
    BY <2>2, DropsStep DEF Next, DragsNext, On
  <2>3. QED
    BY <2>1, <2>2
<1>3. QED
  BY <1>1, <1>2, PTL DEF Spec

\* What is dragged into a panel is moved by the native Drop or by the worker, never by
\* both; a source does not delete what the worker moves; and every way that a drop ends
\* tells a waiting source, and gives undo and redo back (history.cpp dragDropHook).
THEOREM DropsAreDone == Spec => []DropsDone
<1>1. (On("drag") => DropsInv) => DropsDone
  <2> SUFFICES ASSUME On("drag"), DropsInv
               PROVE  Drags!TypeOK /\ Drags!MovedOnce /\ Drags!NoneWaits
    BY DEF DropsDone
  <2>1. active \in 0..Cardinality(Drag)
    <3>1. Movers \subseteq Drag
      BY DEF Movers
    <3>2. /\ Cardinality(Movers) \in Nat /\ Cardinality(Drag) \in Nat
          /\ Cardinality(Movers) <= Cardinality(Drag)
      BY <3>1, DragIsFinite, FS_Subset, FS_CardinalityType
    <3>3. QED
      BY <3>2 DEF DropsInv
  <2>2. Drags!TypeOK
    BY <2>1, DragsCounts DEF Drags!TypeOK, DropsInv, Drop
  <2>3. Drags!MovedOnce
    BY DEF Drags!MovedOnce, Drags!Worker, DropsInv, DropSound
  <2>4. \A d \in Drag : Drags!Over(d) /\ drag[d].async = "started" => Drags!Worker(d, "mute")
    BY DEF Drags!Over, Drags!Hook, Drags!Worker, DropsInv, DropSound, Drop
  <2>5. Movers = {d \in Drag : Drags!Hook(d, "starting") \/ Drags!Worker(d, "begun")}
    BY DEF Movers, Moves, Drags!Hook, Drags!Worker
  <2>6. QED
    BY <2>2, <2>3, <2>4, <2>5, DragsCounts DEF Drags!NoneWaits, DropsInv
<1>2. QED
  BY <1>1, DropsHold, PTL
-----------------------------------------------------------------------------
(***************************************************************************)
(* The inductive invariant of the hooks.                                   *)
(***************************************************************************)
Frame ==
  [fn : Hooks!Makers \cup Hooks!Guards, wraps : BOOLEAN, guarded : BOOLEAN, supported : BOOLEAN]
Guarding(s) == {i \in 1..Len(s) : s[i].guarded}

HooksTyped ==
  /\ enabled \in BOOLEAN /\ stack \in Seq(Frame) /\ Len(stack) <= HookDepth
  /\ bypass \in Nat /\ hooksObject \in {0, 1}

\* The bypass counts the Guards that are held; who wraps holds one, and was entered
\* without; and what has been wrapped was made for the application.
StackSound(s) ==
  /\ bypass = Cardinality(Guarding(s))
  /\ \A i \in 1..Len(s) : s[i].wraps => s[i].guarded
  /\ \A i, j \in 1..Len(s) : i < j /\ s[i].guarded => ~s[j].wraps
  /\ hooksObject # 0 => Guarding(s) = {}
HooksInv == HooksTyped /\ StackSound(stack)

LEMMA GuardingIsFinite ==
  ASSUME NEW s \in Seq(Frame)
  PROVE  IsFiniteSet(Guarding(s)) /\ Cardinality(Guarding(s)) \in Nat
<1>1. IsFiniteSet(1..Len(s))
  BY FS_Interval
<1>2. Guarding(s) \subseteq 1..Len(s)
  BY DEF Guarding
<1>3. QED
  BY <1>1, <1>2, FS_Subset, FS_CardinalityType

LEMMA EnterStep ==
  ASSUME HooksInv, NEW fn \in Hooks!Makers \cup Hooks!Guards, NEW supported \in BOOLEAN,
         Len(stack) < HookDepth, Hooks!Enter(fn, supported)
  PROVE  HooksInv'
<1> DEFINE n == Len(stack) + 1
           wraps == Hooks!Wraps(fn, supported)
           guarded == Hooks!Guarded(fn, wraps)
           top == [fn |-> fn, wraps |-> wraps, guarded |-> guarded, supported |-> supported]
<1>1. wraps \in BOOLEAN /\ guarded \in BOOLEAN /\ (wraps => guarded) /\ (wraps => bypass = 0)
  BY DEF Hooks!Wraps, Hooks!Guarded
<1>2. top \in Frame
  BY <1>1 DEF Frame
<1>3. /\ stack' = Append(stack, top) /\ bypass' = IF guarded THEN bypass + 1 ELSE bypass
      /\ hooksObject' = 0 /\ enabled' = enabled
  BY DEF Hooks!Enter
<1> HIDE DEF wraps, guarded
<1>4. /\ stack' \in Seq(Frame) /\ Len(stack') = n /\ stack'[n].guarded = guarded
      /\ stack'[n].wraps = wraps /\ \A i \in 1..Len(stack) : stack'[i] = stack[i]
  BY <1>2, <1>3 DEF HooksInv, HooksTyped
<1>5. IsFiniteSet(Guarding(stack)) /\ Cardinality(Guarding(stack)) \in Nat
  BY GuardingIsFinite DEF HooksInv, HooksTyped
<1>6. Len(stack) \in Nat /\ 1..n = (1..Len(stack)) \cup {n} /\ n \notin 1..Len(stack)
  BY DEF HooksInv, HooksTyped
<1>7. bypass' = Cardinality(Guarding(stack'))
  <2>1. CASE guarded
    <3>1. Guarding(stack') = Guarding(stack) \cup {n} /\ n \notin Guarding(stack)
      BY <1>4, <1>6, <2>1 DEF Guarding
    <3>2. Cardinality(Guarding(stack) \cup {n}) = Cardinality(Guarding(stack)) + 1
      BY <1>5, <3>1, FS_AddElement
    <3>3. QED
      BY <1>3, <2>1, <3>1, <3>2 DEF HooksInv, StackSound
  <2>2. CASE ~guarded
    <3>1. Guarding(stack') = Guarding(stack)
      BY <1>4, <1>6, <2>2 DEF Guarding
    <3>2. QED
      BY <1>3, <2>2, <3>1 DEF HooksInv, StackSound
  <2>3. QED
    BY <2>1, <2>2
<1>8. \A i \in 1..Len(stack') : stack'[i].wraps => stack'[i].guarded
  BY <1>1, <1>4, <1>6 DEF HooksInv, StackSound
<1>9. wraps => \A i \in 1..Len(stack) : ~stack[i].guarded
  <2>1. wraps => Guarding(stack) = {}
    BY <1>1, <1>5, FS_EmptySet DEF HooksInv, StackSound
  <2>2. QED
    BY <2>1 DEF Guarding
<1>10. \A i, j \in 1..Len(stack') : i < j /\ stack'[i].guarded => ~stack'[j].wraps
  <2>1. SUFFICES ASSUME NEW i \in 1..n, NEW j \in 1..n, i < j, stack'[i].guarded
                 PROVE  ~stack'[j].wraps
    BY <1>4
  <2>2. i \in 1..Len(stack) /\ stack[i].guarded
    BY <1>4, <1>6, <2>1
  <2>3. CASE j = n
    BY <1>4, <1>9, <2>2, <2>3
  <2>4. CASE j \in 1..Len(stack)
    BY <1>4, <2>1, <2>2, <2>4 DEF HooksInv, StackSound
  <2>5. QED
    BY <1>6, <2>3, <2>4
<1>11. HooksTyped'
  <2>1. bypass' \in Nat
    BY <1>3 DEF HooksInv, HooksTyped
  <2>2. Len(stack') <= HookDepth
    BY <1>4, Instances DEF HooksInv, HooksTyped, Hooks!HooksAssumption
  <2>3. QED
    BY <1>3, <1>4, <2>1, <2>2 DEF HooksInv, HooksTyped
<1>12. StackSound(stack)'
  BY <1>3, <1>7, <1>8, <1>10 DEF StackSound, Guarding
<1>13. QED
  BY <1>11, <1>12 DEF HooksInv

LEMMA ReturnStep ==
  ASSUME HooksInv, Hooks!Return
  PROVE  HooksInv'
<1> DEFINE n == Len(stack)
           rest == SubSeq(stack, 1, n - 1)
<1>1. n \in Nat \ {0} /\ stack \in Seq(Frame) /\ Len(stack) <= HookDepth /\ HookDepth \in Nat
  BY Instances, EmptySeq DEF Hooks!Return, HooksInv, HooksTyped, Hooks!HooksAssumption
<1>2. /\ rest \in Seq(Frame) /\ Len(rest) = n - 1 /\ \A i \in 1..(n - 1) : rest[i] = stack[i]
  <2>1. \A i \in 1..(n - 1) : stack[i] \in Frame
    BY <1>1
  <2>2. PICK m \in Int : m = n - 1 /\ m >= 0
    BY <1>1
  <2>3. /\ SubSeq(stack, 1, m) \in Seq(Frame) /\ Len(SubSeq(stack, 1, m)) = m
        /\ \A i \in 1..(m - 1 + 1) : SubSeq(stack, 1, m)[i] = stack[1 + i - 1]
    BY <2>1, <2>2, SubSeqProperties
  <2>4. QED
    BY <2>2, <2>3
<1>3. /\ stack' = rest /\ bypass' = IF stack[n].guarded THEN bypass - 1 ELSE bypass
      /\ hooksObject' = (IF stack[n].wraps THEN hooksObject + 1 ELSE hooksObject) /\ enabled' = enabled
  BY DEF Hooks!Return, Hooks!Top
<1> HIDE DEF rest
<1>4. n \in 1..n /\ 1..n = (1..(n - 1)) \cup {n} /\ n \notin 1..(n - 1)
  BY <1>1
<1>5. IsFiniteSet(Guarding(stack)) /\ Cardinality(Guarding(stack)) \in Nat
  BY <1>1, GuardingIsFinite
<1>6. Guarding(rest) = Guarding(stack) \ {n}
  BY <1>2, <1>4 DEF Guarding
<1>7. bypass' = Cardinality(Guarding(rest))
  <2>1. CASE stack[n].guarded
    <3>1. n \in Guarding(stack)
      BY <1>4, <2>1 DEF Guarding
    <3>2. Cardinality(Guarding(stack) \ {n}) = Cardinality(Guarding(stack)) - 1
      BY <1>5, <3>1, FS_RemoveElement
    <3>3. QED
      BY <1>3, <1>6, <2>1, <3>2 DEF HooksInv, StackSound
  <2>2. CASE ~stack[n].guarded
    <3>1. Guarding(rest) = Guarding(stack)
      BY <1>6, <2>2 DEF Guarding
    <3>2. QED
      BY <1>3, <2>2, <3>1 DEF HooksInv, StackSound
  <2>3. QED
    BY <2>1, <2>2
<1>8. bypass' \in Nat
  BY <1>2, <1>7, GuardingIsFinite
<1>9. \A i \in 1..Len(rest) : rest[i].wraps => rest[i].guarded
  BY <1>2, <1>4 DEF HooksInv, StackSound
<1>10. \A i, j \in 1..Len(rest) : i < j /\ rest[i].guarded => ~rest[j].wraps
  BY <1>2, <1>4 DEF HooksInv, StackSound
<1>11. hooksObject' \in {0, 1} /\ (hooksObject' # 0 => Guarding(rest) = {})
  <2>1. CASE stack[n].wraps
    <3>1. stack[n].guarded /\ \A i \in 1..(n - 1) : ~stack[i].guarded
      BY <1>1, <1>4, <2>1 DEF HooksInv, StackSound
    <3>2. Guarding(rest) = {} /\ n \in Guarding(stack)
      BY <1>2, <1>4, <3>1 DEF Guarding
    <3>3. hooksObject = 0
      BY <3>2 DEF HooksInv, HooksTyped, StackSound
    <3>4. QED
      BY <1>3, <2>1, <3>2, <3>3
  <2>2. CASE ~stack[n].wraps
    BY <1>3, <1>6, <2>2 DEF HooksInv, HooksTyped, StackSound
  <2>3. QED
    BY <2>1, <2>2
<1>12. HooksTyped'
  <2>1. Len(rest) <= HookDepth
    BY <1>1, <1>2
  <2>2. QED
    BY <1>2, <1>3, <1>8, <1>11, <2>1 DEF HooksInv, HooksTyped
<1>13. StackSound(stack)'
  BY <1>3, <1>7, <1>9, <1>10, <1>11 DEF StackSound, Guarding
<1>14. QED
  BY <1>12, <1>13 DEF HooksInv

LEMMA HooksStep ==
  ASSUME HooksInv, Hooks!Next
  PROVE  HooksInv'
<1>1. HookDepth \in Nat \ {0} /\ stack \in Seq(Frame)
  BY Instances DEF HooksInv, HooksTyped, Hooks!HooksAssumption
<1>2. stack = <<>> => Len(stack) < HookDepth
  BY <1>1
<1>3. ASSUME NEW fn \in Hooks!Makers \cup Hooks!Guards, NEW supported \in BOOLEAN,
             Hooks!Call(fn, supported)
      PROVE  HooksInv'
  BY <1>2, <1>3, EnterStep DEF Hooks!Call
<1>4. ASSUME NEW fn \in Hooks!Makers, Hooks!Nested(fn) PROVE HooksInv'
  <2>1. Len(stack) \in Nat /\ stack # <<>> /\ Hooks!Top \in Frame
    BY <1>1, <1>4, EmptySeq DEF Hooks!Nested, Hooks!Top
  <2>2. (Hooks!Top.guarded \/ Hooks!Top.supported) \in BOOLEAN
    OBVIOUS
  <2>3. QED
    BY <1>4, <2>2, EnterStep DEF Hooks!Nested
<1>5. CASE Hooks!Return
  BY <1>5, ReturnStep
<1>6. CASE Hooks!Switch
  BY <1>6 DEF Hooks!Switch, HooksInv, HooksTyped, StackSound, Guarding
<1>7. QED
  BY <1>3, <1>4, <1>5, <1>6 DEF Hooks!Next

LEMMA HooksHold == Spec => [](On("hooks") => HooksInv)
<1>1. Init => (On("hooks") => HooksInv)
  <2> SUFFICES ASSUME Init, On("hooks") PROVE HooksInv
    OBVIOUS
  <2>1. enabled = TRUE /\ bypass = 0 /\ stack = <<>> /\ hooksObject = 0
    BY DEF Init, HooksInit, Hooks!Init
  <2>2. stack \in Seq(Frame) /\ Len(stack) = 0 /\ Guarding(stack) = {}
    BY <2>1 DEF Guarding
  <2>3. QED
    BY <2>1, <2>2, FS_EmptySet, Instances
    DEF HooksInv, HooksTyped, StackSound, Hooks!HooksAssumption
<1>2. (On("hooks") => HooksInv) /\ [Next]_vars => (On("hooks") => HooksInv)'
  <2> SUFFICES ASSUME On("hooks") => HooksInv, [Next]_vars, On("hooks")' PROVE HooksInv'
    OBVIOUS
  <2>1. CASE UNCHANGED vars
    <3>1. UNCHANGED <<moving, enabled, bypass, stack, hooksObject>>
      BY <2>1 DEF vars, HooksVars
    <3>2. QED
      BY <3>1 DEF On, HooksInv, HooksTyped, StackSound, Guarding
  <2>2. CASE Next
    BY <2>2, HooksStep DEF Next, HooksNext, On
  <2>3. QED
    BY <2>1, <2>2
<1>3. QED
  BY <1>1, <1>2, PTL DEF Spec
-----------------------------------------------------------------------------
(***************************************************************************)
(* The inductive invariant of the delivery to a child.                     *)
(***************************************************************************)
Child ==
  [main : {"none", "suspended", "ready", "running"}, loaded : BOOLEAN,
   adapter : {"none", "older", "loaded"}, hooks : BOOLEAN, installs : {0, 1},
   entered : {"no", "hooked", "unhooked"}]
Creation ==
  [pc : {"idle", "identity", "locking", "loader", "attaching", "attached", "recording", "returned"},
   asked : BOOLEAN, early : BOOLEAN, report : {"none", "installed", "fallback"}]
Attempt ==
  [pc : {"idle", "locking", "look", "load", "loading", "init", "initialising", "done"},
   result : {"none", "failed", "attached"}, tries : 0..HostTries]
Blocks == Delivery!Attacher \X {"load", "init"} \X (0..HostTries)
RemoteThread ==
  [by : Delivery!Attacher, use : Blocks, job : {"load", "init"}, pc : {"begun", "inside", "ended"},
   todo : BOOLEAN, ok : BOOLEAN, kept : BOOLEAN]

DeliveryTyped ==
  /\ child \in Child /\ deliveryParent \in Creation /\ attach \in [Delivery!Attacher -> Attempt]
  /\ deliveryLock \in Delivery!Attacher \cup {Delivery!NoOne}
  /\ threads \subseteq RemoteThread /\ deliveryMemory \subseteq Blocks

\* The main thread has the suspension that the step of the hook says, and the parent
\* attaches in that step only.
ParentSound ==
  /\ deliveryParent.pc = "idle" => child.main = "none"
  /\ deliveryParent.pc \in {"identity", "locking", "loader", "attaching", "attached"} =>
       child.main = "suspended"
  /\ deliveryParent.pc \in {"recording", "returned"} =>
       (child.main = "suspended" <=> deliveryParent.asked)
  /\ deliveryParent.pc \in {"idle", "identity", "locking", "loader"} => attach["parent"].pc = "idle"
  /\ attach["parent"].pc \notin {"idle", "done"} => deliveryParent.pc = "attaching"
  /\ deliveryParent.report = "installed" =>
       deliveryParent.pc = "returned" /\ attach["parent"].result = "attached"

ChildSound ==
  /\ child.entered # "no" => child.main = "running"
  /\ attach["parent"].result = "attached" => child.hooks /\ child.entered # "unhooked"
  /\ child.installs = IF child.hooks THEN 1 ELSE 0

\* A thread runs on a block of an attempt, which stays until it has ended; inside, it
\* has seen the hooks as they are.
ThreadSound(t) ==
  /\ \E n \in 0..attach[t.by].tries : t.use = <<t.by, t.job, n>>
  /\ t.pc # "ended" => t.use \in deliveryMemory
  /\ t.pc = "inside" => t.job = "init" /\ (t.todo <=> ~child.hooks)
  /\ t.job = "init" /\ t.pc = "ended" /\ t.ok => child.hooks
Alone == \A t, u \in threads : t.use = u.use \/ (t.pc = "inside" /\ u.pc = "inside") => t = u

\* No thread has the block that the attempt will allocate next.
Unused(a, k) == \A t \in threads : t.use # <<a, k, attach[a].tries>>
Early(a) == attach[a].pc \in {"locking", "look", "load"} \/ (a = "parent" /\ attach[a].pc = "idle")
Stage(a) ==
  /\ Early(a) => Unused(a, "load") /\ Unused(a, "init")
  /\ attach[a].pc \in {"loading", "init"} => Unused(a, "init")

ThreadsSound ==
  (\A t \in threads : ThreadSound(t)) /\ Alone /\ \A a \in Delivery!Attacher : Stage(a)
DeliveryInv == DeliveryTyped /\ ParentSound /\ ChildSound /\ ThreadsSound

-----------------------------------------------------------------------------
\* A step of an attempt that leaves what is unused unused.
Onward(a) ==
  /\ attach'[a].tries = attach[a].tries
  /\ \/ attach'[a].pc = attach[a].pc \/ attach'[a].pc \in {"initialising", "done"}
     \/ a = "host" /\ attach'[a].pc = "idle"
     \/ Early(a)
     \/ attach[a].pc = "loading" /\ attach'[a].pc = "init"

LEMMA StageKept ==
  ASSUME ThreadsSound, NEW a \in Delivery!Attacher, Onward(a),
         \A t \in threads' : \E u \in threads : t.use = u.use
  PROVE  Stage(a)'
<1>1. \A k : Unused(a, k) => Unused(a, k)'
  BY DEF Unused, Onward
<1>2. QED
  BY <1>1 DEF Stage, ThreadsSound, Onward, Early

LEMMA QuietThreads ==
  ASSUME DeliveryInv, UNCHANGED <<threads, deliveryMemory>>, child'.hooks = child.hooks,
         \A a \in Delivery!Attacher : Onward(a)
  PROVE  ThreadsSound'
<1>1. \A t \in threads : t.by \in Delivery!Attacher /\ ThreadSound(t)
  BY DEF DeliveryInv, DeliveryTyped, ThreadsSound, RemoteThread
<1>2. \A t \in threads' : ThreadSound(t)'
  BY <1>1 DEF ThreadSound, Onward
<1>3. Alone'
  BY DEF DeliveryInv, ThreadsSound, Alone
<1>4. \A a \in Delivery!Attacher : Stage(a)'
  BY StageKept DEF DeliveryInv
<1>5. QED
  BY <1>2, <1>3, <1>4 DEF ThreadsSound

\* One thread becomes another one of the same attempt, or is gone.
LEMMA ThreadMoves ==
  ASSUME DeliveryInv, NEW t \in threads, NEW S,
         threads' = (threads \ {t}) \cup S,
         \A u, v \in S : u = v,
         \A u \in S : u.use = t.use /\ ThreadSound(u)',
         \A u \in S : u.pc = "inside" => \A v \in threads \ {t} : v.pc # "inside",
         \A u \in threads \ {t} : ThreadSound(u)',
         \A a \in Delivery!Attacher : Onward(a)
  PROVE  ThreadsSound'
<1>1. \A u \in threads' : ThreadSound(u)'
  OBVIOUS
<1>2. Alone'
  <2>1. SUFFICES ASSUME NEW u \in threads', NEW v \in threads',
                        u.use = v.use \/ (u.pc = "inside" /\ v.pc = "inside")
                 PROVE  u = v
    BY DEF Alone
  <2>2. \A w \in threads \ {t} : w.use # t.use
    BY DEF DeliveryInv, ThreadsSound, Alone
  <2>3. CASE u \in threads \ {t} /\ v \in threads \ {t}
    BY <2>1, <2>3 DEF DeliveryInv, ThreadsSound, Alone
  <2>4. CASE u \in S /\ v \in S
    BY <2>4
  <2>5. CASE u \in S /\ v \in threads \ {t}
    BY <2>1, <2>2, <2>5
  <2>6. CASE u \in threads \ {t} /\ v \in S
    BY <2>1, <2>2, <2>6
  <2>7. QED
    BY <2>3, <2>4, <2>5, <2>6
<1>3. \A u \in threads' : \E v \in threads : u.use = v.use
  OBVIOUS
<1>4. \A a \in Delivery!Attacher : Stage(a)'
  BY <1>3, StageKept DEF DeliveryInv
<1>5. QED
  BY <1>1, <1>2, <1>4 DEF ThreadsSound

-----------------------------------------------------------------------------
\* An attempt goes to a step, with a result.
Turns(a, pc, result) ==
  /\ attach' \in [Delivery!Attacher -> Attempt]
  /\ attach'[a].pc = pc /\ attach'[a].result = result /\ attach'[a].tries = attach[a].tries
  /\ \A b \in Delivery!Attacher \ {a} : attach'[b] = attach[b]

LEMMA TurnsIs ==
  ASSUME DeliveryTyped, NEW a \in Delivery!Attacher,
         NEW pc \in {"idle", "locking", "look", "load", "loading", "init", "initialising", "done"}
  PROVE  /\ Delivery!AttachTo(a, pc) => Turns(a, pc, attach[a].result)
         /\ Delivery!Failed(a) => Turns(a, "done", "failed")
         /\ attach' = [attach EXCEPT ![a].pc = "done", ![a].result = "attached"] =>
              Turns(a, "done", "attached")
<1>1. PICK o \in Attempt : o = attach[a]
  BY DEF DeliveryTyped
<1>2. ASSUME NEW n \in Attempt, attach' = [attach EXCEPT ![a] = n], n.tries = o.tries
      PROVE  Turns(a, n.pc, n.result)
  BY <1>1, <1>2 DEF Turns, DeliveryTyped
<1>3. ASSUME Delivery!AttachTo(a, pc) PROVE Turns(a, pc, attach[a].result)
  <2> DEFINE n == [o EXCEPT !.pc = pc]
  <2>1. n \in Attempt /\ n.tries = o.tries /\ n.pc = pc /\ n.result = o.result
    BY DEF Attempt
  <2>2. attach' = [attach EXCEPT ![a] = n]
    BY <1>1, <1>3 DEF Delivery!AttachTo
  <2> HIDE DEF n
  <2>3. Turns(a, n.pc, n.result)
    BY <1>2, <2>1, <2>2
  <2>4. QED
    BY <1>1, <2>1, <2>3
<1>4. ASSUME NEW result \in {"failed", "attached"},
             attach' = [attach EXCEPT ![a].pc = "done", ![a].result = result]
      PROVE  Turns(a, "done", result)
  <2> DEFINE n == [o EXCEPT !.pc = "done", !.result = result]
  <2>1. n \in Attempt /\ n.tries = o.tries /\ n.pc = "done" /\ n.result = result
    BY DEF Attempt
  <2>2. attach' = [attach EXCEPT ![a] = n]
    BY <1>1, <1>4
  <2> HIDE DEF n
  <2>3. Turns(a, n.pc, n.result)
    BY <1>2, <2>1, <2>2
  <2>4. QED
    BY <2>1, <2>3
<1>5. Delivery!Failed(a) => Turns(a, "done", "failed")
  BY <1>4 DEF Delivery!Failed
<1>6. QED
  BY <1>3, <1>4, <1>5

LEMMA TurnsOnward ==
  ASSUME NEW a \in Delivery!Attacher, NEW pc, NEW result, Turns(a, pc, result),
         \/ pc \in {"initialising", "done"} \/ (a = "host" /\ pc = "idle") \/ Early(a)
         \/ attach[a].pc = "loading" /\ pc = "init"
  PROVE  \A b \in Delivery!Attacher : Onward(b)
<1>1. Onward(a)
  BY DEF Onward, Turns
<1>2. \A b \in Delivery!Attacher \ {a} : Onward(b)
  BY DEF Onward, Turns
<1>3. QED
  BY <1>1, <1>2

LEMMA FreedIs ==
  ASSUME DeliveryTyped, NEW a \in Delivery!Attacher, Delivery!Freed(a)
  PROVE  deliveryLock' \in Delivery!Attacher \cup {Delivery!NoOne}
BY DEF DeliveryTyped, Delivery!Freed

\* An attempt is the parent's only while that attaches, before its child runs.
LEMMA AttemptKeeps ==
  ASSUME DeliveryInv, NEW a \in Delivery!Attacher, NEW pc, NEW result, Turns(a, pc, result),
         attach[a].pc \notin {"idle", "done"}, UNCHANGED <<child, deliveryParent>>,
         \/ result \in {attach[a].result, "failed"} \/ child.hooks
  PROVE  ParentSound' /\ ChildSound'
<1>1. CASE a = "parent"
  <2>1. deliveryParent.pc = "attaching" /\ deliveryParent.report # "installed"
    BY <1>1 DEF DeliveryInv, ParentSound
  <2>2. child.main = "suspended" /\ child.entered = "no"
    BY <2>1 DEF DeliveryInv, DeliveryTyped, ParentSound, ChildSound
  <2>3. ParentSound'
    BY <2>1, <2>2 DEF ParentSound
  <2>4. ChildSound'
    BY <1>1, <2>2 DEF ChildSound, DeliveryInv, Turns
  <2>5. QED
    BY <2>3, <2>4
<1>2. CASE a # "parent"
  <2>1. attach'["parent"] = attach["parent"]
    BY <1>2 DEF Turns, Delivery!Attacher
  <2>2. QED
    BY <2>1 DEF DeliveryInv, ParentSound, ChildSound
<1>3. QED
  BY <1>1, <1>2

-----------------------------------------------------------------------------
LEMMA HostStep ==
  ASSUME DeliveryInv, Delivery!HostBegins \/ Delivery!HostLocks \/ Delivery!HostEnds
  PROVE  DeliveryInv'
<1> USE DEF Delivery!AttachAt, Delivery!Attacher
<1>1. CASE Delivery!HostBegins
  <2> DEFINE o == attach["host"]
             n == [pc |-> "locking", result |-> "none", tries |-> o.tries + 1]
  <2>1. /\ o \in Attempt /\ o.pc = "idle" /\ o.tries < HostTries
        /\ attach' = [attach EXCEPT !["host"] = n]
        /\ UNCHANGED <<child, deliveryParent, deliveryLock, threads, deliveryMemory>>
    BY <1>1 DEF Delivery!HostBegins, DeliveryInv, DeliveryTyped
  <2>2. n \in Attempt
    BY <2>1, Instances DEF Attempt, Delivery!DeliveryAssumption
  <2>3. /\ attach' \in [Delivery!Attacher -> Attempt] /\ attach'["parent"] = attach["parent"]
        /\ attach'["host"].pc = "locking" /\ attach'["host"].tries = attach["host"].tries + 1
    BY <2>1, <2>2 DEF DeliveryInv, DeliveryTyped
  <2>4. /\ attach["host"].tries \in 0..HostTries /\ attach["host"].tries + 1 \in 0..HostTries
        /\ HostTries \in Nat
    BY <2>1, <2>2, Instances DEF Attempt, Delivery!DeliveryAssumption
  <2> HIDE DEF o, n
  <2>5. DeliveryTyped'
    BY <2>1, <2>3 DEF DeliveryInv, DeliveryTyped
  <2>6. ParentSound' /\ ChildSound'
    BY <2>1, <2>3 DEF DeliveryInv, ParentSound, ChildSound
  <2>7. ASSUME NEW t \in threads PROVE ThreadSound(t)'
    <3>1. t.by \in {"parent", "host"} /\ ThreadSound(t)
      BY DEF DeliveryInv, DeliveryTyped, RemoteThread, ThreadsSound
    <3>2. PICK m \in 0..attach[t.by].tries : t.use = <<t.by, t.job, m>>
      BY <3>1 DEF ThreadSound
    <3>3. m \in 0..attach'[t.by].tries
      BY <2>3, <2>4, <3>1, <3>2
    <3>4. QED
      BY <2>1, <3>1, <3>2, <3>3 DEF ThreadSound
  <2>8. \A k : Unused("host", k)'
    <3>1. SUFFICES ASSUME NEW k, NEW t \in threads, t.use = <<"host", k, attach["host"].tries + 1>>
                   PROVE  FALSE
      BY <2>1, <2>3 DEF Unused
    <3>2. t.by \in {"parent", "host"} /\ ThreadSound(t)
      BY DEF DeliveryInv, DeliveryTyped, RemoteThread, ThreadsSound
    <3>3. PICK m \in 0..attach[t.by].tries : t.use = <<t.by, t.job, m>>
      BY <3>2 DEF ThreadSound
    <3>4. t.by = "host" /\ m = attach["host"].tries + 1
      BY <3>1, <3>3
    <3>5. QED
      BY <2>4, <3>3, <3>4
  <2>9. Stage("host")' /\ Stage("parent")'
    <3>1. Stage("host")'
      BY <2>8 DEF Stage
    <3>2. Onward("parent")
      BY <2>3 DEF Onward
    <3>3. Stage("parent")'
      BY <2>1, <3>2, StageKept DEF DeliveryInv
    <3>4. QED
      BY <3>1, <3>3
  <2>10. Alone'
    BY <2>1 DEF DeliveryInv, ThreadsSound, Alone
  <2>11. ThreadsSound'
    BY <2>1, <2>7, <2>9, <2>10 DEF ThreadsSound
  <2>12. QED
    BY <2>5, <2>6, <2>11 DEF DeliveryInv
<1>2. CASE Delivery!HostLocks
  <2>1. PICK pc \in {"look", "done"}, result \in {attach["host"].result, "failed"} :
          Turns("host", pc, result)
    BY <1>2, TurnsIs DEF Delivery!HostLocks, DeliveryInv
  <2>2. /\ attach["host"].pc = "locking" /\ UNCHANGED <<child, deliveryParent, threads, deliveryMemory>>
        /\ deliveryLock' \in Delivery!Attacher \cup {Delivery!NoOne}
    BY <1>2 DEF Delivery!HostLocks, DeliveryInv, DeliveryTyped
  <2>3. ParentSound' /\ ChildSound'
    BY <2>1, <2>2, AttemptKeeps
  <2>4. ThreadsSound'
    <3>1. Early("host")
      BY <2>2 DEF Early
    <3>2. \A b \in Delivery!Attacher : Onward(b)
      BY <2>1, <3>1, TurnsOnward
    <3>3. QED
      BY <2>2, <3>2, QuietThreads
  <2>5. DeliveryTyped'
    BY <2>1, <2>2 DEF DeliveryInv, DeliveryTyped, Turns
  <2>6. QED
    BY <2>3, <2>4, <2>5 DEF DeliveryInv
<1>3. CASE Delivery!HostEnds
  <2>1. /\ Turns("host", "idle", attach["host"].result)
        /\ UNCHANGED <<child, deliveryParent, deliveryLock, threads, deliveryMemory>>
    BY <1>3, TurnsIs DEF Delivery!HostEnds, DeliveryInv
  <2>2. ParentSound' /\ ChildSound'
    BY <2>1 DEF DeliveryInv, ParentSound, ChildSound, Turns
  <2>3. ThreadsSound'
    BY <2>1, TurnsOnward, QuietThreads
  <2>4. DeliveryTyped'
    BY <2>1 DEF DeliveryInv, DeliveryTyped, Turns
  <2>5. QED
    BY <2>2, <2>3, <2>4 DEF DeliveryInv
<1>4. QED
  BY <1>1, <1>2, <1>3

LEMMA LookStep ==
  ASSUME DeliveryInv, NEW a \in Delivery!Attacher, Delivery!Look(a)
  PROVE  DeliveryInv'
<1>1. attach[a].pc = "look" /\ UNCHANGED <<child, deliveryParent, threads, deliveryMemory>>
  BY DEF Delivery!Look, Delivery!AttachAt
<1>2. PICK pc \in {"init", "load", "done"}, result \in {attach[a].result, "failed"} :
        Turns(a, pc, result)
  <2>1. CASE Delivery!AttachTo(a, "init")
    BY <2>1, TurnsIs DEF DeliveryInv
  <2>2. CASE Delivery!AttachTo(a, "load")
    BY <2>2, TurnsIs DEF DeliveryInv
  <2>3. CASE Delivery!Failed(a)
    BY <2>3, TurnsIs DEF DeliveryInv
  <2>4. QED
    BY <2>1, <2>2, <2>3 DEF Delivery!Look
<1>3. deliveryLock' \in Delivery!Attacher \cup {Delivery!NoOne}
  BY FreedIs DEF Delivery!Look, DeliveryInv, DeliveryTyped
<1>4. ParentSound' /\ ChildSound'
  BY <1>1, <1>2, AttemptKeeps
<1>5. ThreadsSound'
  <2>1. Early(a)
    BY <1>1 DEF Early
  <2>2. \A b \in Delivery!Attacher : Onward(b)
    BY <1>2, <2>1, TurnsOnward
  <2>3. QED
    BY <1>1, <2>2, QuietThreads
<1>6. DeliveryTyped'
  BY <1>1, <1>2, <1>3 DEF DeliveryInv, DeliveryTyped, Turns
<1>7. QED
  BY <1>4, <1>5, <1>6 DEF DeliveryInv

-----------------------------------------------------------------------------
LEMMA ParentToIs ==
  ASSUME DeliveryTyped, NEW pc \in {"locking", "loader", "attaching", "attached", "recording"},
         Delivery!ParentTo(pc)
  PROVE  /\ deliveryParent' \in Creation /\ deliveryParent'.pc = pc
         /\ deliveryParent'.asked = deliveryParent.asked
         /\ deliveryParent'.report = deliveryParent.report
BY DEF DeliveryTyped, Creation, Delivery!ParentTo

\* The steps of the hook turn the parent's attempt when it begins, or fails before.
LEMMA HookTurns ==
  ASSUME DeliveryInv, NEW pc \in {"look", "done"}, NEW result, Turns("parent", pc, result),
         attach["parent"].pc = "idle", UNCHANGED <<threads, deliveryMemory>>,
         child'.hooks = child.hooks
  PROVE  ThreadsSound'
<1>1. "parent" \in Delivery!Attacher /\ Early("parent")
  BY DEF Early, Delivery!Attacher
<1>2. \A b \in Delivery!Attacher : Onward(b)
  BY <1>1, TurnsOnward
<1>3. QED
  BY <1>2, QuietThreads

LEMMA CreateStep ==
  ASSUME DeliveryInv, NEW asked \in BOOLEAN, NEW early \in BOOLEAN, Delivery!Create(asked, early)
  PROVE  DeliveryInv'
<1>1. /\ deliveryParent.pc = "idle" /\ deliveryParent \in Creation /\ child \in Child
      /\ UNCHANGED <<attach, deliveryLock, threads, deliveryMemory>>
  BY DEF Delivery!Create, DeliveryInv, DeliveryTyped
<1>2. /\ child' \in Child /\ child'.main = (IF asked \/ early THEN "suspended" ELSE "ready")
      /\ child'.hooks = child.hooks /\ child'.installs = child.installs
      /\ child'.entered = child.entered
  BY <1>1 DEF Delivery!Create, Child
<1>3. /\ deliveryParent' \in Creation /\ deliveryParent'.report = deliveryParent.report
      /\ deliveryParent'.pc = (IF early THEN "identity" ELSE "returned")
      /\ deliveryParent'.asked = asked
  BY <1>1 DEF Delivery!Create, Creation
<1>4. attach["parent"].pc = "idle" /\ deliveryParent.report # "installed" /\ child.entered = "no"
  BY <1>1 DEF DeliveryInv, ParentSound, ChildSound, Child
<1>5. ParentSound'
  BY <1>1, <1>2, <1>3, <1>4 DEF ParentSound
<1>6. ChildSound'
  BY <1>1, <1>2, <1>4 DEF DeliveryInv, ChildSound
<1>7. ThreadsSound'
  BY <1>1, <1>2, QuietThreads DEF Onward
<1>8. QED
  BY <1>1, <1>2, <1>3, <1>5, <1>6, <1>7 DEF DeliveryInv, DeliveryTyped

LEMMA IdentifiedStep ==
  ASSUME DeliveryInv, NEW ok \in BOOLEAN, Delivery!Identified(ok)
  PROVE  DeliveryInv'
<1>1. /\ deliveryParent.pc = "identity" /\ UNCHANGED <<child, deliveryLock, threads, deliveryMemory>>
      /\ child.main = "suspended" /\ attach["parent"].pc = "idle"
      /\ deliveryParent.report # "installed"
  BY DEF Delivery!Identified, Delivery!ParentAt, DeliveryInv, ParentSound
<1>2. /\ deliveryParent' \in Creation /\ deliveryParent'.pc = (IF ok THEN "locking" ELSE "attached")
      /\ deliveryParent'.asked = deliveryParent.asked
      /\ deliveryParent'.report = deliveryParent.report
  BY ParentToIs DEF Delivery!Identified, DeliveryInv
<1>3. /\ attach' \in [Delivery!Attacher -> Attempt] /\ attach'["parent"].pc = "idle"
      /\ attach'["parent"].result \in {attach["parent"].result, "failed"}
      /\ \A a \in Delivery!Attacher : Onward(a)
  <2>1. CASE attach' = attach
    BY <1>1, <2>1 DEF DeliveryInv, DeliveryTyped, Onward
  <2>2. CASE attach' = [attach EXCEPT !["parent"].result = "failed"]
    <3>1. PICK o \in Attempt : o = attach["parent"]
      BY DEF DeliveryInv, DeliveryTyped, Delivery!Attacher
    <3> DEFINE n == [o EXCEPT !.result = "failed"]
    <3>2. n \in Attempt /\ n.pc = o.pc /\ n.tries = o.tries /\ n.result = "failed"
      BY DEF Attempt
    <3>3. attach' = [attach EXCEPT !["parent"] = n]
      BY <2>2, <3>1
    <3> HIDE DEF n
    <3>4. QED
      BY <1>1, <3>1, <3>2, <3>3 DEF DeliveryInv, DeliveryTyped, Onward, Delivery!Attacher
  <2>3. QED
    BY <2>1, <2>2 DEF Delivery!Identified
<1>4. ParentSound'
  BY <1>1, <1>2, <1>3 DEF ParentSound
<1>5. ChildSound'
  BY <1>1, <1>3 DEF DeliveryInv, ChildSound
<1>6. ThreadsSound'
  BY <1>1, <1>3, QuietThreads
<1>7. QED
  BY <1>1, <1>2, <1>3, <1>4, <1>5, <1>6 DEF DeliveryInv, DeliveryTyped

LEMMA ParentLocksStep ==
  ASSUME DeliveryInv, Delivery!ParentLocks
  PROVE  DeliveryInv'
<1>1. /\ deliveryParent.pc = "locking" /\ UNCHANGED <<child, threads, deliveryMemory>>
      /\ child.main = "suspended" /\ attach["parent"].pc = "idle"
      /\ deliveryParent.report # "installed"
  BY DEF Delivery!ParentLocks, Delivery!ParentAt, DeliveryInv, ParentSound
<1>2. /\ deliveryParent' \in Creation /\ deliveryParent'.pc \in {"loader", "attached"}
      /\ deliveryParent'.asked = deliveryParent.asked
      /\ deliveryParent'.report = deliveryParent.report
      /\ deliveryLock' \in Delivery!Attacher \cup {Delivery!NoOne}
      /\ \/ attach' = attach
         \/ deliveryParent'.pc = "attached" /\ Turns("parent", "done", "failed")
  BY ParentToIs, TurnsIs
  DEF Delivery!ParentLocks, DeliveryInv, DeliveryTyped, Delivery!Attacher
<1>3. CASE attach' = attach
  <2>1. ParentSound'
    BY <1>1, <1>2, <1>3 DEF ParentSound
  <2>2. ChildSound'
    BY <1>1, <1>3 DEF DeliveryInv, ChildSound
  <2>3. ThreadsSound'
    BY <1>1, <1>3, QuietThreads DEF Onward
  <2>4. QED
    BY <1>1, <1>2, <1>3, <2>1, <2>2, <2>3 DEF DeliveryInv, DeliveryTyped
<1>4. CASE deliveryParent'.pc = "attached" /\ Turns("parent", "done", "failed")
  <2>1. ParentSound'
    BY <1>1, <1>2, <1>4 DEF ParentSound, Turns
  <2>2. ChildSound'
    BY <1>1, <1>4 DEF DeliveryInv, ChildSound, Turns
  <2>3. ThreadsSound'
    BY <1>1, <1>4, HookTurns
  <2>4. QED
    BY <1>1, <1>2, <1>4, <2>1, <2>2, <2>3 DEF DeliveryInv, DeliveryTyped, Turns
<1>5. QED
  BY <1>2, <1>3, <1>4

LEMMA PreparedStep ==
  ASSUME DeliveryInv, NEW ok \in BOOLEAN, Delivery!Prepared(ok)
  PROVE  DeliveryInv'
<1>1. /\ deliveryParent.pc = "loader" /\ UNCHANGED <<threads, deliveryMemory>>
      /\ child.main = "suspended" /\ attach["parent"].pc = "idle"
      /\ deliveryParent.report # "installed" /\ child \in Child
  BY DEF Delivery!Prepared, Delivery!ParentAt, DeliveryInv, DeliveryTyped, ParentSound
<1>2. /\ deliveryParent' \in Creation
      /\ deliveryParent'.pc = (IF ok THEN "attaching" ELSE "attached")
      /\ deliveryParent'.asked = deliveryParent.asked
      /\ deliveryParent'.report = deliveryParent.report
  BY ParentToIs DEF Delivery!Prepared, DeliveryInv
<1>3. /\ child' \in Child /\ child'.main = child.main /\ child'.hooks = child.hooks
      /\ child'.installs = child.installs /\ child'.entered = child.entered
  BY <1>1 DEF Delivery!Prepared, Child
<1>4. deliveryLock' \in Delivery!Attacher \cup {Delivery!NoOne}
  BY FreedIs DEF Delivery!Prepared, DeliveryInv, DeliveryTyped, Delivery!Attacher
<1>5. PICK pc \in {"look", "done"}, result \in {attach["parent"].result, "failed"} :
        /\ Turns("parent", pc, result)
        /\ deliveryParent'.pc = "attaching" \/ pc = "done"
  BY <1>2, TurnsIs DEF Delivery!Prepared, DeliveryInv, Delivery!Attacher
<1>6. ParentSound'
  BY <1>1, <1>2, <1>3, <1>5 DEF ParentSound, Turns
<1>7. ChildSound'
  BY <1>3, <1>5 DEF DeliveryInv, ChildSound, Turns
<1>8. ThreadsSound'
  BY <1>1, <1>3, <1>5, HookTurns
<1>9. QED
  BY <1>1, <1>2, <1>3, <1>4, <1>5, <1>6, <1>7, <1>8 DEF DeliveryInv, DeliveryTyped, Turns

LEMMA EndOfHookStep ==
  ASSUME DeliveryInv, Delivery!Attached \/ Delivery!Resume \/ Delivery!Record
  PROVE  DeliveryInv'
<1>1. UNCHANGED <<attach, deliveryLock, threads, deliveryMemory>>
  BY DEF Delivery!Attached, Delivery!Resume, Delivery!Record
<1>2. CASE Delivery!Attached
  <2>1. /\ deliveryParent.pc = "attaching" /\ attach["parent"].pc = "done" /\ child' = child
        /\ deliveryParent' \in Creation /\ deliveryParent'.pc = "attached"
        /\ deliveryParent'.asked = deliveryParent.asked
        /\ deliveryParent'.report = deliveryParent.report
    BY <1>2, ParentToIs
    DEF Delivery!Attached, Delivery!ParentAt, Delivery!AttachAt, DeliveryInv
  <2>2. ParentSound' /\ ChildSound'
    BY <1>1, <2>1 DEF DeliveryInv, ParentSound, ChildSound
  <2>3. ThreadsSound'
    BY <1>1, <2>1, QuietThreads DEF Onward
  <2>4. QED
    BY <1>1, <2>1, <2>2, <2>3 DEF DeliveryInv, DeliveryTyped
<1>3. CASE Delivery!Resume
  <2>1. /\ deliveryParent.pc = "attached" /\ child.main = "suspended" /\ child \in Child
        /\ deliveryParent' \in Creation /\ deliveryParent'.pc = "recording"
        /\ deliveryParent'.asked = deliveryParent.asked
        /\ deliveryParent'.report = deliveryParent.report
    BY <1>3, ParentToIs
    DEF Delivery!Resume, Delivery!ParentAt, DeliveryInv, DeliveryTyped, ParentSound
  <2>2. /\ child' \in Child /\ child'.hooks = child.hooks /\ child'.installs = child.installs
        /\ child'.entered = child.entered
        /\ child'.main = (IF deliveryParent.asked THEN "suspended" ELSE "ready")
    BY <1>3, <2>1 DEF Delivery!Resume, Delivery!Needed, Child
  <2>3. ParentSound'
    BY <1>1, <2>1, <2>2 DEF DeliveryInv, ParentSound
  <2>4. ChildSound'
    BY <1>1, <2>1, <2>2 DEF DeliveryInv, ChildSound
  <2>5. ThreadsSound'
    BY <1>1, <2>2, QuietThreads DEF Onward
  <2>6. QED
    BY <1>1, <2>1, <2>2, <2>3, <2>4, <2>5 DEF DeliveryInv, DeliveryTyped
<1>4. CASE Delivery!Record
  <2>1. /\ deliveryParent.pc = "recording" /\ deliveryParent \in Creation /\ child' = child
    BY <1>4 DEF Delivery!Record, Delivery!ParentAt, DeliveryInv, DeliveryTyped
  <2>2. /\ deliveryParent' \in Creation /\ deliveryParent'.pc = "returned"
        /\ deliveryParent'.asked = deliveryParent.asked
        /\ deliveryParent'.report = "installed" => attach["parent"].result = "attached"
    BY <1>4, <2>1 DEF Delivery!Record, Creation
  <2>3. ParentSound' /\ ChildSound'
    BY <1>1, <2>1, <2>2 DEF DeliveryInv, ParentSound, ChildSound
  <2>4. ThreadsSound'
    BY <1>1, <2>1, QuietThreads DEF Onward
  <2>5. QED
    BY <1>1, <2>1, <2>2, <2>3, <2>4 DEF DeliveryInv, DeliveryTyped
<1>5. QED
  BY <1>2, <1>3, <1>4

LEMMA MainStep ==
  ASSUME DeliveryInv, Delivery!Runs \/ Delivery!CallerResumes
  PROVE  DeliveryInv'
<1>1. UNCHANGED <<attach, deliveryLock, threads, deliveryMemory>> /\ child \in Child
  BY DEF Delivery!Runs, Delivery!CallerResumes, DeliveryInv, DeliveryTyped
<1>2. CASE Delivery!Runs
  <2>1. /\ child.main = "ready" /\ deliveryParent' = deliveryParent
        /\ child' \in Child /\ child'.main = "running" /\ child'.hooks = child.hooks
        /\ child'.installs = child.installs
        /\ child'.entered = (IF child.hooks THEN "hooked" ELSE "unhooked")
    BY <1>1, <1>2 DEF Delivery!Runs, Child
  <2>2. ParentSound'
    BY <1>1, <2>1 DEF DeliveryInv, ParentSound
  <2>3. ChildSound'
    BY <1>1, <2>1 DEF DeliveryInv, ChildSound
  <2>4. ThreadsSound'
    BY <1>1, <2>1, QuietThreads DEF Onward
  <2>5. QED
    BY <1>1, <2>1, <2>2, <2>3, <2>4 DEF DeliveryInv, DeliveryTyped
<1>3. CASE Delivery!CallerResumes
  <2>1. /\ child.main = "suspended" /\ deliveryParent.pc = "returned" /\ deliveryParent \in Creation
        /\ child' \in Child /\ child'.main = "ready" /\ child'.hooks = child.hooks
        /\ child'.installs = child.installs /\ child'.entered = child.entered
    BY <1>1, <1>3 DEF Delivery!CallerResumes, Delivery!ParentAt, Child, DeliveryInv, DeliveryTyped
  <2>2. /\ deliveryParent' \in Creation /\ deliveryParent'.pc = "returned"
        /\ deliveryParent'.asked = FALSE /\ deliveryParent'.report = deliveryParent.report
    BY <1>3, <2>1 DEF Delivery!CallerResumes, Creation
  <2>3. ParentSound'
    BY <1>1, <2>1, <2>2 DEF DeliveryInv, ParentSound
  <2>4. ChildSound'
    BY <1>1, <2>1 DEF DeliveryInv, ChildSound
  <2>5. ThreadsSound'
    BY <1>1, <2>1, QuietThreads DEF Onward
  <2>6. QED
    BY <1>1, <2>1, <2>2, <2>3, <2>4, <2>5 DEF DeliveryInv, DeliveryTyped
<1>4. QED
  BY <1>2, <1>3

-----------------------------------------------------------------------------
LEMMA InvokeStep ==
  ASSUME DeliveryInv, NEW a \in Delivery!Attacher, NEW k \in {"load", "init"}, Delivery!Invoke(a, k)
  PROVE  DeliveryInv'
<1> DEFINE m == attach[a].tries
           b == <<a, k, m>>
           pc == IF k = "load" THEN "loading" ELSE "initialising"
<1>n. PICK n : n = [by |-> a, use |-> b, job |-> k, pc |-> "begun", todo |-> FALSE, ok |-> TRUE,
                    kept |-> TRUE]
  OBVIOUS
<1>1. /\ attach[a].pc = k /\ UNCHANGED <<child, deliveryParent, deliveryLock>>
      /\ deliveryMemory' = deliveryMemory \cup {b} /\ threads' = threads \cup {n}
      /\ Turns(a, pc, attach[a].result)
  <2>1. Delivery!AttachTo(a, pc)
    BY DEF Delivery!Invoke
  <2>2. Turns(a, pc, attach[a].result)
    BY <2>1, TurnsIs DEF DeliveryInv
  <2>3. QED
    BY <1>n, <2>2 DEF Delivery!Invoke, Delivery!AttachAt, Delivery!Block
<1>2. m \in 0..HostTries /\ attach'[a].tries = m /\ m \in 0..m /\ m \in Nat
  BY <1>1, Instances DEF DeliveryInv, DeliveryTyped, Attempt, Turns, Delivery!DeliveryAssumption
<1>3. b \in Blocks
  BY <1>2 DEF Blocks
<1>4. n \in RemoteThread
  BY <1>n, <1>3 DEF RemoteThread
<1>5. Unused(a, k) /\ (k = "load" => Unused(a, "init"))
  BY <1>1 DEF DeliveryInv, ThreadsSound, Stage, Early
<1>6. n.by = a /\ n.use = b /\ n.job = k /\ n.pc = "begun"
  BY <1>n
<1>7. DeliveryTyped'
  BY <1>1, <1>3, <1>4 DEF DeliveryInv, DeliveryTyped, Turns
<1>8. ParentSound' /\ ChildSound'
  BY <1>1, AttemptKeeps
<1>9. \A t \in threads' : ThreadSound(t)'
  <2>1. ASSUME NEW t \in threads PROVE ThreadSound(t)'
    <3>1. t.by \in Delivery!Attacher /\ ThreadSound(t)
      BY DEF DeliveryInv, DeliveryTyped, RemoteThread, ThreadsSound
    <3>2. attach'[t.by].tries = attach[t.by].tries
      BY <1>1, <3>1 DEF Turns
    <3>3. QED
      BY <1>1, <3>1, <3>2 DEF ThreadSound
  <2>2. ThreadSound(n)'
    <3>1. \E i \in 0..attach'[n.by].tries : n.use = <<n.by, n.job, i>>
      BY <1>2, <1>6
    <3>2. QED
      BY <1>1, <1>6, <3>1 DEF ThreadSound
  <2>3. QED
    BY <1>1, <2>1, <2>2
<1>10. Alone'
  <2>1. \A t \in threads : t.use # n.use
    BY <1>5, <1>6 DEF Unused
  <2>2. QED
    BY <1>1, <1>6, <2>1 DEF DeliveryInv, ThreadsSound, Alone
<1>11. ASSUME NEW c \in Delivery!Attacher PROVE Stage(c)'
  <2>1. ASSUME c # a PROVE Stage(c)'
    <3>1. attach'[c] = attach[c]
      BY <1>1, <2>1 DEF Turns
    <3>2. \A j : n.use # <<c, j, attach[c].tries>>
      BY <1>6, <2>1
    <3>3. \A j : Unused(c, j) => Unused(c, j)'
      BY <1>1, <3>1, <3>2 DEF Unused
    <3>4. QED
      BY <3>1, <3>3 DEF DeliveryInv, ThreadsSound, Stage, Early
  <2>2. ASSUME c = a, k = "load" PROVE Stage(c)'
    <3>1. n.use # <<a, "init", m>>
      BY <1>6, <2>2
    <3>2. Unused(a, "init")'
      BY <1>1, <1>2, <1>5, <2>2, <3>1 DEF Unused
    <3>3. QED
      BY <1>1, <2>2, <3>2 DEF Stage, Early, Turns
  <2>3. ASSUME c = a, k = "init" PROVE Stage(c)'
    BY <1>1, <2>3 DEF Stage, Early, Turns
  <2>4. QED
    BY <2>1, <2>2, <2>3
<1>12. ThreadsSound'
  BY <1>9, <1>10, <1>11 DEF ThreadsSound
<1>13. QED
  BY <1>7, <1>8, <1>12 DEF DeliveryInv

LEMMA WaitedStep ==
  ASSUME DeliveryInv, NEW a \in Delivery!Attacher, Delivery!Waited(a)
  PROVE  DeliveryInv'
<1>1. PICK t \in threads :
        /\ t.job = Delivery!Job(a) /\ t.pc = "ended" /\ threads' = threads \ {t}
        /\ deliveryMemory' = deliveryMemory \ {t.use}
        /\ IF ~t.ok THEN Delivery!Failed(a) /\ Delivery!Freed(a)
           ELSE IF Delivery!Job(a) = "load"
                THEN Delivery!AttachTo(a, "init") /\ UNCHANGED deliveryLock
                ELSE /\ attach' = [attach EXCEPT ![a].pc = "done", ![a].result = "attached"]
                     /\ Delivery!Freed(a)
  BY DEF Delivery!Waited, Delivery!Mine
<1>2. /\ attach[a].pc \in {"loading", "initialising"} /\ UNCHANGED <<child, deliveryParent>>
      /\ Delivery!Job(a) = "load" => attach[a].pc = "loading"
      /\ Delivery!Job(a) = "load" \/ Delivery!Job(a) = "init"
  BY DEF Delivery!Waited, Delivery!Waiting, Delivery!Job, Delivery!AttachAt
<1>3. PICK pc \in {"init", "done"}, result \in {attach[a].result, "failed", "attached"} :
        /\ Turns(a, pc, result) /\ (pc = "init" => attach[a].pc = "loading")
        /\ result \in {attach[a].result, "failed"} \/ child.hooks
  <2>1. CASE ~t.ok
    BY <1>1, <2>1, TurnsIs DEF DeliveryInv
  <2>2. CASE t.ok /\ Delivery!Job(a) = "load"
    BY <1>1, <1>2, <2>2, TurnsIs DEF DeliveryInv
  <2>3. CASE t.ok /\ Delivery!Job(a) = "init"
    <3>1. child.hooks
      BY <1>1, <2>3 DEF DeliveryInv, ThreadsSound, ThreadSound
    <3>2. Turns(a, "done", "attached")
      BY <1>1, <2>3, TurnsIs DEF DeliveryInv
    <3>3. QED
      BY <3>1, <3>2
  <2>4. QED
    BY <1>2, <2>1, <2>2, <2>3
<1>4. deliveryLock' \in Delivery!Attacher \cup {Delivery!NoOne}
  BY <1>1, FreedIs DEF DeliveryInv, DeliveryTyped
<1>5. ParentSound' /\ ChildSound'
  BY <1>2, <1>3, AttemptKeeps
<1>6. \A b \in Delivery!Attacher : Onward(b)
  BY <1>3, TurnsOnward
<1>7. ASSUME NEW u \in threads \ {t} PROVE ThreadSound(u)'
  <2>1. u.by \in Delivery!Attacher /\ ThreadSound(u) /\ u.use # t.use
    BY DEF DeliveryInv, DeliveryTyped, RemoteThread, ThreadsSound, Alone
  <2>2. attach'[u.by].tries = attach[u.by].tries
    BY <1>6, <2>1 DEF Onward
  <2>3. QED
    BY <1>1, <1>2, <2>1, <2>2 DEF ThreadSound
<1>8. ThreadsSound'
  <2> DEFINE S == {}
  <2>1. threads' = (threads \ {t}) \cup S /\ \A u \in S : FALSE
    BY <1>1
  <2> HIDE DEF S
  <2>2. QED
    BY <1>6, <1>7, <2>1, ThreadMoves
<1>9. DeliveryTyped'
  BY <1>1, <1>2, <1>3, <1>4 DEF DeliveryInv, DeliveryTyped, Turns
<1>10. QED
  BY <1>5, <1>8, <1>9 DEF DeliveryInv

LEMMA TimesOutStep ==
  ASSUME DeliveryInv, NEW a \in Delivery!Attacher, Delivery!TimesOut(a)
  PROVE  DeliveryInv'
<1>1. PICK t \in threads :
        t.pc # "ended" /\ threads' = (threads \ {t}) \cup {[t EXCEPT !.kept = FALSE]}
  BY DEF Delivery!TimesOut, Delivery!Mine
<1> DEFINE n == [t EXCEPT !.kept = FALSE]
<1>2. /\ attach[a].pc \in {"loading", "initialising"}
      /\ UNCHANGED <<child, deliveryParent, deliveryMemory>> /\ Turns(a, "done", "failed")
      /\ deliveryLock' \in Delivery!Attacher \cup {Delivery!NoOne}
  BY TurnsIs, FreedIs DEF Delivery!TimesOut, Delivery!Waiting, Delivery!Retained, DeliveryInv
<1>3. t \in RemoteThread
  BY DEF DeliveryInv, DeliveryTyped
<1>4. /\ n \in RemoteThread /\ n.use = t.use /\ n.by = t.by /\ n.job = t.job /\ n.pc = t.pc
      /\ n.todo = t.todo /\ n.ok = t.ok
  BY <1>3 DEF RemoteThread
<1> HIDE DEF n
<1>5. ParentSound' /\ ChildSound'
  BY <1>2, AttemptKeeps
<1>6. \A b \in Delivery!Attacher : Onward(b)
  BY <1>2, TurnsOnward
<1>7. ASSUME NEW u \in threads PROVE ThreadSound(u)'
  <2>1. u.by \in Delivery!Attacher /\ ThreadSound(u)
    BY DEF DeliveryInv, DeliveryTyped, RemoteThread, ThreadsSound
  <2>2. attach'[u.by].tries = attach[u.by].tries
    BY <1>6, <2>1 DEF Onward
  <2>3. QED
    BY <1>2, <2>1, <2>2 DEF ThreadSound
<1>8. ThreadSound(n)'
  BY <1>4, <1>7 DEF ThreadSound
<1>9. n.pc = "inside" => \A v \in threads \ {t} : v.pc # "inside"
  BY <1>4 DEF DeliveryInv, ThreadsSound, Alone
<1>10. ThreadsSound'
  <2> DEFINE S == {n}
  <2>1. threads' = (threads \ {t}) \cup S /\ \A u, v \in S : u = v
    BY <1>1 DEF n
  <2>2. \A u \in S : u.use = t.use /\ ThreadSound(u)'
    BY <1>4, <1>8
  <2>3. \A u \in S : u.pc = "inside" => \A v \in threads \ {t} : v.pc # "inside"
    BY <1>9
  <2> HIDE DEF S
  <2>4. QED
    BY <1>6, <1>7, <2>1, <2>2, <2>3, ThreadMoves
<1>11. DeliveryTyped'
  <2>1. threads' \subseteq RemoteThread
    BY <1>1, <1>4 DEF DeliveryInv, DeliveryTyped, n
  <2>2. QED
    BY <1>2, <2>1 DEF DeliveryInv, DeliveryTyped, Turns
<1>12. QED
  BY <1>5, <1>10, <1>11 DEF DeliveryInv

-----------------------------------------------------------------------------
\* What a thread does in the child becomes of its record.
LEMMA ToIs ==
  ASSUME DeliveryInv, NEW t \in threads, NEW ok \in BOOLEAN, Delivery!To(t, "ended", ok)
  PROVE  \E S \in SUBSET RemoteThread :
           /\ threads' = (threads \ {t}) \cup S /\ \A u, v \in S : u = v
           /\ \A u \in S : /\ u.use = t.use /\ u.by = t.by /\ u.job = t.job /\ u.pc = "ended"
                           /\ u.ok = ok
<1> DEFINE n == [t EXCEPT !.pc = "ended", !.ok = ok]
<1>1. t \in RemoteThread
  BY DEF DeliveryInv, DeliveryTyped
<1>2. /\ n \in RemoteThread /\ n.use = t.use /\ n.by = t.by /\ n.job = t.job /\ n.pc = "ended"
      /\ n.ok = ok
  BY <1>1 DEF RemoteThread
<1>3. threads' = (threads \ {t}) \cup (IF ~t.kept THEN {} ELSE {n})
  BY DEF Delivery!To
<1> HIDE DEF n
<1>4. CASE t.kept
  <2>1. threads' = (threads \ {t}) \cup {n}
    BY <1>3, <1>4
  <2>2. {n} \in SUBSET RemoteThread
    BY <1>2
  <2>3. QED
    BY <1>2, <2>1, <2>2
<1>5. CASE ~t.kept
  <2>1. threads' = (threads \ {t}) \cup {}
    BY <1>3, <1>5
  <2>2. {} \in SUBSET RemoteThread
    OBVIOUS
  <2>3. QED
    BY <2>1, <2>2
<1>6. QED
  BY <1>4, <1>5

LEMMA LoadsStep ==
  ASSUME DeliveryInv, NEW t \in threads, Delivery!Loads(t)
  PROVE  DeliveryInv'
<1>1. /\ t.job = "load" /\ t.pc = "begun"
      /\ UNCHANGED <<deliveryParent, attach, deliveryLock, deliveryMemory>> /\ child \in Child
  BY DEF Delivery!Loads, DeliveryInv, DeliveryTyped
<1>2. /\ child' \in Child /\ child'.main = child.main /\ child'.hooks = child.hooks
      /\ child'.installs = child.installs /\ child'.entered = child.entered
  BY <1>1 DEF Delivery!Loads, Child
<1>3. PICK ok \in BOOLEAN : Delivery!To(t, "ended", ok)
  BY DEF Delivery!Loads
<1>4. PICK S \in SUBSET RemoteThread :
           /\ threads' = (threads \ {t}) \cup S /\ \A u, v \in S : u = v
           /\ \A u \in S : /\ u.use = t.use /\ u.by = t.by /\ u.job = t.job /\ u.pc = "ended"
                           /\ u.ok = ok
  BY <1>3, ToIs
<1>5. ParentSound' /\ ChildSound'
  BY <1>1, <1>2 DEF DeliveryInv, ParentSound, ChildSound
<1>6. \A u \in threads : ThreadSound(u)'
  BY <1>1, <1>2 DEF DeliveryInv, ThreadsSound, ThreadSound
<1>7. ASSUME NEW u \in S PROVE ThreadSound(u)'
  BY <1>1, <1>2, <1>4, <1>6 DEF ThreadSound
<1>8. \A a \in Delivery!Attacher : Onward(a)
  BY <1>1 DEF Onward
<1>9. ThreadsSound'
  BY <1>4, <1>6, <1>7, <1>8, ThreadMoves
<1>10. DeliveryTyped'
  <2>1. threads' \subseteq RemoteThread
    BY <1>4 DEF DeliveryInv, DeliveryTyped
  <2>2. QED
    BY <1>1, <1>2, <2>1 DEF DeliveryInv, DeliveryTyped
<1>11. QED
  BY <1>5, <1>9, <1>10 DEF DeliveryInv

LEMMA EntersStep ==
  ASSUME DeliveryInv, NEW t \in threads, Delivery!Enters(t)
  PROVE  DeliveryInv'
<1>n. PICK n : n = [t EXCEPT !.pc = "inside", !.todo = ~child.hooks]
  OBVIOUS
<1>1. /\ t.job = "init" /\ t.pc = "begun" /\ threads' = (threads \ {t}) \cup {n}
      /\ UNCHANGED <<child, deliveryParent, attach, deliveryLock, deliveryMemory>>
      /\ child \in Child /\ t \in RemoteThread
  BY <1>n DEF Delivery!Enters, DeliveryInv, DeliveryTyped
<1>2. /\ n \in RemoteThread /\ n.use = t.use /\ n.by = t.by /\ n.job = t.job /\ n.pc = "inside"
      /\ n.todo = ~child.hooks
  BY <1>n, <1>1 DEF RemoteThread, Child
<1>3. ParentSound' /\ ChildSound'
  BY <1>1 DEF DeliveryInv, ParentSound, ChildSound
<1>4. \A u \in threads : ThreadSound(u)'
  BY <1>1 DEF DeliveryInv, ThreadsSound, ThreadSound
<1>5. ThreadSound(n)'
  BY <1>1, <1>2, <1>4 DEF ThreadSound
<1>6. \A v \in threads : v.pc # "inside"
  <2>1. \A v \in threads : v.pc = "inside" => v.job = "init"
    BY DEF DeliveryInv, ThreadsSound, ThreadSound
  <2>2. QED
    BY <2>1 DEF Delivery!Enters, Delivery!Inside
<1>7. \A a \in Delivery!Attacher : Onward(a)
  BY <1>1 DEF Onward
<1>8. ThreadsSound'
  <2> DEFINE S == {n}
  <2>1. threads' = (threads \ {t}) \cup S /\ \A u, v \in S : u = v
    BY <1>1
  <2>2. \A u \in S : u.use = t.use /\ ThreadSound(u)'
    BY <1>2, <1>5
  <2>3. \A u \in S : u.pc = "inside" => \A v \in threads \ {t} : v.pc # "inside"
    BY <1>6
  <2> HIDE DEF S
  <2>4. QED
    BY <1>4, <1>7, <2>1, <2>2, <2>3, ThreadMoves
<1>9. DeliveryTyped'
  <2>1. threads' \subseteq RemoteThread
    BY <1>1, <1>2 DEF DeliveryInv, DeliveryTyped
  <2>2. QED
    BY <1>1, <2>1 DEF DeliveryInv, DeliveryTyped
<1>10. QED
  BY <1>3, <1>8, <1>9 DEF DeliveryInv

LEMMA InstallsStep ==
  ASSUME DeliveryInv, NEW t \in threads, Delivery!Installs(t)
  PROVE  DeliveryInv'
<1>1. /\ t.job = "init" /\ t.pc = "inside" /\ child \in Child /\ t.todo \in BOOLEAN
      /\ UNCHANGED <<deliveryParent, attach, deliveryLock, deliveryMemory>>
      /\ t.todo <=> ~child.hooks
  BY DEF Delivery!Installs, DeliveryInv, DeliveryTyped, RemoteThread, ThreadsSound, ThreadSound
<1>2. PICK ok \in BOOLEAN :
        /\ Delivery!To(t, "ended", ok)
        /\ child' = IF ok /\ t.todo THEN [child EXCEPT !.hooks = TRUE, !.installs = @ + 1] ELSE child
  BY DEF Delivery!Installs
<1>3. PICK S \in SUBSET RemoteThread :
           /\ threads' = (threads \ {t}) \cup S /\ \A u, v \in S : u = v
           /\ \A u \in S : /\ u.use = t.use /\ u.by = t.by /\ u.job = t.job /\ u.pc = "ended"
                           /\ u.ok = ok
  BY <1>2, ToIs
<1>4. /\ child' \in Child /\ child'.main = child.main /\ child'.entered = child.entered
      /\ child'.installs = (IF child'.hooks THEN 1 ELSE 0) /\ (child.hooks => child'.hooks)
      /\ (ok => child'.hooks)
  <2>1. child.installs = IF child.hooks THEN 1 ELSE 0
    BY DEF DeliveryInv, ChildSound
  <2>2. CASE ok /\ t.todo
    <3>1. ~child.hooks /\ child.installs = 0
      BY <1>1, <2>1, <2>2
    <3>2. child' = [child EXCEPT !.hooks = TRUE, !.installs = 1]
      BY <1>2, <2>2, <3>1
    <3>3. QED
      BY <1>1, <3>1, <3>2 DEF Child
  <2>3. CASE ~(ok /\ t.todo)
    BY <1>1, <1>2, <2>1, <2>3
  <2>4. QED
    BY <2>2, <2>3
<1>5. ParentSound' /\ ChildSound'
  BY <1>1, <1>4 DEF DeliveryInv, ParentSound, ChildSound
<1>6. ASSUME NEW u \in threads \ {t} PROVE ThreadSound(u)'
  <2>1. ThreadSound(u) /\ u.pc # "inside"
    BY <1>1 DEF DeliveryInv, ThreadsSound, Alone
  <2>2. QED
    BY <1>1, <1>4, <2>1 DEF ThreadSound
<1>7. ASSUME NEW u \in S PROVE ThreadSound(u)'
  BY <1>1, <1>3, <1>4 DEF DeliveryInv, ThreadsSound, ThreadSound
<1>8. \A a \in Delivery!Attacher : Onward(a)
  BY <1>1 DEF Onward
<1>9. ThreadsSound'
  BY <1>3, <1>6, <1>7, <1>8, ThreadMoves
<1>10. DeliveryTyped'
  <2>1. threads' \subseteq RemoteThread
    BY <1>3 DEF DeliveryInv, DeliveryTyped
  <2>2. QED
    BY <1>1, <1>4, <2>1 DEF DeliveryInv, DeliveryTyped
<1>11. QED
  BY <1>5, <1>9, <1>10 DEF DeliveryInv

-----------------------------------------------------------------------------
LEMMA DeliveryStep ==
  ASSUME DeliveryInv, Delivery!Next
  PROVE  DeliveryInv'
<1>1. CASE Delivery!Parent
  BY <1>1, CreateStep, IdentifiedStep, PreparedStep, ParentLocksStep, EndOfHookStep
  DEF Delivery!Parent
<1>2. CASE Delivery!HostBegins \/ Delivery!HostLocks \/ Delivery!HostEnds
  BY <1>2, HostStep
<1>3. CASE Delivery!Runs \/ Delivery!CallerResumes
  BY <1>3, MainStep
<1>4. ASSUME NEW a \in Delivery!Attacher, Delivery!Attaches(a) PROVE DeliveryInv'
  BY <1>4, LookStep, WaitedStep, TimesOutStep, InvokeStep DEF Delivery!Attaches
<1>5. ASSUME NEW t \in threads, Delivery!Loads(t) \/ Delivery!Enters(t) \/ Delivery!Installs(t)
      PROVE  DeliveryInv'
  BY <1>5, LoadsStep, EntersStep, InstallsStep
<1>6. QED
  BY <1>1, <1>2, <1>3, <1>4, <1>5 DEF Delivery!Next

LEMMA DeliveryHolds == Spec => [](On("delivery") => DeliveryInv)
<1>1. Init => (On("delivery") => DeliveryInv)
  <2> SUFFICES ASSUME Init, On("delivery") PROVE DeliveryInv
    OBVIOUS
  <2>1. Delivery!Init
    BY DEF Init, DeliveryInit
  <2>2. /\ child.main = "none" /\ child.entered = "no" /\ child.installs = 0 /\ child.hooks = FALSE
        /\ child \in Child
    BY <2>1 DEF Delivery!Init, Child
  <2>3. /\ deliveryParent \in Creation /\ deliveryParent.pc = "idle"
        /\ deliveryParent.report = "none"
    BY <2>1 DEF Delivery!Init, Creation
  <2>4. [pc |-> "idle", result |-> "none", tries |-> 0] \in Attempt
    BY Instances DEF Attempt, Delivery!DeliveryAssumption
  <2>5. /\ attach \in [Delivery!Attacher -> Attempt] /\ attach["parent"].pc = "idle"
        /\ attach["parent"].result = "none"
    BY <2>1, <2>4 DEF Delivery!Init, Delivery!Attacher
  <2>6. threads = {} /\ deliveryMemory = {} /\ deliveryLock = Delivery!NoOne
    BY <2>1 DEF Delivery!Init
  <2>7. DeliveryTyped
    BY <2>2, <2>3, <2>5, <2>6 DEF DeliveryTyped
  <2>8. ParentSound /\ ChildSound
    BY <2>2, <2>3, <2>5 DEF ParentSound, ChildSound
  <2>9. ThreadsSound
    BY <2>6 DEF ThreadsSound, Alone, Stage, Unused
  <2>10. QED
    BY <2>7, <2>8, <2>9 DEF DeliveryInv
<1>2. (On("delivery") => DeliveryInv) /\ [Next]_vars => (On("delivery") => DeliveryInv)'
  <2> SUFFICES ASSUME On("delivery") => DeliveryInv, [Next]_vars, On("delivery")' PROVE DeliveryInv'
    OBVIOUS
  <2>1. CASE UNCHANGED vars
    <3>1. UNCHANGED <<moving, child, deliveryParent, attach, deliveryLock, threads, deliveryMemory>>
      BY <2>1 DEF vars, DeliveryVars
    <3>2. On("delivery") /\ DeliveryInv
      BY <3>1 DEF On
    <3>3. ThreadsSound'
      BY <3>1, <3>2, QuietThreads DEF Onward
    <3>4. QED
      BY <3>1, <3>2, <3>3 DEF DeliveryInv, DeliveryTyped, ParentSound, ChildSound
  <2>2. CASE Next
    BY <2>2, DeliveryStep DEF Next, DeliveryNext, On
  <2>3. QED
    BY <2>1, <2>2
<1>3. QED
  BY <1>1, <1>2, PTL DEF Spec

\* Whatever becomes of an attachment, for any number of attempts that time out and run
\* on: the creator gets its child suspended if it asked for that, and with the hooks
\* that the report says; no thread loses its memory, and the hooks are installed once
\* (child_delivery.cpp complete, attachment.cpp invoke); and hooks within hooks wrap a
\* dialog once (adapter.cpp).
THEOREM ChildrenDelivered == Spec => []Delivered
<1>1. (On("delivery") => DeliveryInv) /\ (On("hooks") => HooksInv) => Delivered
  <2>1. ASSUME On("delivery"), DeliveryInv
        PROVE  /\ Delivery!TypeOK /\ Delivery!Balanced /\ Delivery!ReportTrue
               /\ Delivery!MemoryKept /\ Delivery!InstalledOnce
    <3>1. Delivery!TypeOK
      BY <2>1 DEF DeliveryInv, DeliveryTyped, Child, Attempt, Blocks, Delivery!TypeOK
    <3>2. Delivery!Balanced
      BY <2>1 DEF DeliveryInv, ParentSound, Delivery!Balanced, Delivery!ParentAt
    <3>3. Delivery!ReportTrue
      BY <2>1
      DEF DeliveryInv, DeliveryTyped, Child, ParentSound, ChildSound, Delivery!ReportTrue
    <3>4. Delivery!MemoryKept
      BY <2>1 DEF DeliveryInv, ThreadsSound, ThreadSound, Delivery!MemoryKept
    <3>5. Delivery!InstalledOnce
      BY <2>1 DEF DeliveryInv, ChildSound, Delivery!InstalledOnce
    <3>6. QED
      BY <3>1, <3>2, <3>3, <3>4, <3>5
  <2>2. ASSUME On("hooks"), HooksInv PROVE Hooks!TypeOK /\ Hooks!WrappedOnce
    <3>1. HookDepth \in Nat \ {0} /\ stack \in Seq(Frame) /\ Len(stack) <= HookDepth
      BY <2>2, Instances DEF HooksInv, HooksTyped, Hooks!HooksAssumption
    <3>2. bypass <= Len(stack)
      <4>1. Guarding(stack) \subseteq 1..Len(stack) /\ IsFiniteSet(1..Len(stack))
        BY <3>1, FS_Interval DEF Guarding
      <4>2. Cardinality(1..Len(stack)) = Len(stack)
        <5>1. PICK n \in Nat : n = Len(stack)
          BY <3>1
        <5>2. Cardinality(1..n) = IF 1 > n THEN 0 ELSE n - 1 + 1
          BY FS_Interval
        <5>3. (IF 1 > n THEN 0 ELSE n - 1 + 1) = n
          OBVIOUS
        <5>4. QED
          BY <5>1, <5>2, <5>3
      <4>3. QED
        BY <2>2, <4>1, <4>2, FS_Subset DEF HooksInv, StackSound
    <3>3. stack = <<>> => bypass = 0
      BY <2>2, <3>1, <3>2 DEF HooksInv, HooksTyped
    <3>4. Hooks!TypeOK
      BY <2>2, <3>1, <3>2 DEF HooksInv, HooksTyped, Hooks!TypeOK
    <3>5. QED
      BY <2>2, <3>3, <3>4 DEF HooksInv, HooksTyped, StackSound, Hooks!WrappedOnce
  <2>3. QED
    BY <2>1, <2>2 DEF Delivered
<1>2. QED
  BY <1>1, DeliveryHolds, HooksHold, PTL

-----------------------------------------------------------------------------
(***************************************************************************)
(* The inductive invariant of the keys: a document says what the commands  *)
(* should have, as long as no program runs.                                *)
(***************************************************************************)
Commands == {cmd1, cmd2}
Document == [list : BOOLEAN, of : [Commands -> HotKey \cup {Nothing, x}]]
KeysInv ==
  /\ keys \in [Commands -> HotKey \cup {Nothing}] /\ chosen \in [Commands -> HotKey \cup {Nothing}]
  /\ document \in Document /\ running \in BOOLEAN
  /\ running => keys = chosen
  /\ ~running /\ document.list => chosen = Keys!Defaulted(document.of)

Defaults == cmd1 :> k1 @@ cmd2 :> k2

LEMMA KeysAre ==
  x \notin HotKey \cup {Nothing} /\ Defaults \in [Commands -> HotKey]
BY Instances DEF Keys!KeyAssumption, Commands, Defaults

LEMMA DefaultedIs ==
  ASSUME NEW of \in [Commands -> HotKey \cup {Nothing, x}]
  PROVE  /\ Keys!Defaulted(of) \in [Commands -> HotKey \cup {Nothing}]
         /\ of \in [Commands -> HotKey \cup {Nothing}] => Keys!Defaulted(of) = of
<1>1. Keys!Defaulted(of) = [c \in Commands |-> IF of[c] = x THEN Defaults[c] ELSE of[c]]
  BY DEF Keys!Defaulted, Commands, Defaults
<1>2. QED
  BY <1>1, KeysAre

LEMMA LoadedIs ==
  ASSUME document \in Document
  PROVE  /\ Keys!Loaded \in [Commands -> HotKey \cup {Nothing}]
         /\ document.list => Keys!Loaded = Keys!Defaulted(document.of)
<1>1. Keys!Loaded =
        [c \in Commands |->
           IF ~document.list \/ document.of[c] # x
           THEN (IF document.list /\ document.of[c] # x THEN document.of[c] ELSE Nothing)
           ELSE Defaults[c]]
  BY DEF Keys!Loaded, Keys!Configured, Keys!Restored, Commands, Defaults
<1>2. Keys!Defaulted(document.of) =
        [c \in Commands |-> IF document.of[c] = x THEN Defaults[c] ELSE document.of[c]]
  BY DEF Keys!Defaulted, Commands, Defaults
<1>3. document.of \in [Commands -> HotKey \cup {Nothing, x}]
  BY DEF Document
<1>4. Keys!Loaded \in [Commands -> HotKey \cup {Nothing}]
  BY <1>1, <1>3, KeysAre
<1>5. document.list => Keys!Loaded = Keys!Defaulted(document.of)
  BY <1>1, <1>2
<1>6. QED
  BY <1>4, <1>5

LEMMA KeysStep ==
  ASSUME KeysInv, Keys!Next
  PROVE  KeysInv'
<1> DEFINE Full == [Commands -> HotKey \cup {Nothing}]
           Partial == [Commands -> HotKey \cup {Nothing, x}]
<1>1. ASSUME NEW list \in BOOLEAN, NEW of \in Partial, document' = [list |-> list, of |-> of]
      PROVE  document' \in Document /\ document'.list = list /\ document'.of = of
  BY <1>1 DEF Document
<1>2. CASE Keys!Start
  BY <1>2, LoadedIs DEF Keys!Start, KeysInv
<1>3. ASSUME NEW c \in Commands, NEW key \in HotKey \cup {Nothing}, Keys!Change(c, key) PROVE KeysInv'
  BY <1>3 DEF Keys!Change, KeysInv
<1>4. CASE Keys!Save
  <2>1. keys \in Partial
    BY DEF KeysInv
  <2>2. document' \in Document
    BY <1>1, <1>4, <2>1 DEF Keys!Save, Keys!Written
  <2>3. QED
    BY <1>4, <2>2 DEF Keys!Save, KeysInv
<1>5. CASE Keys!SaveFails
  <2>1. Keys!OnlyBound \in Partial
    BY DEF Keys!OnlyBound, KeysInv, Commands
  <2>2. document' \in Document /\ document'.of = Keys!OnlyBound
    BY <1>1, <1>5, <2>1 DEF Keys!SaveFails
  <2>3. chosen' = Keys!Defaulted(document'.of) /\ running' = FALSE /\ keys' = keys
    BY <1>5, <2>2 DEF Keys!SaveFails
  <2>4. QED
    <3>1. Keys!Defaulted(document.of)' = Keys!Defaulted(document'.of)
      BY DEF Keys!Defaulted
    <3>2. chosen' \in Full
      BY <2>1, <2>2, <2>3, DefaultedIs
    <3>3. QED
      BY <2>2, <2>3, <3>1, <3>2 DEF KeysInv
<1>6. CASE Keys!End
  <2>1. running /\ running' = FALSE /\ keys' = keys /\ keys = chosen /\ keys \in Full /\ document \in Document
    <3>1. running /\ running' = FALSE /\ keys' = keys
      BY <1>6 DEF Keys!End
    <3>2. keys = chosen /\ keys \in Full /\ document \in Document
      BY <3>1 DEF KeysInv
    <3>3. QED
      BY <3>1, <3>2
  <2>2. CASE document' = [list |-> TRUE, of |-> keys] /\ chosen' = chosen
    <3>1. keys \in Partial
      BY <2>1
    <3>2. document' \in Document /\ document'.of = keys
      BY <1>1, <2>2, <3>1
    <3>3. Keys!Defaulted(keys) = keys
      BY <2>1, <3>1, DefaultedIs
    <3>4. chosen' = Keys!Defaulted(document'.of)
      BY <2>1, <2>2, <3>2, <3>3
    <3>5. Keys!Defaulted(document.of)' = Keys!Defaulted(document'.of)
      BY DEF Keys!Defaulted
    <3>6. QED
      BY <2>1, <2>2, <3>2, <3>4, <3>5 DEF KeysInv
  <2>3. CASE document' = document /\ chosen' = Keys!Defaulted(document.of)
    <3>1. document.of \in Partial
      BY <2>1 DEF Document
    <3>2. Keys!Defaulted(document.of)' = Keys!Defaulted(document'.of)
      BY DEF Keys!Defaulted
    <3>3. chosen' \in Full
      BY <2>3, <3>1, DefaultedIs
    <3>4. QED
      BY <2>1, <2>3, <3>2, <3>3 DEF KeysInv
  <2>4. QED
    BY <1>6, <2>2, <2>3 DEF Keys!End, Keys!Written
<1>7. ASSUME NEW list \in BOOLEAN, NEW of \in Partial, Keys!Edit(list, of) PROVE KeysInv'
  <2>1. document' \in Document /\ document'.of = of
    BY <1>1, <1>7 DEF Keys!Edit
  <2>2. chosen' = Keys!Defaulted(of) /\ ~running /\ running' = running /\ keys' = keys
    BY <1>7 DEF Keys!Edit
  <2>3. QED
    <3>1. Keys!Defaulted(document.of)' = Keys!Defaulted(document'.of)
      BY DEF Keys!Defaulted
    <3>2. QED
      BY <2>1, <2>2, <3>1, DefaultedIs DEF KeysInv
<1>8. QED
  BY <1>2, <1>3, <1>4, <1>5, <1>6, <1>7 DEF Keys!Next, Commands

LEMMA KeysHold == Spec => [](On("keys") => KeysInv)
<1>1. Init => (On("keys") => KeysInv)
  <2> SUFFICES ASSUME Init, On("keys") PROVE KeysInv
    OBVIOUS
  <2> DEFINE none == [c \in Commands |-> x]
  <2>1. /\ keys = Defaults /\ chosen = Defaults /\ running = FALSE
        /\ document = [list |-> TRUE, of |-> none]
    BY DEF Init, KeysInit, Keys!Init, Defaults, Commands
  <2>2. none \in [Commands -> HotKey \cup {Nothing, x}]
    OBVIOUS
  <2>3. document \in Document /\ document.of = none
    BY <2>1, <2>2 DEF Document
  <2>4. Keys!Defaulted(none) = [c \in Commands |-> Defaults[c]]
    BY DEF Keys!Defaulted, Commands, Defaults
  <2>5. [c \in Commands |-> Defaults[c]] = Defaults
    BY KeysAre
  <2>6. QED
    BY <2>1, <2>3, <2>4, <2>5, KeysAre DEF KeysInv
<1>2. (On("keys") => KeysInv) /\ [Next]_vars => (On("keys") => KeysInv)'
  <2> SUFFICES ASSUME On("keys") => KeysInv, [Next]_vars, On("keys")' PROVE KeysInv'
    OBVIOUS
  <2>1. CASE UNCHANGED vars
    <3>1. UNCHANGED <<moving, keys, document, running, chosen>>
      BY <2>1 DEF vars, KeysVars
    <3>2. QED
      BY <3>1 DEF On, KeysInv, Keys!Defaulted
  <2>2. CASE Next
    BY <2>2, KeysStep DEF Next, KeysNext, On
  <2>3. QED
    BY <2>1, <2>2
<1>3. QED
  BY <1>1, <1>2, PTL DEF Spec

-----------------------------------------------------------------------------
(***************************************************************************)
(* The inductive invariant of the selection.                               *)
(***************************************************************************)
ShellWindow ==
  [initialized : BOOLEAN, registering : BOOLEAN, list : SUBSET Pidls, waiting : SUBSET Pidls]
Caller == [at : {"idle", "publishing", "waking"}, name : Names \cup {Nothing}]
Sought == [name : Names \cup {Nothing}, ready : BOOLEAN, attempts : 0..SelectionAttempts]
States == [known : SUBSET Panels, primary : Panels \cup {Nothing}]
Host == [display : [Panels -> SUBSET Names], live : SUBSET Panels, frame : BOOLEAN]

SelectionTyped ==
  /\ selectionWindow \in ShellWindow /\ caller \in Caller /\ pending \in Sought
  /\ states \in States /\ selectionHost \in Host

\* What is sought has frames left, and one of them is due, or will be asked for, if a
\* panel that is known displays it.
SelectionInv ==
  /\ SelectionTyped /\ Selection!NotAsleep
  /\ Selection!Cardinality(states.known) <= SelectionStates
  /\ pending.ready => pending.attempts < SelectionAttempts

LEMMA SelectionIs ==
  /\ SelectionStates \in Nat /\ SelectionAttempts \in Nat \ {0} /\ SelectionCalls \in Nat
  /\ Selection!Cardinality({}) = 0
<1>1. \A S : Selection!Cardinality(S) = Cardinality(S)
  BY Zenon DEF Selection!Cardinality, Cardinality
<1>2. QED
  BY <1>1, FS_EmptySet, Instances DEF Selection!SelectionAssumption

LEMMA WindowStep ==
  ASSUME SelectionInv, Selection!Register \/ \E pidl \in Pidls : Selection!Alias(pidl)
  PROVE  SelectionInv'
<1>1. UNCHANGED <<caller, pending, states, selectionHost>>
  BY DEF Selection!Register, Selection!Alias
<1>2. selectionWindow \in ShellWindow
  BY DEF SelectionInv, SelectionTyped
<1>3. selectionWindow' \in ShellWindow
  <2>1. CASE Selection!Register
    BY <1>2, <2>1 DEF Selection!Register, ShellWindow
  <2>2. ASSUME NEW pidl \in Pidls, Selection!Alias(pidl) PROVE selectionWindow' \in ShellWindow
    <3>1. PICK list \in SUBSET Pidls :
            selectionWindow' = [selectionWindow EXCEPT !.list = list, !.waiting = @ \ {pidl},
                                  !.registering = selectionWindow.waiting # {pidl}]
      BY <1>2, <2>2 DEF Selection!Alias, ShellWindow
    <3>2. /\ selectionWindow.waiting \ {pidl} \in SUBSET Pidls
          /\ (selectionWindow.waiting # {pidl}) \in BOOLEAN
      BY <1>2 DEF ShellWindow
    <3>3. ASSUME NEW w \in ShellWindow, NEW waiting \in SUBSET Pidls, NEW registering \in BOOLEAN
          PROVE  [w EXCEPT !.list = list, !.waiting = waiting, !.registering = registering]
                   \in ShellWindow
      BY Zenon DEF ShellWindow
    <3>4. QED
      BY <1>2, <3>1, <3>2, <3>3, Zenon
  <2>3. QED
    BY <2>1, <2>2
<1>4. QED
  BY <1>1, <1>3 DEF SelectionInv, SelectionTyped, Selection!NotAsleep, Selection!NoCall

LEMMA CallStep ==
  ASSUME SelectionInv, Selection!Publish \/ \E name \in Names : Selection!SelectItem(name)
  PROVE  SelectionInv'
<1>1. caller \in Caller /\ pending \in Sought /\ selectionHost \in Host
  BY DEF SelectionInv, SelectionTyped
<1>2. ASSUME NEW name \in Names, Selection!SelectItem(name) PROVE SelectionInv'
  <2>1. caller' = [at |-> "publishing", name |-> name]
        /\ UNCHANGED <<selectionWindow, pending, states, selectionHost>>
    BY <1>2 DEF Selection!SelectItem
  <2>2. caller' \in Caller /\ caller' # Selection!NoCall
    BY <2>1 DEF Caller, Selection!NoCall
  <2>3. QED
    BY <2>1, <2>2 DEF SelectionInv, SelectionTyped, Selection!NotAsleep, Selection!NoCall
<1>3. CASE /\ caller.at = "publishing" /\ caller' = [caller EXCEPT !.at = "waking"]
           /\ pending' = Selection!Sought(caller.name)
           /\ UNCHANGED <<selectionWindow, states, selectionHost>>
  <2>1. caller' \in Caller /\ caller'.at = "waking" /\ Selection!NoCall.at = "idle"
    BY <1>1, <1>3 DEF Caller, Selection!NoCall
  <2>2. pending' \in Sought /\ pending'.attempts < SelectionAttempts
    BY <1>1, <1>3, SelectionIs DEF Sought, Selection!Sought, Caller
  <2>3. caller' # Selection!NoCall
    BY <2>1
  <2>4. Selection!NotAsleep'
    BY <2>3 DEF Selection!NotAsleep, Selection!NoCall
  <2>5. QED
    BY <1>3, <2>1, <2>2, <2>4 DEF SelectionInv, SelectionTyped
<1>4. CASE /\ caller' = Selection!NoCall
           /\ selectionHost' = [selectionHost EXCEPT !.frame = TRUE]
           /\ UNCHANGED <<selectionWindow, pending, states>>
  <2>1. selectionHost' \in Host /\ selectionHost'.frame = TRUE
    BY <1>1, <1>4 DEF Host
  <2>2. caller' \in Caller
    BY <1>4 DEF Caller, Selection!NoCall
  <2>3. Selection!NotAsleep'
    BY <2>1 DEF Selection!NotAsleep
  <2>4. QED
    BY <1>4, <2>1, <2>2, <2>3 DEF SelectionInv, SelectionTyped
<1>5. QED
  BY <1>2, <1>3, <1>4 DEF Selection!Publish

LEMMA RememberedIs ==
  ASSUME SelectionInv, NEW known \in Selection!Remembered
  PROVE  known \in SUBSET Panels /\ Selection!Cardinality(known) <= SelectionStates
<1>1. states.known \cup selectionHost.live \subseteq Panels
  BY DEF SelectionInv, SelectionTyped, States, Host
<1>2. QED
  BY <1>1, SelectionIs DEF Selection!Remembered

LEMMA FrameStep ==
  ASSUME SelectionInv, Selection!Frame
  PROVE  SelectionInv'
<1>1. PICK known \in Selection!Remembered :
        IF ~pending.ready
        THEN states' = [states EXCEPT !.known = known] /\ pending' = pending
        ELSE IF Selection!Shows(known) = {}
        THEN /\ states' = [states EXCEPT !.known = known]
             /\ pending' = [pending EXCEPT !.attempts = @ + 1,
                                           !.ready = pending.attempts + 1 < SelectionAttempts]
        ELSE \E p \in Selection!Chosen(known) :
               /\ states' = [known |-> known, primary |-> p]
               /\ pending' = [pending EXCEPT !.ready = FALSE]
  BY DEF Selection!Frame
<1>2. /\ UNCHANGED <<selectionWindow, caller>> /\ pending \in Sought /\ states \in States
      /\ selectionHost \in Host /\ selectionHost' = [selectionHost EXCEPT !.frame = FALSE]
      /\ pending.ready => pending.attempts < SelectionAttempts
  BY DEF Selection!Frame, SelectionInv, SelectionTyped
<1>3. selectionHost' \in Host /\ selectionHost'.display = selectionHost.display
  BY <1>2 DEF Host
<1>4. known \in SUBSET Panels /\ Selection!Cardinality(known) <= SelectionStates
  BY RememberedIs
<1>5. states' \in States /\ states'.known = known
  <2>1. CASE states' = [states EXCEPT !.known = known]
    BY <1>2, <1>4, <2>1 DEF States
  <2>2. ASSUME NEW p \in Selection!Chosen(known), states' = [known |-> known, primary |-> p]
        PROVE  states' \in States /\ states'.known = known
    <3>1. p \in Panels
      BY <1>4, <2>2 DEF Selection!Chosen, Selection!Shows
    <3>2. QED
      BY <1>4, <2>2, <3>1 DEF States
  <2>3. QED
    BY <1>1, <2>1, <2>2
<1>6. CASE ~pending.ready
  BY <1>1, <1>2, <1>3, <1>4, <1>5, <1>6 DEF SelectionInv, SelectionTyped, Selection!NotAsleep
<1>7. CASE pending.ready /\ Selection!Shows(known) = {}
  <2>1. pending' = [pending EXCEPT !.attempts = @ + 1,
                                   !.ready = pending.attempts + 1 < SelectionAttempts]
    BY <1>1, <1>7
  <2>2. /\ pending.attempts + 1 \in 0..SelectionAttempts
        /\ (pending.attempts + 1 < SelectionAttempts) \in BOOLEAN
    BY <1>2, <1>7, SelectionIs DEF Sought
  <2>3. /\ pending' \in Sought /\ pending'.name = pending.name
        /\ pending'.attempts = pending.attempts + 1
        /\ pending'.ready = (pending.attempts + 1 < SelectionAttempts)
    BY <1>2, <2>1, <2>2 DEF Sought
  <2>4. \A p \in known : pending'.name \notin selectionHost'.display[p]
    BY <1>3, <1>7, <2>3 DEF Selection!Shows
  <2>5. Selection!NotAsleep'
    BY <1>5, <2>4 DEF Selection!NotAsleep
  <2>6. QED
    BY <1>2, <1>3, <1>4, <1>5, <2>3, <2>5 DEF SelectionInv, SelectionTyped
<1>8. CASE pending.ready /\ Selection!Shows(known) # {}
  <2>1. pending' = [pending EXCEPT !.ready = FALSE]
    BY <1>1, <1>8
  <2>2. pending' \in Sought /\ pending'.ready = FALSE
    BY <1>2, <2>1 DEF Sought
  <2>3. QED
    BY <1>2, <1>3, <1>4, <1>5, <2>2 DEF SelectionInv, SelectionTyped, Selection!NotAsleep
<1>9. QED
  BY <1>6, <1>7, <1>8

LEMMA PanelStep ==
  ASSUME SelectionInv, NEW p \in Panels,
         Selection!Live(p) \/ \E names \in SUBSET Names : Selection!List(p, names)
  PROVE  SelectionInv'
<1>1. UNCHANGED <<selectionWindow, caller, pending, states>> /\ selectionHost \in Host
  BY DEF Selection!Live, Selection!List, SelectionInv, SelectionTyped
<1>2. selectionHost' \in Host /\ selectionHost'.frame = TRUE
  <2>1. CASE Selection!Live(p)
    BY <1>1, <2>1 DEF Selection!Live, Host
  <2>2. ASSUME NEW names \in SUBSET Names, Selection!List(p, names)
        PROVE  selectionHost' \in Host /\ selectionHost'.frame = TRUE
    <3> DEFINE display == [selectionHost.display EXCEPT ![p] = names]
    <3>1. display \in [Panels -> SUBSET Names]
      BY <1>1 DEF Host
    <3>2. selectionHost' = [selectionHost EXCEPT !.display = display, !.frame = TRUE]
      BY <2>2 DEF Selection!List
    <3> HIDE DEF display
    <3>3. QED
      BY <1>1, <3>1, <3>2 DEF Host
  <2>3. QED
    BY <2>1, <2>2
<1>3. QED
  BY <1>1, <1>2 DEF SelectionInv, SelectionTyped, Selection!NotAsleep

LEMMA SelectionStep ==
  ASSUME SelectionInv, Selection!Next
  PROVE  SelectionInv'
BY WindowStep, CallStep, FrameStep, PanelStep DEF Selection!Next

LEMMA SelectionHolds == Spec => [](On("selection") => SelectionInv)
<1>1. Init => (On("selection") => SelectionInv)
  <2> SUFFICES ASSUME Init, On("selection") PROVE SelectionInv
    OBVIOUS
  <2>1. Selection!Init
    BY DEF Init, SelectionInit
  <2>2. SelectionTyped
    BY <2>1, SelectionIs
    DEF Selection!Init, SelectionTyped, ShellWindow, Caller, Sought, States, Host, Selection!NoCall
  <2>3. states.known = {} /\ pending.ready = FALSE
    BY <2>1 DEF Selection!Init
  <2>4. QED
    BY <2>2, <2>3, SelectionIs DEF SelectionInv, Selection!NotAsleep
<1>2. (On("selection") => SelectionInv) /\ [Next]_vars => (On("selection") => SelectionInv)'
  <2> SUFFICES ASSUME On("selection") => SelectionInv, [Next]_vars, On("selection")'
               PROVE  SelectionInv'
    OBVIOUS
  <2>1. CASE UNCHANGED vars
    <3>1. UNCHANGED <<moving, selectionWindow, caller, pending, states, selectionHost>>
      BY <2>1 DEF vars, SelectionVars
    <3>2. QED
      BY <3>1 DEF On, SelectionInv, SelectionTyped, Selection!NotAsleep, Selection!NoCall
  <2>2. CASE Next
    BY <2>2, SelectionStep DEF Next, SelectionNext, On
  <2>3. QED
    BY <2>1, <2>2
<1>3. QED
  BY <1>1, <1>2, PTL DEF Spec

\* A window that is asked to select an item does not fall asleep over it, however calls
\* and frames interleave (payload.cpp SelectItem, TryApply); and a command has, after
\* any number of starts, crashes and edits of the settings, the key that its user gave
\* it or took away (history.cpp settingsHook, saveSettingsHook).
THEOREM RequestsAnswered == Spec => []RequestsArrive
<1>1. (On("keys") => KeysInv) /\ (On("selection") => SelectionInv) => RequestsArrive
  <2>1. ASSUME KeysInv PROVE Keys!TypeOK /\ Keys!AsChosen
    BY <2>1 DEF KeysInv, Document, Commands, Keys!TypeOK, Keys!AsChosen
  <2>2. ASSUME SelectionInv PROVE Selection!TypeOK /\ Selection!NotAsleep
    BY <2>2, SelectionIs
    DEF SelectionInv, SelectionTyped, ShellWindow, Sought, States, Selection!TypeOK
  <2>3. QED
    BY <2>1, <2>2 DEF RequestsArrive
<1>2. QED
  BY <1>1, KeysHold, SelectionHolds, PTL
=============================================================================
