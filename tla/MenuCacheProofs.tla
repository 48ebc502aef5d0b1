-------------------------- MODULE MenuCacheProofs --------------------------
(***************************************************************************)
(* Proofs about MenuCache: for any keys and wrappers, partitions of any    *)
(* size, any capacity of the deferred list and any depth of re-entry, no   *)
(* menu is destroyed while it is shown, every wrapper has one owner, and   *)
(* no evicted wrapper is forgotten.                                        *)
(***************************************************************************)
EXTENDS MCMenuCache, FiniteSetTheorems, SequenceTheorems, TLAPS

-----------------------------------------------------------------------------
(***************************************************************************)
(* The inductive invariant.  OwnedOnce counts; Apart and Kept say the same *)
(* of slots, the list and the menus shown.  An uncached wrapper is shown   *)
(* once only (Alone), as its first close destroys it.  A deferred wrapper  *)
(* waits for a menu that will be closed or for a call that will drain the  *)
(* list when it returns (Due).                                             *)
(***************************************************************************)
InSlot(w) == \E s \in Slot : cache[s].wrapper = w
Listed(q) == {q[i] : i \in 1..Len(q)}
Distinct(q) == \A i, j \in 1..Len(q) : q[i] = q[j] => i = j
Waiting(w) == w \in Listed(deferred)

Apart ==
  /\ \A s, t \in Slot : cache[s].wrapper = cache[t].wrapper => s = t \/ cache[s].wrapper = NoWrapper
  /\ Distinct(deferred)
  /\ \A w \in Wrapper : Waiting(w) => ~InSlot(w) /\ shown[w] = 0

Kept == \A w \in Wrapper : Exists(w) <=> InSlot(w) \/ Waiting(w) \/ shown[w] > 0

Alone == \A w \in Wrapper : shown[w] <= 1 \/ InSlot(w)

Returning(q) == \E i \in 1..Len(q) : q[i].call \in {"draining", "sweeping"}
Due == deferred = <<>> \/ Returning(stack) \/ \E w \in Wrapper : shown[w] > 0

MenuInv == TypeOK /\ Apart /\ Kept /\ Alone /\ UsesCounted /\ SlotsSound /\ Due

-----------------------------------------------------------------------------
(***************************************************************************)
(* The parts of the types that the steps below need.                       *)
(***************************************************************************)
Kinds == {{}} \cup {{key} : key \in Key}
Cell == [for : Kinds, wrapper : Wrapper \cup {NoWrapper}, uses : Nat]
Call == [call : {"building", "draining", "sweeping"}, key : Kinds,
         next : 1..(SelectedSlots + BackgroundSlots + 1)]

LEMMA Sizes ==
  /\ SelectedSlots \in Nat /\ BackgroundSlots \in Nat /\ Deferrable \in Nat
  /\ SelectedSlots > 0 /\ Slot \subseteq Nat /\ 1 \in Slot
  /\ \A s \in Slot : s + 1 \in 1..(SelectedSlots + BackgroundSlots + 1)
BY CapacityAssumption DEF Slot

LEMMA Types ==
  ASSUME TypeOK
  PROVE  /\ cache \in [Slot -> Cell] /\ older \in [Slot -> SUBSET Slot]
         /\ deferred \in Seq(Wrapper) /\ Len(deferred) <= Deferrable /\ stack \in Seq(Call)
         /\ built \in [Wrapper -> Kinds] /\ shown \in [Wrapper -> Nat]
BY DEF TypeOK, Cell, Call, Kinds

LEMMA TypesBack ==
  ASSUME cache \in [Slot -> Cell], older \in [Slot -> SUBSET Slot],
         deferred \in Seq(Wrapper), Len(deferred) <= Deferrable, stack \in Seq(Call),
         built \in [Wrapper -> Kinds], shown \in [Wrapper -> Nat]
  PROVE  TypeOK
BY DEF TypeOK, Cell, Call, Kinds

\* A list that loses its last element.
LEMMA FrontOf ==
  ASSUME NEW S, NEW q \in Seq(S), q # <<>>
  PROVE  /\ Front(q) \in Seq(S) /\ Len(Front(q)) = Len(q) - 1 /\ Last(q) \in S
         /\ Last(q) = q[Len(q)] /\ Len(q) \in 1..Len(q)
         /\ \A i \in 1..(Len(q) - 1) : Front(q)[i] = q[i]
<1>1. Len(q) \in Nat /\ Len(q) > 0 /\ \A i \in 1..Len(q) : q[i] \in S
  BY EmptySeq, LenProperties, ElementOfSeq
<1>2. /\ SubSeq(q, 1, Len(q) - 1) \in Seq(S)
      /\ Len(SubSeq(q, 1, Len(q) - 1)) = IF 1 <= Len(q) - 1 THEN (Len(q) - 1) - 1 + 1 ELSE 0
      /\ \A i \in 1..((Len(q) - 1) - 1 + 1) : SubSeq(q, 1, Len(q) - 1)[i] = q[1 + i - 1]
  BY <1>1, SubSeqProperties
<1>3. Len(Front(q)) = Len(q) - 1 /\ Front(q) \in Seq(S)
  <2>1. \A n \in Nat : n > 0 => (IF 1 <= n - 1 THEN (n - 1) - 1 + 1 ELSE 0) = n - 1
    OBVIOUS
  <2>2. Front(q) = SubSeq(q, 1, Len(q) - 1)
    BY DEF Front
  <2>3. QED
    BY <1>1, <1>2, <2>1, <2>2
<1>4. ASSUME NEW i \in 1..(Len(q) - 1) PROVE Front(q)[i] = q[i]
  <2>1. i \in 1..((Len(q) - 1) - 1 + 1) /\ 1 + i - 1 = i
    BY <1>1
  <2>2. QED
    BY <1>2, <2>1 DEF Front
<1>5. Len(q) \in 1..Len(q) /\ Last(q) = q[Len(q)]
  BY <1>1 DEF Last
<1>6. QED
  BY <1>1, <1>3, <1>4, <1>5

LEMMA FrameOf ==
  ASSUME NEW call \in {"building", "draining", "sweeping"}, NEW kind \in Kinds
  PROVE  Frame(call, kind) \in Call /\ Frame(call, kind).call = call /\ Frame(call, kind).key = kind
BY Sizes DEF Frame, Call

LEMMA TouchedType ==
  ASSUME TypeOK, NEW s \in Slot
  PROVE  Touched(s) \in [Slot -> SUBSET Slot]
BY Types DEF Touched

-----------------------------------------------------------------------------
(***************************************************************************)
(* What each action does, field by field.                                  *)
(***************************************************************************)
LEMMA CellWith ==
  ASSUME NEW c \in Cell, NEW n \in Nat
  PROVE  /\ [c EXCEPT !.uses = n] \in Cell /\ [c EXCEPT !.uses = n].for = c.for
         /\ [c EXCEPT !.uses = n].wrapper = c.wrapper /\ [c EXCEPT !.uses = n].uses = n
BY DEF Cell

\* One cell of the cache changes.
Puts(s, kind, w, uses) ==
  /\ cache' \in [Slot -> Cell]
  /\ cache'[s].for = kind /\ cache'[s].wrapper = w /\ cache'[s].uses = uses
  /\ \A t \in Slot \ {s} : cache'[t] = cache[t]

Counts(w, n) ==
  /\ shown' \in [Wrapper -> Nat]
  /\ shown'[w] = n /\ \A v \in Wrapper \ {w} : shown'[v] = shown[v]

Becomes(w, kind) ==
  /\ built' \in [Wrapper -> Kinds]
  /\ built'[w] = kind /\ \A v \in Wrapper \ {w} : built'[v] = built[v]

LEMMA HitDoes ==
  ASSUME TypeOK, NEW key \in Key, Hit(key)
  PROVE  /\ UNCHANGED <<deferred, stack, built>> /\ older' \in [Slot -> SUBSET Slot]
         /\ \E s \in Slot :
              /\ cache[s].wrapper \in Wrapper
              /\ Puts(s, cache[s].for, cache[s].wrapper, cache[s].uses + 1)
              /\ Counts(cache[s].wrapper, shown[cache[s].wrapper] + 1)
<1>1. PICK s \in Slot :
        /\ s \in Cached(key)
        /\ cache' = [cache EXCEPT ![s].uses = @ + 1]
        /\ older' = Touched(s)
        /\ shown' = [shown EXCEPT ![cache[s].wrapper] = @ + 1]
  BY DEF Hit, IsLeast
<1>2. cache[s] \in Cell /\ cache[s].wrapper \in Wrapper
  BY <1>1, Types DEF Cached, Cell
<1>3. Puts(s, cache[s].for, cache[s].wrapper, cache[s].uses + 1)
  <2>1. /\ cache' \in [Slot -> Cell] /\ cache'[s] = [cache[s] EXCEPT !.uses = cache[s].uses + 1]
        /\ \A t \in Slot \ {s} : cache'[t] = cache[t]
    <3>1. cache[s].uses + 1 \in Nat
      BY <1>2 DEF Cell
    <3>2. QED
      BY <1>1, <1>2, <3>1, CellWith, Types
  <2>2. QED
    BY <1>2, <2>1, CellWith DEF Puts, Cell
<1>4. Counts(cache[s].wrapper, shown[cache[s].wrapper] + 1)
  BY <1>1, <1>2, Types DEF Counts
<1>5. QED
  BY <1>1, <1>2, <1>3, <1>4, TouchedType DEF Hit

LEMMA MissDoes ==
  ASSUME TypeOK, NEW key \in Key, Miss(key)
  PROVE  /\ UNCHANGED <<cache, older, deferred, built, shown>>
         /\ \E frame \in Call : stack' = Append(stack, frame)
<1>1. {key} \in Kinds
  BY DEF Kinds
<1>2. QED
  BY <1>1, FrameOf DEF Miss

\* The list is empty, or its last wrapper is destroyed.
Drains(frames) ==
  \/ deferred = <<>> /\ stack' = frames /\ UNCHANGED <<deferred, built>>
  \/ /\ deferred # <<>> /\ deferred' = Front(deferred) /\ Becomes(Last(deferred), {})
     /\ \E frame \in Call : frame.call = "draining" /\ stack' = Append(frames, frame)

LEMMA DrainDoes ==
  ASSUME TypeOK, NEW frames, Drain(frames)
  PROVE  Drains(frames)
<1>1. CASE deferred = <<>>
  BY <1>1 DEF Drain, Drains
<1>2. CASE deferred # <<>>
  <2>1. Last(deferred) \in Wrapper /\ {} \in Kinds
    BY <1>2, FrontOf, Types DEF Kinds
  <2>2. Becomes(Last(deferred), {})
    BY <1>2, <2>1, Types DEF Drain, Becomes
  <2>3. QED
    BY <1>2, <2>1, <2>2, FrameOf DEF Drain, Drains
<1>3. QED
  BY <1>1, <1>2

-----------------------------------------------------------------------------
(***************************************************************************)
(* A new wrapper gets a slot of its key's partition that is vacant or that *)
(* no open menu uses, or none.                                             *)
(***************************************************************************)
InPartition(key, s) == (key \in Selected) = (s <= SelectedSlots)

LEMMA InstallableIs ==
  ASSUME TypeOK, NEW key \in Key, NEW s \in Installable(key)
  PROVE  /\ s \in Slot /\ InPartition(key, s)
         /\ \/ cache[s].wrapper = NoWrapper /\ Deferred(s) = deferred
            \/ /\ cache[s].wrapper # NoWrapper /\ cache[s].uses = 0
               /\ Deferred(s) = Append(deferred, cache[s].wrapper)
               /\ Len(Deferred(s)) <= Deferrable
<1>1. s \in Partition(key) /\ (cache[s].wrapper = NoWrapper \/ cache[s].uses = 0)
  BY DEF Installable, InstallSlots, Victim, IsLeast
<1>2. s \in Slot /\ InPartition(key, s)
  BY <1>1, Sizes, KeyAssumption DEF Partition, Slot, Key, InPartition
<1>3. QED
  BY <1>1, <1>2 DEF Installable, Deferred

LEMMA BuildDoes ==
  ASSUME TypeOK, Build
  PROVE  /\ stack # <<>> /\ Last(stack).call = "building" /\ stack' = Front(stack)
         /\ older' \in [Slot -> SUBSET Slot]
         /\ \E w \in Wrapper, key \in Key :
              /\ ~Exists(w) /\ Becomes(w, {key}) /\ Counts(w, 1)
              /\ \/ UNCHANGED <<cache, deferred>>
                 \/ \E s \in Slot :
                      /\ InPartition(key, s) /\ Puts(s, {key}, w, 1)
                      /\ \/ cache[s].wrapper = NoWrapper /\ UNCHANGED deferred
                         \/ /\ cache[s].wrapper \in Wrapper /\ cache[s].uses = 0
                            /\ deferred' = Append(deferred, cache[s].wrapper)
                            /\ Len(deferred') <= Deferrable
<1>1. stack # <<>> /\ Last(stack) \in Call
  BY FrontOf, Types DEF Build
<1>2. PICK w \in Wrapper, key \in Last(stack).key :
        /\ ~Exists(w)
        /\ \/ \E s \in Installable(key) :
                /\ deferred' = Deferred(s)
                /\ cache' = [cache EXCEPT ![s] = [for |-> {key}, wrapper |-> w, uses |-> 1]]
                /\ older' = Touched(s)
           \/ UNCHANGED <<cache, older, deferred>>
        /\ built' = [built EXCEPT ![w] = {key}] /\ shown' = [shown EXCEPT ![w] = 1]
  BY DEF Build
<1>3. key \in Key /\ {key} \in Kinds
  BY <1>1 DEF Call, Kinds
<1>4. Becomes(w, {key}) /\ Counts(w, 1)
  BY <1>2, <1>3, Types DEF Becomes, Counts
<1>5. CASE UNCHANGED <<cache, older, deferred>>
  BY <1>2, <1>3, <1>4, <1>5, Types DEF Build
<1>6. CASE \E s \in Installable(key) :
                /\ deferred' = Deferred(s)
                /\ cache' = [cache EXCEPT ![s] = [for |-> {key}, wrapper |-> w, uses |-> 1]]
                /\ older' = Touched(s)
  <2>1. PICK s \in Installable(key) :
          /\ deferred' = Deferred(s)
          /\ cache' = [cache EXCEPT ![s] = [for |-> {key}, wrapper |-> w, uses |-> 1]]
          /\ older' = Touched(s)
    BY <1>6
  <2>2. s \in Slot /\ cache[s].wrapper \in Wrapper \cup {NoWrapper}
    BY <1>3, InstallableIs, Types DEF Cell
  <2>3. [for |-> {key}, wrapper |-> w, uses |-> 1] \in Cell
    BY <1>3 DEF Cell
  <2>4. Puts(s, {key}, w, 1)
    BY <2>1, <2>2, <2>3, Types DEF Puts
  <2>5. \/ cache[s].wrapper = NoWrapper /\ UNCHANGED deferred
        \/ /\ cache[s].wrapper \in Wrapper /\ cache[s].uses = 0
           /\ deferred' = Append(deferred, cache[s].wrapper)
           /\ Len(deferred') <= Deferrable
    BY <1>3, <2>1, <2>2, InstallableIs
  <2>6. InPartition(key, s) /\ older' \in [Slot -> SUBSET Slot]
    BY <1>3, <2>1, <2>2, InstallableIs, TouchedType
  <2>7. stack' = Front(stack) /\ Last(stack).call = "building"
    BY DEF Build
  <2>8. QED
    BY <1>1, <1>2, <1>3, <1>4, <2>2, <2>4, <2>5, <2>6, <2>7
<1>7. QED
  BY <1>2, <1>5, <1>6

LEMMA BuildFailsDoes ==
  ASSUME BuildFails
  PROVE  /\ stack # <<>> /\ Last(stack).call = "building" /\ stack' = Front(stack)
         /\ UNCHANGED <<cache, older, deferred, built, shown>>
BY DEF BuildFails

-----------------------------------------------------------------------------
\* The first slot that holds the wrapper counts one menu less.
LEMMA RetainedIs ==
  ASSUME TypeOK, NEW w \in Wrapper
  PROVE  /\ Retained(w) \in [Slot -> Cell]
         /\ \A s \in Slot :
              /\ Retained(w)[s].for = cache[s].for /\ Retained(w)[s].wrapper = cache[s].wrapper
              /\ Retained(w)[s].uses =
                   IF IsLeast(s, Holds(w)) /\ cache[s].uses > 0 THEN cache[s].uses - 1 ELSE cache[s].uses
<1>1. ASSUME NEW s \in Slot
      PROVE  /\ Retained(w)[s] \in Cell
             /\ Retained(w)[s].for = cache[s].for /\ Retained(w)[s].wrapper = cache[s].wrapper
             /\ Retained(w)[s].uses =
                  IF IsLeast(s, Holds(w)) /\ cache[s].uses > 0 THEN cache[s].uses - 1 ELSE cache[s].uses
  <2>1. cache[s] \in Cell /\ cache[s].uses \in Nat
    BY Types DEF Cell
  <2>2. Retained(w)[s] = IF IsLeast(s, Holds(w)) /\ cache[s].uses > 0
                         THEN [cache[s] EXCEPT !.uses = cache[s].uses - 1] ELSE cache[s]
    BY DEF Retained
  <2>3. CASE IsLeast(s, Holds(w)) /\ cache[s].uses > 0
    <3>1. cache[s].uses - 1 \in Nat
      BY <2>1, <2>3
    <3>2. QED
      BY <2>1, <2>2, <2>3, <3>1, CellWith
  <2>4. CASE ~(IsLeast(s, Holds(w)) /\ cache[s].uses > 0)
    BY <2>1, <2>2, <2>4
  <2>5. QED
    BY <2>3, <2>4
<1>2. Retained(w) = [s \in Slot |-> Retained(w)[s]]
  BY DEF Retained
<1>3. QED
  BY <1>1, <1>2

\* The slots keep what they hold; the uses are as RetainedIs says.
LEMMA CloseDoes ==
  ASSUME TypeOK, NEW w \in Wrapper, Close(w)
  PROVE  /\ UNCHANGED older /\ cache' = Retained(w)
         /\ shown[w] > 0 /\ Counts(w, shown[w] - 1)
         /\ \/ InSlot(w) /\ Drains(stack)
            \/ /\ ~InSlot(w) /\ Becomes(w, {}) /\ UNCHANGED deferred
               /\ \E frame \in Call : frame.call = "draining" /\ stack' = Append(stack, frame)
<1>1. shown[w] > 0 /\ cache' = Retained(w) /\ UNCHANGED older
      /\ shown' = [shown EXCEPT ![w] = shown[w] - 1]
  BY DEF Close
<1>2. Counts(w, shown[w] - 1)
  <2>1. shown[w] - 1 \in Nat
    BY <1>1, Types
  <2>2. QED
    BY <1>1, <2>1, Types DEF Counts
<1>3. CASE Holds(w) # {}
  BY <1>1, <1>2, <1>3, DrainDoes DEF Close, Holds, InSlot
<1>4. CASE Holds(w) = {}
  <2>1. Becomes(w, {}) /\ {} \in Kinds
    BY <1>4, Types DEF Close, Becomes, Kinds
  <2>2. QED
    BY <1>1, <1>2, <1>4, <2>1, FrameOf DEF Close, Holds, InSlot
<1>5. QED
  BY <1>3, <1>4

\* A slot that no menu uses is emptied, its wrapper destroyed.
Sweeps(s, frames) ==
  /\ cache[s].wrapper \in Wrapper /\ cache[s].uses = 0
  /\ Puts(s, cache[s].for, NoWrapper, 0) /\ Becomes(cache[s].wrapper, {})
  /\ UNCHANGED deferred
  /\ \E frame \in Call : frame.call = "sweeping" /\ stack' = Append(frames, frame)

LEMMA SweepDoes ==
  ASSUME TypeOK, NEW from, NEW frames, Sweep(from, frames)
  PROVE  (Drains(frames) /\ UNCHANGED cache) \/ \E s \in Slot : Sweeps(s, frames)
<1>1. CASE Drain(frames) /\ UNCHANGED cache
  BY <1>1, DrainDoes
<1>2. ASSUME NEW s \in Slot, Sweepable(s), SweepOne(s, frames) PROVE Sweeps(s, frames)
  <2>1. cache[s] \in Cell /\ cache[s].wrapper \in Wrapper /\ cache[s].uses = 0 /\ {} \in Kinds
    BY <1>2, Types DEF Sweepable, Cell, Kinds
  <2>2. Becomes(cache[s].wrapper, {})
    BY <1>2, <2>1, Types DEF SweepOne, Becomes
  <2>3. /\ cache'[s] = [cache[s] EXCEPT !.wrapper = NoWrapper, !.uses = 0]
        /\ \A t \in Slot \ {s} : cache'[t] = cache[t] /\ cache' = [u \in Slot |-> cache'[u]]
    BY <1>2, Types DEF SweepOne
  <2>4. /\ cache'[s] \in Cell /\ cache'[s].for = cache[s].for
        /\ cache'[s].wrapper = NoWrapper /\ cache'[s].uses = 0
    BY <2>1, <2>3 DEF Cell
  <2>5. cache' \in [Slot -> Cell]
    <3>1. \A t \in Slot : cache'[t] \in Cell
      BY <2>3, <2>4, Types
    <3>2. cache' = [t \in Slot |-> cache'[t]]
      BY <1>2, Types DEF SweepOne
    <3>3. QED
      BY <3>1, <3>2
  <2>6. Puts(s, cache[s].for, NoWrapper, 0)
    BY <2>3, <2>4, <2>5 DEF Puts
  <2>7. \E frame \in Call : frame.call = "sweeping" /\ stack' = Append(frames, frame)
    <3>1. [Frame("sweeping", {}) EXCEPT !.next = s + 1] \in Call
          /\ [Frame("sweeping", {}) EXCEPT !.next = s + 1].call = "sweeping"
      BY <2>1, Sizes DEF Frame, Call
    <3>2. QED
      BY <1>2, <3>1 DEF SweepOne
  <2>8. QED
    BY <1>2, <2>1, <2>2, <2>6, <2>7 DEF Sweeps, SweepOne
<1>3. QED
  BY <1>1, <1>2 DEF Sweep

\* DrainOn, Maintain and SweepOn drain or sweep, from the stack as it is or
\* without the frame that has returned.
LEMMA ReleaseDoes ==
  ASSUME TypeOK, DrainOn \/ Maintain \/ SweepOn
  PROVE  /\ UNCHANGED <<older, shown>>
         /\ \E frames \in Seq(Call) :
              (Drains(frames) /\ UNCHANGED cache) \/ \E s \in Slot : Sweeps(s, frames)
<1>1. CASE DrainOn
  <2>1. Front(stack) \in Seq(Call)
    BY <1>1, FrontOf, Types DEF DrainOn
  <2>2. QED
    BY <1>1, <2>1, DrainDoes DEF DrainOn
<1>2. CASE Maintain
  BY <1>2, SweepDoes, Types DEF Maintain
<1>3. CASE SweepOn
  <2>1. Front(stack) \in Seq(Call)
    BY <1>3, FrontOf, Types DEF SweepOn
  <2>2. QED
    BY <1>3, <2>1, SweepDoes DEF SweepOn
<1>4. QED
  BY <1>1, <1>2, <1>3

-----------------------------------------------------------------------------
\* What a list holds when it gains or loses its last element.
LEMMA AppendLists ==
  ASSUME NEW S, NEW q \in Seq(S), NEW x \in S
  PROVE  /\ Append(q, x) \in Seq(S) /\ Listed(Append(q, x)) = Listed(q) \cup {x}
         /\ Distinct(q) /\ x \notin Listed(q) => Distinct(Append(q, x))
<1>1. /\ Append(q, x) \in Seq(S) /\ Len(Append(q, x)) = Len(q) + 1 /\ Len(q) \in Nat
      /\ Append(q, x)[Len(q) + 1] = x /\ \A i \in 1..Len(q) : Append(q, x)[i] = q[i]
  BY AppendProperties, LenProperties
<1>2. 1..(Len(q) + 1) = 1..Len(q) \cup {Len(q) + 1}
  BY <1>1
<1>3. QED
  BY <1>1, <1>2 DEF Listed, Distinct

LEMMA FrontLists ==
  ASSUME NEW S, NEW q \in Seq(S), q # <<>>
  PROVE  /\ Front(q) \in Seq(S) /\ Len(Front(q)) = Len(q) - 1
         /\ Last(q) \in Listed(q)
         /\ Distinct(q) => Distinct(Front(q)) /\ Listed(Front(q)) = Listed(q) \ {Last(q)}
<1>1. Len(q) \in Nat /\ 1..Len(q) = 1..(Len(q) - 1) \cup {Len(q)} /\ Len(q) \notin 1..(Len(q) - 1)
  BY LenProperties, FrontOf
<1>2. /\ Front(q) \in Seq(S) /\ Len(Front(q)) = Len(q) - 1 /\ Len(q) \in 1..Len(q)
      /\ Last(q) = q[Len(q)] /\ \A i \in 1..(Len(q) - 1) : Front(q)[i] = q[i] /\ i \in 1..Len(q)
  BY <1>1, FrontOf
<1>3. Listed(q) = Listed(Front(q)) \cup {Last(q)}
  <2>1. \A i \in 1..Len(q) : q[i] = Last(q) \/ \E j \in 1..Len(Front(q)) : q[i] = Front(q)[j]
    BY <1>1, <1>2
  <2>2. \A j \in 1..Len(Front(q)) : \E i \in 1..Len(q) : Front(q)[j] = q[i]
    BY <1>2
  <2>3. Last(q) \in Listed(q) /\ Listed(Front(q)) \subseteq Listed(q)
    BY <1>2, <2>2 DEF Listed
  <2>4. Listed(q) \subseteq Listed(Front(q)) \cup {Last(q)}
    BY <2>1 DEF Listed
  <2>5. QED
    BY <2>3, <2>4
<1>4. Distinct(q) => Distinct(Front(q)) /\ Last(q) \notin Listed(Front(q))
  BY <1>1, <1>2 DEF Listed, Distinct
<1>5. QED
  BY <1>2, <1>3, <1>4

LEMMA AppendReturns ==
  ASSUME NEW q \in Seq(Call), NEW frame \in Call
  PROVE  /\ Append(q, frame) \in Seq(Call)
         /\ Returning(q) \/ frame.call \in {"draining", "sweeping"} => Returning(Append(q, frame))
<1>1. /\ Append(q, frame) \in Seq(Call) /\ Len(Append(q, frame)) = Len(q) + 1 /\ Len(q) \in Nat
      /\ Append(q, frame)[Len(q) + 1] = frame /\ \A i \in 1..Len(q) : Append(q, frame)[i] = q[i]
  BY AppendProperties, LenProperties
<1>2. 1..(Len(q) + 1) = 1..Len(q) \cup {Len(q) + 1}
  BY <1>1
<1>3. QED
  BY <1>1, <1>2 DEF Returning

LEMMA FrontReturns ==
  ASSUME NEW q \in Seq(Call), q # <<>>, Last(q).call = "building", Returning(q)
  PROVE  Returning(Front(q))
<1>1. Len(q) \in Nat /\ 1..Len(q) = 1..(Len(q) - 1) \cup {Len(q)}
  BY LenProperties, FrontOf
<1>2. QED
  BY <1>1, FrontOf DEF Returning

-----------------------------------------------------------------------------
\* What a drain does to the list and to the wrappers.
LEMMA DrainsIs ==
  ASSUME TypeOK, Distinct(deferred), NEW frames \in Seq(Call), Drains(frames)
  PROVE  /\ deferred' \in Seq(Wrapper) /\ Len(deferred') <= Deferrable /\ Distinct(deferred')
         /\ stack' \in Seq(Call) /\ (deferred' = <<>> \/ Returning(stack'))
         /\ built' \in [Wrapper -> Kinds]
         /\ \/ UNCHANGED <<deferred, built>>
            \/ \E e \in Wrapper :
                 /\ Waiting(e) /\ Becomes(e, {}) /\ Listed(deferred') = Listed(deferred) \ {e}
<1>1. CASE deferred = <<>>
  BY <1>1, Types DEF Drains
<1>2. CASE deferred # <<>>
  <2>1. /\ Last(deferred) \in Wrapper /\ Waiting(Last(deferred)) /\ deferred' = Front(deferred)
        /\ deferred' \in Seq(Wrapper) /\ Len(deferred') = Len(deferred) - 1
        /\ Distinct(deferred') /\ Listed(deferred') = Listed(deferred) \ {Last(deferred)}
    BY <1>2, FrontLists, FrontOf, Types DEF Drains, Waiting
  <2>2. Len(deferred') <= Deferrable
    BY <2>1, Types, LenProperties, Sizes
  <2>3. stack' \in Seq(Call) /\ Returning(stack')
    BY <1>2, AppendReturns DEF Drains
  <2>4. Becomes(Last(deferred), {}) /\ built' \in [Wrapper -> Kinds]
    BY <1>2 DEF Drains, Becomes
  <2>5. QED
    BY <2>1, <2>2, <2>3, <2>4
<1>3. QED
  BY <1>1, <1>2

\* What the deferral of an evicted wrapper does to the list.
LEMMA DefersIs ==
  ASSUME TypeOK, Distinct(deferred), NEW e \in Wrapper, ~Waiting(e),
         deferred' = Append(deferred, e)
  PROVE  /\ deferred' \in Seq(Wrapper) /\ Distinct(deferred')
         /\ Listed(deferred') = Listed(deferred) \cup {e}
BY AppendLists, Types DEF Waiting

-----------------------------------------------------------------------------
(***************************************************************************)
(* Types are kept, and no step ends with a deferred wrapper and no call to *)
(* drain the list nor a menu to be closed.                                 *)
(***************************************************************************)
LEMMA TypeStep ==
  ASSUME TypeOK, Apart, [Next]_vars
  PROVE  TypeOK' /\ (Due => Due')
<1>a. Distinct(deferred)
  BY DEF Apart
<1>b. /\ cache \in [Slot -> Cell] /\ older \in [Slot -> SUBSET Slot]
      /\ deferred \in Seq(Wrapper) /\ Len(deferred) <= Deferrable /\ stack \in Seq(Call)
      /\ built \in [Wrapper -> Kinds] /\ shown \in [Wrapper -> Nat]
  BY Types
<1>c. ASSUME cache' \in [Slot -> Cell], older' \in [Slot -> SUBSET Slot],
             deferred' \in Seq(Wrapper), Len(deferred') <= Deferrable, stack' \in Seq(Call),
             built' \in [Wrapper -> Kinds], shown' \in [Wrapper -> Nat]
      PROVE  TypeOK'
  BY <1>c DEF TypeOK, Cell, Call, Kinds
<1>1. ASSUME NEW key \in Key, Hit(key) PROVE TypeOK' /\ (Due => Due')
  <2>1. PICK s \in Slot :
          /\ cache[s].wrapper \in Wrapper
          /\ Puts(s, cache[s].for, cache[s].wrapper, cache[s].uses + 1)
          /\ Counts(cache[s].wrapper, shown[cache[s].wrapper] + 1)
    BY <1>1, HitDoes
  <2>2. TypeOK'
    BY <1>1, <1>b, <1>c, <2>1, HitDoes DEF Puts, Counts
  <2>3. shown'[cache[s].wrapper] > 0
    BY <1>b, <2>1 DEF Counts
  <2>4. QED
    BY <2>1, <2>2, <2>3 DEF Due
<1>2. ASSUME NEW key \in Key, Miss(key) PROVE TypeOK' /\ (Due => Due')
  <2>1. PICK frame \in Call : stack' = Append(stack, frame)
    BY <1>2, MissDoes
  <2>2. stack' \in Seq(Call) /\ (Returning(stack) => Returning(stack'))
    BY <1>b, <2>1, AppendReturns
  <2>3. QED
    BY <1>2, <1>b, <1>c, <2>2, MissDoes DEF Due
<1>3. ASSUME NEW w \in Wrapper, Close(w) PROVE TypeOK' /\ (Due => Due')
  <2>1. cache' \in [Slot -> Cell] /\ UNCHANGED older /\ shown' \in [Wrapper -> Nat]
    BY <1>3, CloseDoes, RetainedIs DEF Counts
  <2>2. CASE Drains(stack)
    BY <1>a, <1>b, <1>c, <2>1, <2>2, DrainsIs DEF Due
  <2>3. CASE /\ Becomes(w, {}) /\ UNCHANGED deferred
             /\ \E frame \in Call : frame.call = "draining" /\ stack' = Append(stack, frame)
    <3>1. stack' \in Seq(Call) /\ Returning(stack')
      BY <1>b, <2>3, AppendReturns
    <3>2. built' \in [Wrapper -> Kinds]
      BY <2>3 DEF Becomes
    <3>3. QED
      BY <1>b, <1>c, <2>1, <2>3, <3>1, <3>2 DEF Due
  <2>4. QED
    BY <1>3, <2>2, <2>3, CloseDoes
<1>4. CASE Build
  <2>1. stack' \in Seq(Call) /\ older' \in [Slot -> SUBSET Slot]
    BY <1>4, <1>b, BuildDoes, FrontOf
  <2>2. PICK w \in Wrapper, key \in Key :
          /\ Becomes(w, {key}) /\ Counts(w, 1)
          /\ \/ UNCHANGED <<cache, deferred>>
             \/ \E s \in Slot :
                  /\ Puts(s, {key}, w, 1)
                  /\ \/ UNCHANGED deferred
                     \/ /\ cache[s].wrapper \in Wrapper
                        /\ deferred' = Append(deferred, cache[s].wrapper)
                        /\ Len(deferred') <= Deferrable
    BY <1>4, BuildDoes
  <2>3. deferred' \in Seq(Wrapper) /\ Len(deferred') <= Deferrable /\ cache' \in [Slot -> Cell]
    <3>1. deferred' \in Seq(Wrapper) /\ Len(deferred') <= Deferrable
      <4>1. \/ UNCHANGED deferred
            \/ \E e \in Wrapper : deferred' = Append(deferred, e) /\ Len(deferred') <= Deferrable
        BY <2>2
      <4>2. CASE UNCHANGED deferred
        BY <1>b, <4>2
      <4>3. ASSUME NEW e \in Wrapper, deferred' = Append(deferred, e), Len(deferred') <= Deferrable
            PROVE  deferred' \in Seq(Wrapper) /\ Len(deferred') <= Deferrable
        <5>1. Append(deferred, e) \in Seq(Wrapper)
          BY <1>b, AppendLists
        <5>2. QED
          BY <4>3, <5>1
      <4>4. QED
        BY <4>1, <4>2, <4>3
    <3>2. cache' \in [Slot -> Cell]
      BY <1>b, <2>2 DEF Puts
    <3>3. QED
      BY <3>1, <3>2
  <2>4. built' \in [Wrapper -> Kinds] /\ shown' \in [Wrapper -> Nat] /\ shown'[w] > 0
    BY <2>2 DEF Becomes, Counts
  <2>5. QED
    BY <1>c, <2>1, <2>3, <2>4 DEF Due
<1>5. CASE BuildFails
  <2>1. stack' \in Seq(Call) /\ (Returning(stack) => Returning(stack'))
    BY <1>5, <1>b, BuildFailsDoes, FrontOf, FrontReturns
  <2>2. QED
    BY <1>5, <1>b, <1>c, <2>1, BuildFailsDoes DEF Due
<1>6. CASE DrainOn \/ Maintain \/ SweepOn
  <2>1. PICK frames \in Seq(Call) :
          (Drains(frames) /\ UNCHANGED cache) \/ \E s \in Slot : Sweeps(s, frames)
    BY <1>6, ReleaseDoes
  <2>2. UNCHANGED <<older, shown>>
    BY <1>6, ReleaseDoes
  <2>3. CASE Drains(frames) /\ UNCHANGED cache
    BY <1>a, <1>b, <1>c, <2>2, <2>3, DrainsIs DEF Due
  <2>4. ASSUME NEW s \in Slot, Sweeps(s, frames) PROVE TypeOK' /\ (Due => Due')
    <3>1. stack' \in Seq(Call) /\ Returning(stack')
      BY <2>4, AppendReturns DEF Sweeps
    <3>2. built' \in [Wrapper -> Kinds] /\ cache' \in [Slot -> Cell] /\ UNCHANGED deferred
      BY <2>4 DEF Sweeps, Becomes, Puts
    <3>3. QED
      BY <1>b, <1>c, <2>2, <3>1, <3>2 DEF Due
  <2>5. QED
    BY <2>1, <2>3, <2>4
<1>7. CASE UNCHANGED vars
  BY <1>7 DEF vars, TypeOK, Due
<1>8. QED
  BY <1>1, <1>2, <1>3, <1>4, <1>5, <1>6, <1>7 DEF Next

-----------------------------------------------------------------------------
(***************************************************************************)
(* Every wrapper keeps one owner, every slot its count and its key.        *)
(***************************************************************************)
Owned == Apart /\ Kept /\ Alone /\ UsesCounted /\ SlotsSound

\* What the parts say, in the terms of the steps.
LEMMA OwnedIs ==
  ASSUME TypeOK, Owned
  PROVE  /\ \A s, t \in Slot : cache[s].wrapper = cache[t].wrapper => s = t \/ cache[s].wrapper = NoWrapper
         /\ Distinct(deferred)
         /\ \A s \in Slot : cache[s].wrapper # NoWrapper =>
              /\ cache[s].wrapper \in Wrapper /\ InSlot(cache[s].wrapper) /\ ~Waiting(cache[s].wrapper)
              /\ cache[s].uses = shown[cache[s].wrapper]
         /\ \A s \in Slot : cache[s].wrapper = NoWrapper => cache[s].uses = 0
         /\ \A w \in Wrapper : Waiting(w) => ~InSlot(w) /\ shown[w] = 0
         /\ \A w \in Wrapper : Exists(w) <=> InSlot(w) \/ Waiting(w) \/ shown[w] > 0
         /\ \A w \in Wrapper : shown[w] <= 1 \/ InSlot(w)
         /\ \A w \in Wrapper : shown[w] \in Nat
<1>1. \A s \in Slot : cache[s].wrapper \in Wrapper \cup {NoWrapper}
  BY Types DEF Cell
<1>2. \A s \in Slot : cache[s].wrapper # NoWrapper =>
        cache[s].wrapper \in Wrapper /\ InSlot(cache[s].wrapper) /\ ~Waiting(cache[s].wrapper)
  BY <1>1 DEF Owned, Apart, InSlot
<1>3. QED
  BY <1>2, Types DEF Owned, Apart, Kept, Alone, UsesCounted

LEMMA HitOwned ==
  ASSUME TypeOK, Owned, NEW key \in Key, Hit(key)
  PROVE  Owned'
<1>1. PICK s \in Slot :
        /\ cache[s].wrapper \in Wrapper
        /\ Puts(s, cache[s].for, cache[s].wrapper, cache[s].uses + 1)
        /\ Counts(cache[s].wrapper, shown[cache[s].wrapper] + 1)
  BY HitDoes
<1>2. UNCHANGED <<deferred, built>>
  BY HitDoes
<1>3. \A t \in Slot : /\ cache'[t].wrapper = cache[t].wrapper /\ cache'[t].for = cache[t].for
                      /\ cache'[t].uses = IF t = s THEN cache[s].uses + 1 ELSE cache[t].uses
  BY <1>1 DEF Puts
<1>4. \A w \in Wrapper : (InSlot(w)' <=> InSlot(w)) /\ (Waiting(w)' <=> Waiting(w)) /\ (Exists(w)' <=> Exists(w))
  BY <1>2, <1>3 DEF InSlot, Waiting, Exists
<1>5. cache[s].wrapper # NoWrapper /\ InSlot(cache[s].wrapper) /\ ~Waiting(cache[s].wrapper)
  BY <1>1, OwnedIs, WrapperAssumption
<1>6. \A w \in Wrapper : shown'[w] = IF w = cache[s].wrapper THEN shown[w] + 1 ELSE shown[w]
  BY <1>1 DEF Counts
<1>7. Apart'
  BY <1>2, <1>3, <1>4, <1>5, <1>6, OwnedIs DEF Apart
<1>8. Kept' /\ Alone'
  BY <1>4, <1>5, <1>6, OwnedIs DEF Kept, Alone
<1>9. UsesCounted'
  BY <1>3, <1>5, <1>6, OwnedIs DEF UsesCounted
<1>10. SlotsSound'
  BY <1>2, <1>3 DEF SlotsSound, Owned
<1>11. QED
  BY <1>7, <1>8, <1>9, <1>10 DEF Owned

\* Neither the list nor the wrappers change but for a drain, and the slots
\* keep what they hold; shown and the uses stay, or one menu is closed.
LEMMA DrainOwned ==
  ASSUME TypeOK, Owned, NEW frames \in Seq(Call), Drains(frames),
         \A s \in Slot : cache'[s].wrapper = cache[s].wrapper /\ cache'[s].for = cache[s].for,
         UsesCounted',
         \A w \in Wrapper : shown'[w] \in Nat /\ shown'[w] <= shown[w] /\ (shown'[w] = shown[w] \/ InSlot(w))
  PROVE  Owned'
<1>1. Distinct(deferred)
  BY OwnedIs
<1>2. \/ UNCHANGED <<deferred, built>>
      \/ \E e \in Wrapper :
           /\ Waiting(e) /\ Becomes(e, {}) /\ Listed(deferred') = Listed(deferred) \ {e}
  BY <1>1, DrainsIs
<1>3. \A w \in Wrapper : InSlot(w)' <=> InSlot(w)
  BY DEF InSlot
<1>4. Distinct(deferred')
  BY <1>1, DrainsIs
<1>5. CASE UNCHANGED <<deferred, built>>
  <2>1. \A w \in Wrapper : (Waiting(w)' <=> Waiting(w)) /\ (Exists(w)' <=> Exists(w))
    BY <1>5 DEF Waiting, Exists
  <2>2. Apart'
    BY <1>3, <1>4, <2>1, OwnedIs DEF Apart
  <2>3. Kept' /\ Alone'
    BY <1>3, <2>1, OwnedIs DEF Kept, Alone
  <2>4. SlotsSound'
    BY <1>5 DEF SlotsSound, Owned
  <2>5. QED
    BY <2>2, <2>3, <2>4 DEF Owned
<1>6. ASSUME NEW e \in Wrapper, Waiting(e), Becomes(e, {}), Listed(deferred') = Listed(deferred) \ {e}
      PROVE  Owned'
  <2>1. \A w \in Wrapper : /\ Waiting(w)' <=> Waiting(w) /\ w # e
                           /\ Exists(w)' <=> Exists(w) /\ w # e
    BY <1>6 DEF Waiting, Exists, Becomes
  <2>2. ~InSlot(e) /\ shown[e] = 0
    BY <1>6, OwnedIs
  <2>3. Apart'
    BY <1>3, <1>4, <2>1, OwnedIs DEF Apart
  <2>4. Kept' /\ Alone'
    BY <1>3, <2>1, <2>2, OwnedIs DEF Kept, Alone
  <2>5. SlotsSound'
    <3>1. \A s \in Slot : cache[s].wrapper # NoWrapper => cache[s].wrapper \in Wrapper \ {e}
      BY <2>2, OwnedIs
    <3>2. QED
      BY <1>6, <3>1 DEF SlotsSound, Owned, Becomes
  <2>6. QED
    BY <2>3, <2>4, <2>5 DEF Owned
<1>7. QED
  BY <1>2, <1>5, <1>6

LEMMA CloseOwned ==
  ASSUME TypeOK, Owned, NEW w \in Wrapper, Close(w)
  PROVE  Owned'
<1>1. /\ shown[w] > 0 /\ Counts(w, shown[w] - 1) /\ cache' = Retained(w)
      /\ \/ InSlot(w) /\ Drains(stack)
         \/ ~InSlot(w) /\ Becomes(w, {}) /\ UNCHANGED deferred
  BY CloseDoes
<1>2. \A s \in Slot :
        /\ cache'[s].for = cache[s].for /\ cache'[s].wrapper = cache[s].wrapper
        /\ cache'[s].uses =
             IF IsLeast(s, Holds(w)) /\ cache[s].uses > 0 THEN cache[s].uses - 1 ELSE cache[s].uses
  BY <1>1, RetainedIs
<1>3. \A v \in Wrapper : shown'[v] = IF v = w THEN shown[w] - 1 ELSE shown[v]
  BY <1>1 DEF Counts
<1>4. UsesCounted'
  <2>1. ASSUME NEW s \in Slot, cache[s].wrapper = w PROVE cache'[s].uses = shown'[w]
    <3>1. IsLeast(s, Holds(w))
      BY <2>1, OwnedIs, WrapperAssumption, Sizes DEF IsLeast, Holds
    <3>2. cache[s].uses = shown[w]
      BY <2>1, OwnedIs, WrapperAssumption
    <3>3. QED
      BY <1>1, <1>2, <1>3, <3>1, <3>2
  <2>2. ASSUME NEW s \in Slot, cache[s].wrapper # w PROVE cache'[s].uses = cache[s].uses
    <3>1. ~IsLeast(s, Holds(w))
      BY <2>2 DEF IsLeast, Holds
    <3>2. QED
      BY <1>2, <3>1
  <2>3. QED
    BY <1>2, <1>3, <2>1, <2>2, OwnedIs DEF UsesCounted
<1>5. \A v \in Wrapper : InSlot(v)' <=> InSlot(v)
  BY <1>2 DEF InSlot
<1>6. CASE InSlot(w) /\ Drains(stack)
  <2>1. \A v \in Wrapper : shown'[v] \in Nat /\ shown'[v] <= shown[v] /\ (shown'[v] = shown[v] \/ InSlot(v))
    BY <1>1, <1>3, <1>6, OwnedIs
  <2>2. QED
    BY <1>2, <1>4, <1>6, <2>1, DrainOwned, Types
<1>7. CASE ~InSlot(w) /\ Becomes(w, {}) /\ UNCHANGED deferred
  <2>1. \A v \in Wrapper : /\ Waiting(v)' <=> Waiting(v)
                           /\ Exists(v)' <=> Exists(v) /\ v # w
    BY <1>7 DEF Waiting, Exists, Becomes
  <2>2. shown'[w] = 0 /\ ~Waiting(w)
    BY <1>1, <1>3, <1>7, OwnedIs
  <2>3. Apart'
    BY <1>2, <1>3, <1>5, <1>7, <2>1, <2>2, OwnedIs DEF Apart
  <2>4. Kept' /\ Alone'
    BY <1>3, <1>5, <1>7, <2>1, <2>2, OwnedIs DEF Kept, Alone
  <2>5. SlotsSound'
    <3>1. \A s \in Slot : cache[s].wrapper # NoWrapper => cache[s].wrapper \in Wrapper \ {w}
      BY <1>7, OwnedIs
    <3>2. QED
      BY <1>2, <1>7, <3>1 DEF SlotsSound, Owned, Becomes
  <2>6. QED
    BY <1>4, <2>3, <2>4, <2>5 DEF Owned
<1>8. QED
  BY <1>1, <1>6, <1>7

\* A slot is emptied that no menu uses: so none shows its wrapper.
LEMMA SweepOwned ==
  ASSUME TypeOK, Owned, NEW s \in Slot, NEW frames, Sweeps(s, frames), UNCHANGED shown
  PROVE  Owned'
<1> DEFINE e == cache[s].wrapper
<1>1. /\ e \in Wrapper /\ e # NoWrapper /\ InSlot(e) /\ ~Waiting(e) /\ shown[e] = 0
      /\ \A t \in Slot : cache[t].wrapper = e => t = s
  BY OwnedIs, WrapperAssumption DEF Sweeps
<1>2. \A t \in Slot : /\ cache'[t].wrapper = IF t = s THEN NoWrapper ELSE cache[t].wrapper
                      /\ cache'[t].for = cache[t].for
                      /\ cache'[t].uses = IF t = s THEN 0 ELSE cache[t].uses
  BY DEF Sweeps, Puts
<1>3. \A w \in Wrapper : /\ Waiting(w)' <=> Waiting(w)
                         /\ Exists(w)' <=> Exists(w) /\ w # e
                         /\ w # e => built'[w] = built[w]
  BY DEF Sweeps, Waiting, Exists, Becomes
<1>4. \A w \in Wrapper : InSlot(w)' <=> InSlot(w) /\ w # e
  BY <1>1, <1>2, WrapperAssumption DEF InSlot
<1> HIDE DEF e
<1>5. Apart'
  BY <1>1, <1>2, <1>3, <1>4, OwnedIs DEF Apart, Sweeps
<1>6. Kept' /\ Alone'
  BY <1>1, <1>3, <1>4, OwnedIs DEF Kept, Alone
<1>7. UsesCounted'
  BY <1>2, OwnedIs DEF UsesCounted
<1>8. SlotsSound'
  BY <1>1, <1>2, <1>3, OwnedIs DEF SlotsSound, Owned
<1>9. QED
  BY <1>5, <1>6, <1>7, <1>8 DEF Owned

\* The wrapper is new, so nobody owned it; one that it evicts goes from its
\* slot to the list, and no menu shows it.
LEMMA BuildOwned ==
  ASSUME TypeOK, Owned, Build
  PROVE  Owned'
<1>1. PICK w \in Wrapper, key \in Key :
        /\ ~Exists(w) /\ Becomes(w, {key}) /\ Counts(w, 1)
        /\ \/ UNCHANGED <<cache, deferred>>
           \/ \E s \in Slot :
                /\ InPartition(key, s) /\ Puts(s, {key}, w, 1)
                /\ \/ cache[s].wrapper = NoWrapper /\ UNCHANGED deferred
                   \/ /\ cache[s].wrapper \in Wrapper /\ cache[s].uses = 0
                      /\ deferred' = Append(deferred, cache[s].wrapper)
  BY BuildDoes
<1>2. ~InSlot(w) /\ ~Waiting(w) /\ shown[w] = 0 /\ w # NoWrapper
  BY <1>1, OwnedIs, WrapperAssumption
<1>3. \A v \in Wrapper : /\ shown'[v] = IF v = w THEN 1 ELSE shown[v]
                         /\ Exists(v)' <=> Exists(v) \/ v = w
                         /\ v # w => built'[v] = built[v]
  BY <1>1 DEF Counts, Becomes, Exists
<1>4. built'[w] = {key}
  BY <1>1 DEF Becomes
<1>5. CASE UNCHANGED <<cache, deferred>>
  <2>1. \A v \in Wrapper : (InSlot(v)' <=> InSlot(v)) /\ (Waiting(v)' <=> Waiting(v))
    BY <1>5 DEF InSlot, Waiting
  <2>2. Apart'
    BY <1>2, <1>3, <1>5, <2>1, OwnedIs DEF Apart
  <2>3. Kept' /\ Alone'
    BY <1>2, <1>3, <2>1, OwnedIs DEF Kept, Alone
  <2>4. \A s \in Slot : cache[s].wrapper # NoWrapper => cache[s].wrapper \in Wrapper \ {w}
    BY <1>2, OwnedIs
  <2>5. UsesCounted' /\ SlotsSound'
    BY <1>3, <1>5, <2>4 DEF UsesCounted, SlotsSound, Owned
  <2>6. QED
    BY <2>2, <2>3, <2>5 DEF Owned
<1>6. ASSUME NEW s \in Slot, InPartition(key, s), Puts(s, {key}, w, 1),
             \/ cache[s].wrapper = NoWrapper /\ UNCHANGED deferred
             \/ /\ cache[s].wrapper \in Wrapper /\ cache[s].uses = 0
                /\ deferred' = Append(deferred, cache[s].wrapper)
      PROVE  Owned'
  <2> DEFINE e == cache[s].wrapper
  <2>1. /\ \A t \in Slot : /\ cache'[t].wrapper = IF t = s THEN w ELSE cache[t].wrapper
                           /\ cache'[t].for = IF t = s THEN {key} ELSE cache[t].for
                           /\ cache'[t].uses = IF t = s THEN 1 ELSE cache[t].uses
        /\ \A t \in Slot \ {s} : cache[t].wrapper = e => e = NoWrapper
        /\ \A t \in Slot : cache[t].wrapper # NoWrapper => cache[t].wrapper \in Wrapper \ {w}
    BY <1>2, <1>6, OwnedIs DEF Puts
  <2>2. e # NoWrapper => e \in Wrapper /\ InSlot(e) /\ ~Waiting(e) /\ shown[e] = 0 /\ e # w
    BY <1>2, <1>6, OwnedIs
  <2>3. \A v \in Wrapper : Waiting(v)' <=> Waiting(v) \/ v = e
    <3>1. CASE e = NoWrapper /\ UNCHANGED deferred
      BY <3>1, WrapperAssumption DEF Waiting
    <3>2. CASE e \in Wrapper /\ deferred' = Append(deferred, e)
      <4>1. Listed(deferred') = Listed(deferred) \cup {e}
        BY <2>2, <3>2, OwnedIs, DefersIs, WrapperAssumption
      <4>2. QED
        BY <4>1 DEF Waiting
    <3>3. QED
      BY <1>6, <3>1, <3>2
  <2>4. Distinct(deferred')
    <3>1. CASE e = NoWrapper /\ UNCHANGED deferred
      BY <3>1, OwnedIs
    <3>2. CASE e \in Wrapper /\ deferred' = Append(deferred, e)
      BY <2>2, <3>2, OwnedIs, DefersIs, WrapperAssumption
    <3>3. QED
      BY <1>6, <3>1, <3>2
  <2>5. \A v \in Wrapper : InSlot(v)' <=> (InSlot(v) /\ v # e) \/ v = w
    BY <1>2, <2>1, WrapperAssumption DEF InSlot
  <2> HIDE DEF e
  <2>6. Apart'
    <3>1. \A v \in Wrapper : Waiting(v)' => ~InSlot(v)' /\ shown'[v] = 0
      BY <1>2, <1>3, <2>2, <2>3, <2>5, OwnedIs, WrapperAssumption
    <3>2. \A t, u \in Slot : cache'[t].wrapper = cache'[u].wrapper => t = u \/ cache'[t].wrapper = NoWrapper
      BY <2>1, OwnedIs
    <3>3. QED
      BY <2>4, <3>1, <3>2 DEF Apart
  <2>7. Kept' /\ Alone'
    <3>1. \A v \in Wrapper : Exists(v)' <=> InSlot(v)' \/ Waiting(v)' \/ shown'[v] > 0
      BY <1>2, <1>3, <2>2, <2>3, <2>5, OwnedIs, WrapperAssumption
    <3>2. \A v \in Wrapper : shown'[v] <= 1 \/ InSlot(v)'
      BY <1>2, <1>3, <2>2, <2>5, OwnedIs, WrapperAssumption
    <3>3. QED
      BY <3>1, <3>2 DEF Kept, Alone
  <2>8. UsesCounted'
    BY <1>2, <1>3, <2>1, OwnedIs DEF UsesCounted
  <2>9. SlotsSound'
    <3>1. ASSUME NEW t \in Slot \ {s}, cache'[t].wrapper # NoWrapper
          PROVE  /\ cache'[t].for = built'[cache'[t].wrapper]
                 /\ \A k \in cache'[t].for : (k \in Selected) = (t <= SelectedSlots)
      BY <1>3, <2>1, <3>1 DEF SlotsSound, Owned
    <3>2. /\ cache'[s].for = built'[cache'[s].wrapper]
          /\ \A k \in cache'[s].for : (k \in Selected) = (s <= SelectedSlots)
      BY <1>4, <1>6, <2>1 DEF InPartition
    <3>3. QED
      BY <3>1, <3>2 DEF SlotsSound
  <2>10. QED
    BY <2>6, <2>7, <2>8, <2>9 DEF Owned
<1>7. QED
  BY <1>1, <1>5, <1>6

LEMMA OwnedStep ==
  ASSUME TypeOK, Owned, [Next]_vars
  PROVE  Owned'
<1>1. CASE DrainOn \/ Maintain \/ SweepOn
  <2>1. PICK frames \in Seq(Call) :
          (Drains(frames) /\ UNCHANGED cache) \/ \E s \in Slot : Sweeps(s, frames)
    BY <1>1, ReleaseDoes
  <2>2. UNCHANGED shown
    BY <1>1, ReleaseDoes
  <2>3. CASE Drains(frames) /\ UNCHANGED cache
    <3>1. UsesCounted'
      BY <2>2, <2>3 DEF UsesCounted, Owned
    <3>2. \A w \in Wrapper : shown'[w] \in Nat /\ shown'[w] <= shown[w] /\ (shown'[w] = shown[w] \/ InSlot(w))
      BY <2>2, Types
    <3>3. QED
      BY <2>3, <3>1, <3>2, DrainOwned
  <2>4. QED
    BY <2>1, <2>2, <2>3, SweepOwned
<1>2. CASE UNCHANGED <<cache, deferred, built, shown>>
  BY <1>2 DEF Owned, Apart, Kept, Alone, UsesCounted, SlotsSound, InSlot, Waiting, Exists
<1>3. CASE (\E key \in Key : Miss(key)) \/ BuildFails \/ UNCHANGED vars
  BY <1>2, <1>3 DEF Miss, BuildFails, vars
<1>4. QED
  BY <1>1, <1>3, HitOwned, CloseOwned, BuildOwned DEF Next

-----------------------------------------------------------------------------
LEMMA MenuInit == Init => MenuInv
<1>1. SUFFICES ASSUME Init PROVE MenuInv
  OBVIOUS
<1>2. Vacated \in Cell /\ Vacated.wrapper = NoWrapper /\ Vacated.uses = 0
  BY DEF Vacated, Cell, Kinds
<1>3. TypeOK
  <2>1. /\ cache \in [Slot -> Cell] /\ older \in [Slot -> SUBSET Slot]
        /\ built \in [Wrapper -> Kinds] /\ shown \in [Wrapper -> Nat]
    BY <1>1, <1>2 DEF Init, Kinds
  <2>2. deferred \in Seq(Wrapper) /\ Len(deferred) <= Deferrable /\ stack \in Seq(Call)
    BY <1>1, EmptySeq, Sizes DEF Init
  <2>3. QED
    BY <2>1, <2>2, TypesBack
<1>4. /\ \A s \in Slot : cache[s].wrapper = NoWrapper /\ cache[s].uses = 0
      /\ \A w \in Wrapper : ~InSlot(w) /\ ~Waiting(w) /\ ~Exists(w) /\ shown[w] = 0
      /\ Distinct(deferred)
  BY <1>1, <1>2, WrapperAssumption DEF Init, InSlot, Waiting, Listed, Exists, Distinct
<1>5. Apart /\ Kept /\ Alone /\ UsesCounted /\ SlotsSound
  BY <1>4 DEF Apart, Kept, Alone, UsesCounted, SlotsSound
<1>6. QED
  BY <1>1, <1>3, <1>5 DEF MenuInv, Due, Init

LEMMA MenuStep == MenuInv /\ [Next]_vars => MenuInv'
BY TypeStep, OwnedStep DEF MenuInv, Owned

-----------------------------------------------------------------------------
(***************************************************************************)
(* No menu that FilePilot shows is destroyed, however deep the Shell       *)
(* re-enters: neither eviction, nor a drain, nor the timer's sweep touches *)
(* a wrapper that is shown.                                                *)
(***************************************************************************)
THEOREM ShownMenusExist == Spec => []ShownExist
<1>1. MenuInv => ShownExist
  BY Types DEF MenuInv, Kept, ShownExist
<1>2. QED
  BY <1>1, MenuInit, MenuStep, PTL DEF Spec

\* Apart and Kept in numbers: OwnedOnce.
LEMMA OneOwner ==
  ASSUME MenuInv
  PROVE  OwnedOnce
<1>1. SUFFICES ASSUME NEW w \in Wrapper PROVE Owners(w) = IF Exists(w) THEN 1 ELSE 0
  BY DEF OwnedOnce
<1>a. TypeOK /\ Owned
  BY DEF MenuInv, Owned
<1> DEFINE places == {i \in 1..Len(deferred) : deferred[i] = w}
<1>2. Cardinality(Holds(w)) = IF InSlot(w) THEN 1 ELSE 0
  <2>1. CASE InSlot(w)
    <3>1. PICK s \in Slot : cache[s].wrapper = w
      BY <2>1 DEF InSlot
    <3>2. Holds(w) = {s}
      BY <1>a, <3>1, OwnedIs, WrapperAssumption DEF Holds
    <3>3. QED
      BY <2>1, <3>2, FS_Singleton
  <2>2. CASE ~InSlot(w)
    <3>1. Holds(w) = {}
      BY <2>2 DEF InSlot, Holds
    <3>2. QED
      BY <2>2, <3>1, FS_EmptySet
  <2>3. QED
    BY <2>1, <2>2
<1>3. Cardinality(places) = IF Waiting(w) THEN 1 ELSE 0
  <2>1. CASE Waiting(w)
    <3>1. PICK i \in 1..Len(deferred) : deferred[i] = w
      BY <2>1 DEF Waiting, Listed
    <3>2. places = {i}
      BY <1>a, <3>1, OwnedIs DEF Distinct
    <3>3. QED
      BY <2>1, <3>2, FS_Singleton
  <2>2. CASE ~Waiting(w)
    <3>1. places = {}
      BY <2>2 DEF Waiting, Listed
    <3>2. QED
      BY <2>2, <3>1, FS_EmptySet
  <2>3. QED
    BY <2>1, <2>2
<1>4. Holds(w) = {} <=> ~InSlot(w)
  BY DEF Holds, InSlot
<1>5. /\ Waiting(w) => ~InSlot(w) /\ shown[w] = 0
      /\ Exists(w) <=> InSlot(w) \/ Waiting(w) \/ shown[w] > 0
      /\ shown[w] \in Nat
  BY <1>a, OwnedIs
<1>6. Owners(w) = Cardinality(Holds(w)) + Cardinality(places)
                    + (IF Holds(w) = {} /\ shown[w] > 0 THEN 1 ELSE 0)
  BY DEF Owners
<1> HIDE DEF places
<1>7. QED
  BY <1>2, <1>3, <1>4, <1>5, <1>6

(***************************************************************************)
(* Every wrapper has exactly one owner, by which it is released once; its  *)
(* slot counts the menus shown from it, and gives it out only for the key  *)
(* it was built for.                                                       *)
(***************************************************************************)
THEOREM WrappersStayAccounted == Spec => []WrappersAccounted
<1>1. MenuInv => WrappersAccounted
  BY OneOwner DEF MenuInv, WrappersAccounted
<1>2. QED
  BY <1>1, MenuInit, MenuStep, PTL DEF Spec

\* When no menu is shown and no call is inside the Shell, no evicted wrapper
\* still waits to be released.
THEOREM DeferredAreReleased == Spec => []DeferredDrained
<1>1. MenuInv => DeferredDrained
  BY EmptySeq, Types DEF MenuInv, Due, Returning, DeferredDrained
<1>2. QED
  BY <1>1, MenuInit, MenuStep, PTL DEF Spec
=============================================================================
