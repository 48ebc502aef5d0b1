------------------------------ MODULE MenuCache ------------------------------
(***************************************************************************)
(* The context-menu payload: MenuAcquireHook and MenuReleaseHook keep the  *)
(* Shell menus FilePilot builds in a partitioned LRU, give them out again, *)
(* and put off the destruction of evicted ones until a menu closes.        *)
(*                                                                         *)
(* Everything runs on the UI thread, but the two calls into the Shell,     *)
(* originalAcquire and originalRelease, may pump messages and re-enter the *)
(* payload: `stack' holds the calls that are inside one of them.           *)
(*                                                                         *)
(* Next does not use PartitionOfAll, VictimInUse, DeferredOverwritten,     *)
(* InstallableOverfull, RetainedAlways and CloseKeeping (wrong variants of *)
(* the definitions they precede, to test properties).                      *)
(***************************************************************************)
EXTENDS Integers, SequencesExt

CONSTANTS
  Selected,        \* keys of menus for selected items
  Background,      \* keys of folder-background menus
  Uncachable,      \* keys that are invalid, or too large for the budget
  Wrapper,         \* addresses of menu wrappers
  NoWrapper,
  SelectedSlots, BackgroundSlots, \* sizes of the two partitions of g_cache
  Deferrable,      \* kDeferredCapacity
  Budget,          \* ResourceBudgetEnabled
  MaxDepth,        \* bound: calls inside the Shell at a time
  MaxOpen          \* bound: menus shown from a wrapper at a time

Key == Selected \cup Background
Slot == 1..(SelectedSlots + BackgroundSlots)

ASSUME KeyAssumption == Selected \cap Background = {} /\ Uncachable \subseteq Key
ASSUME WrapperAssumption == NoWrapper \notin Wrapper
ASSUME CapacityAssumption ==
  /\ SelectedSlots \in Nat \ {0} /\ BackgroundSlots \in Nat \ {0}
  /\ Deferrable \in Nat \ {0} /\ MaxDepth \in Nat /\ MaxOpen \in Nat
ASSUME BudgetAssumption == Budget \in BOOLEAN

VARIABLES
  cache,     \* g_cache: of each slot its key, wrapper and activeUses
  older,     \* of each slot, the slots with a smaller lastUse
  deferred,  \* g_deferredReleases
  stack,     \* the calls inside the Shell, the innermost last
  built,     \* of each wrapper that exists, the keys it was built for: one
  shown      \* of each wrapper, how many menus FilePilot shows from it

vars == <<cache, older, deferred, stack, built, shown>>

Vacated == [for |-> {}, wrapper |-> NoWrapper, uses |-> 0]

Init ==
  /\ cache = [s \in Slot |-> Vacated]
  /\ older = [s \in Slot |-> {}]
  /\ deferred = <<>> /\ stack = <<>>
  /\ built = [w \in Wrapper |-> {}]
  /\ shown = [w \in Wrapper |-> 0]

-----------------------------------------------------------------------------
Exists(w) == built[w] # {}
Holds(w) == {s \in Slot : cache[s].wrapper = w}
IsLeast(s, slots) == s \in slots /\ \A t \in slots : s <= t
Touched(s) == [t \in Slot |-> IF t = s THEN Slot \ {s} ELSE older[t] \ {s}]
Frame(call, key) == [call |-> call, key |-> key, next |-> 1]

(***************************************************************************)
(* DrainDeferredReleases takes the newest deferred wrapper off the list    *)
(* and enters the Shell with it; it goes on when that call returns.        *)
(***************************************************************************)
Drain(frames) ==
  \/ deferred = <<>> /\ stack' = frames /\ UNCHANGED <<deferred, built>>
  \/ /\ deferred # <<>>
     /\ deferred' = Front(deferred)
     /\ stack' = Append(frames, Frame("draining", {}))
     /\ built' = [built EXCEPT ![Last(deferred)] = {}]

-----------------------------------------------------------------------------
(***************************************************************************)
(* MenuAcquireHook.  A cached menu is given out again; otherwise the Shell *)
(* builds one.                                                             *)
(***************************************************************************)
Cached(key) == {s \in Slot : cache[s].wrapper # NoWrapper /\ cache[s].for = {key}}

Hit(key) ==
  /\ \E s \in Slot :
       /\ IsLeast(s, Cached(key))
       /\ shown[cache[s].wrapper] < MaxOpen
       /\ cache' = [cache EXCEPT ![s].uses = @ + 1]
       /\ older' = Touched(s)
       /\ shown' = [shown EXCEPT ![cache[s].wrapper] = @ + 1]
  /\ UNCHANGED <<deferred, stack, built>>

Miss(key) ==
  /\ Cached(key) = {} /\ Len(stack) < MaxDepth
  /\ stack' = Append(stack, Frame("building", {key}))
  /\ UNCHANGED <<cache, older, deferred, built, shown>>

\* FindInstallSlot: a vacant slot of the partition, else the one used least
\* recently of those that no open menu uses.
PartitionOfAll(key) == Slot
Partition(key) ==
  IF key \in Selected THEN 1..SelectedSlots ELSE (SelectedSlots + 1)..(SelectedSlots + BackgroundSlots)

VictimInUse(s) == TRUE
Victim(s) == cache[s].uses = 0

InstallSlots(key) ==
  LET vacant == {s \in Partition(key) : cache[s].wrapper = NoWrapper}
      idle == {s \in Partition(key) : Victim(s)}
  IN IF vacant # {} THEN {s \in vacant : IsLeast(s, vacant)}
     ELSE {s \in idle : older[s] \cap idle = {}}

\* InstallCacheEntry gives up when the wrapper it evicts cannot be deferred.
DeferredOverwritten(s) == IF cache[s].wrapper = NoWrapper THEN deferred ELSE <<cache[s].wrapper>>
Deferred(s) == IF cache[s].wrapper = NoWrapper THEN deferred ELSE Append(deferred, cache[s].wrapper)
InstallableOverfull(key) == {s \in InstallSlots(key) : key \notin Uncachable}
Installable(key) ==
  {s \in InstallSlots(key) : key \notin Uncachable /\ Len(Deferred(s)) <= Deferrable}

\* originalAcquire returns a wrapper: it is cached if there is room, and shown.
Build ==
  /\ stack # <<>> /\ Last(stack).call = "building"
  /\ \E w \in Wrapper, key \in Last(stack).key :
       /\ ~Exists(w)
       /\ \/ \E s \in Installable(key) :
               /\ deferred' = Deferred(s)
               /\ cache' = [cache EXCEPT ![s] = [for |-> {key}, wrapper |-> w, uses |-> 1]]
               /\ older' = Touched(s)
          \/ Installable(key) = {} /\ UNCHANGED <<cache, older, deferred>>
       /\ built' = [built EXCEPT ![w] = {key}]
       /\ shown' = [shown EXCEPT ![w] = 1]
  /\ stack' = Front(stack)

\* It returns none.
BuildFails ==
  /\ stack # <<>> /\ Last(stack).call = "building"
  /\ stack' = Front(stack)
  /\ UNCHANGED <<cache, older, deferred, built, shown>>

-----------------------------------------------------------------------------
(***************************************************************************)
(* MenuReleaseHook, for one of the menus FilePilot shows.  A cached one is *)
(* retained, any other released; the deferred ones are released with it.   *)
(***************************************************************************)
RetainedAlways(w) == cache
Retained(w) == [s \in Slot |->
  IF IsLeast(s, Holds(w)) /\ cache[s].uses > 0
  THEN [cache[s] EXCEPT !.uses = @ - 1] ELSE cache[s]]

CloseKeeping(w) ==
  /\ shown[w] > 0 /\ Len(stack) < MaxDepth
  /\ shown' = [shown EXCEPT ![w] = @ - 1]
  /\ cache' = Retained(w)
  /\ \/ Holds(w) # {} /\ UNCHANGED <<deferred, stack, built>>
     \/ /\ Holds(w) = {}
        /\ stack' = Append(stack, Frame("draining", {}))
        /\ built' = [built EXCEPT ![w] = {}]
        /\ UNCHANGED deferred
  /\ UNCHANGED older

Close(w) ==
  /\ shown[w] > 0 /\ Len(stack) < MaxDepth
  /\ shown' = [shown EXCEPT ![w] = @ - 1]
  /\ cache' = Retained(w)
  /\ \/ /\ Holds(w) # {} /\ Drain(stack)
     \/ /\ Holds(w) = {}
        /\ stack' = Append(stack, Frame("draining", {}))
        /\ built' = [built EXCEPT ![w] = {}]
        /\ UNCHANGED deferred
  /\ UNCHANGED older

\* originalRelease returns to DrainDeferredReleases.
DrainOn ==
  /\ stack # <<>> /\ Last(stack).call = "draining"
  /\ Drain(Front(stack))
  /\ UNCHANGED <<cache, older, shown>>

-----------------------------------------------------------------------------
(***************************************************************************)
(* MenuCacheMaintenance, a timer's work: unless a menu is open, it empties *)
(* the slots idle for two minutes, or all of them when memory is short,    *)
(* then drains.  The Shell may be re-entered at each release, and the scan *)
(* goes on with the cache as it finds it.                                  *)
(***************************************************************************)
Sweepable(s) == cache[s].wrapper # NoWrapper /\ cache[s].uses = 0

SweepOne(s, frames) ==
  /\ cache' = [cache EXCEPT ![s].wrapper = NoWrapper, ![s].uses = 0]
  /\ built' = [built EXCEPT ![cache[s].wrapper] = {}]
  /\ stack' = Append(frames, [Frame("sweeping", {}) EXCEPT !.next = s + 1])
  /\ UNCHANGED deferred

Sweep(from, frames) ==
  \/ \E s \in Slot : s >= from /\ Sweepable(s) /\ SweepOne(s, frames)
  \/ Drain(frames) /\ UNCHANGED cache

Maintain ==
  /\ Budget /\ Len(stack) < MaxDepth /\ \A s \in Slot : cache[s].uses = 0
  /\ Sweep(1, stack)
  /\ UNCHANGED <<older, shown>>

SweepOn ==
  /\ stack # <<>> /\ Last(stack).call = "sweeping"
  /\ Sweep(Last(stack).next, Front(stack))
  /\ UNCHANGED <<older, shown>>

Next ==
  \/ \E key \in Key : Hit(key) \/ Miss(key)
  \/ \E w \in Wrapper : Close(w)
  \/ Build \/ BuildFails \/ DrainOn \/ Maintain \/ SweepOn

Spec == Init /\ [][Next]_vars

-----------------------------------------------------------------------------
\* Every variable keeps its type, and the lists their lengths.
TypeOK ==
  /\ cache \in [Slot -> [for : {{}} \cup {{key} : key \in Key}, wrapper : Wrapper \cup {NoWrapper}, uses : Nat]]
  /\ older \in [Slot -> SUBSET Slot]
  /\ deferred \in Seq(Wrapper) /\ Len(deferred) <= Deferrable
  /\ stack \in Seq([call : {"building", "draining", "sweeping"},
                    key : {{}} \cup {{key} : key \in Key}, next : 1..(SelectedSlots + BackgroundSlots + 1)])
  /\ built \in [Wrapper -> {{}} \cup {{key} : key \in Key}]
  /\ shown \in [Wrapper -> Nat]

(***************************************************************************)
(* No menu that FilePilot shows is destroyed under it, whatever the Shell  *)
(* re-enters meanwhile: not by the eviction of its slot, not by a drain,   *)
(* not by the timer's sweep.                                               *)
(***************************************************************************)
ShownExist == \A w \in Wrapper : shown[w] > 0 => Exists(w)

(***************************************************************************)
(* Every wrapper that exists is owned exactly once: by a slot, by the list *)
(* of deferred releases, or, uncached, by the menu that shows it.  So none *)
(* leaks, none is released twice, and no slot holds one that is gone.      *)
(***************************************************************************)
Owners(w) ==
  Cardinality(Holds(w)) + Cardinality({i \in 1..Len(deferred) : deferred[i] = w})
    + (IF Holds(w) = {} /\ shown[w] > 0 THEN 1 ELSE 0)
OwnedOnce == \A w \in Wrapper : Owners(w) = IF Exists(w) THEN 1 ELSE 0

\* A slot counts the menus shown from it: a menu that is never closed, or
\* counted twice, would pin its wrapper and stop all maintenance.
UsesCounted ==
  \A s \in Slot :
    cache[s].uses = IF cache[s].wrapper = NoWrapper THEN 0 ELSE shown[cache[s].wrapper]

\* A slot gives out its wrapper only for the key that it was built for, and
\* keeps to its partition: background menus never evict those of selections.
SlotsSound ==
  \A s \in Slot : cache[s].wrapper # NoWrapper =>
    /\ cache[s].for = built[cache[s].wrapper]
    /\ \A key \in cache[s].for : (key \in Selected) = (s <= SelectedSlots)

\* When no menu is shown and no call is inside the Shell, no wrapper that was
\* evicted is still waiting to be released.
DeferredDrained == stack = <<>> /\ (\A w \in Wrapper : shown[w] = 0) => deferred = <<>>
=============================================================================
