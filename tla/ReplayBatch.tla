----------------------------- MODULE ReplayBatch -----------------------------
(***************************************************************************)
(* What the recorder keeps of the items of one operation, and how they are *)
(* moved back and forth.  Sink hears of each item before and after the     *)
(* Shell moves or recycles it, and asks the disk about what it did not     *)
(* hear of; replayBatch checks the identity of all items, has the Shell    *)
(* carry them, with a Sink again, and takes over what has become of each.  *)
(*                                                                         *)
(* A file is its identity.  The Shell (external) skips items, leaves out   *)
(* calls of the sink, gives no result, replaces what is in the way when    *)
(* its user says so, and stops early; other programs put files in free     *)
(* places and take files away.                                             *)
(*                                                                         *)
(* Next does not use Unchecked, NotMissed and Overwriting (wrong variants  *)
(* of the definitions they precede, to test properties).                   *)
(***************************************************************************)
EXTENDS Integers, SequencesExt

CONSTANTS
  File,
  Foreign,    \* those of other programs
  Nothing,
  Source,     \* places that operations take files from,
  Target,     \* that they move them to,
  Bin,        \* of the recycle bin
  TargetOf,   \* where the file of each source is moved to
  MaxOthers   \* bound: steps of other programs

\* What every instance assumes of its constants.
PlaceAssumption ==
  /\ Foreign \subseteq File /\ TargetOf \in [Source -> Target] /\ MaxOthers \in Nat

VARIABLES
  disk,       \* the file at each place
  operation,  \* what the Shell is doing
  sink,
  batch,      \* the recorded batch
  others,     \* auxiliary: steps of other programs; whether one fell into the batch's
              \* operation or a replay, or came after the beginning of the last
  was         \* auxiliary: the disk when the recorded operation began

vars == <<disk, operation, sink, batch, others, was>>

Place == Source \cup Target \cup Bin
NoSink == [pending |-> [p \in {} |-> Nothing], deletes |-> {}, records |-> <<>>, unsafe |-> FALSE]
NoOperation == [at |-> "idle", replay |-> FALSE, undo |-> FALSE, recycling |-> FALSE,
                todo |-> <<>>, landed |-> Nothing, failed |-> FALSE]
NoBatch == [items |-> <<>>, barrier |-> FALSE, undone |-> FALSE, is |-> FALSE]

Init ==
  /\ disk \in {d \in [Place -> File \cup {Nothing}] :
                 /\ \A p \in Place : d[p] \in Foreign <=> p \in Target /\ d[p] # Nothing
                 /\ \A p \in Source : d[p] # Nothing
                 /\ \A p, q \in Place : d[p] = d[q] /\ d[p] # Nothing => p = q}
  /\ operation = NoOperation /\ sink = NoSink /\ batch = NoBatch
  /\ others = [steps |-> 0, disturbed |-> FALSE, spoilt |-> FALSE]
  /\ was = disk

-----------------------------------------------------------------------------
Exists(p) == disk[p] # Nothing
Now == Head(operation.todo)   \* a request: the item at `from' goes to `to' or the bin
At(pc) == operation.at = pc
Goes(pc) == operation' = [operation EXCEPT !.at = pc]
Heard == Now.from \in DOMAIN sink.pending

Opened(places) ==
  [NoSink EXCEPT !.pending = [p \in places |->
     [collision |-> FALSE, before |-> Nothing, started |-> FALSE, recorded |-> FALSE]]]

(***************************************************************************)
(* performHook: the Shell moves or recycles the files of some places.      *)
(* Without a context of workerHook's the sink knows no sources.            *)
(***************************************************************************)
Perform(places, recycling, context) ==
  LET list == SetToSeq(places) IN
    /\ At("idle") /\ ~batch.is
    /\ operation' = [NoOperation EXCEPT !.at = "pre", !.recycling = recycling, !.todo =
         [i \in DOMAIN list |->
            [from |-> list[i], to |-> IF recycling THEN Nothing ELSE TargetOf[list[i]]]]]
    /\ sink' = Opened(IF context THEN places ELSE {})
    /\ batch' = [NoBatch EXCEPT !.barrier = ~context]
    /\ was' = disk /\ others' = [others EXCEPT !.disturbed = FALSE, !.spoilt = FALSE]
    /\ UNCHANGED disk

\* Sink::pre, or the Shell leaves it out.  A replay moves nothing over anything.
Pre ==
  LET collision == Now.to # Nothing /\ Exists(Now.to)
      before == IF operation.recycling THEN disk[Now.from] ELSE Nothing IN
    /\ At("pre") /\ operation.todo # <<>> /\ Heard
    /\ IF operation.replay /\ collision
       THEN /\ operation' = [operation EXCEPT !.at = "final", !.failed = TRUE]
            /\ UNCHANGED sink
       ELSE /\ Goes("carry")
            /\ sink' = [sink EXCEPT !.pending[Now.from] =
                 [collision |-> collision, before |-> before, started |-> TRUE, recorded |-> FALSE]]
    /\ UNCHANGED <<disk, batch, others, was>>

NoPre ==
  /\ At("pre") /\ operation.todo # <<>> /\ Goes("carry")
  /\ UNCHANGED <<disk, sink, batch, others, was>>

\* FOF_RENAMEONCOLLISION, of replays.
Overwriting(to) == {to}
Landings(to) ==
  IF ~operation.replay \/ ~Exists(to) THEN {to}
  ELSE {p \in Place : ~Exists(p) /\ (p \in Source <=> to \in Source)}

\* The Shell carries the item, or skips it.
Carry ==
  /\ At("carry")
  /\ \/ /\ operation' = [operation EXCEPT !.at = "post", !.landed = Nothing]
        /\ UNCHANGED disk
     \/ /\ Exists(Now.from)
        /\ \E p \in IF Now.to = Nothing THEN {b \in Bin : ~Exists(b)} ELSE Landings(Now.to) :
             /\ disk' = [disk EXCEPT ![p] = disk[Now.from], ![Now.from] = Nothing]
             /\ operation' = [operation EXCEPT !.at = "post", !.landed = p]
     \/ /\ Exists(Now.from) /\ Now.to = Nothing /\ ~operation.replay  \* for good
        /\ disk' = [disk EXCEPT ![Now.from] = Nothing]
        /\ operation' = [operation EXCEPT !.at = "post", !.landed = Nothing]
  /\ UNCHANGED <<sink, batch, others, was>>

\* Sink::post: `told' is the place of the result, if the Shell gives one, `ok' its
\* HRESULT; `trouble', that the result's identity is not to be had.
Record(original, told) ==
  [original |-> original, current |-> told, identity |-> disk[told], deleted |-> Now.to = Nothing]
Posted(told, ok, trouble) ==
  LET now == sink.pending[Now.from] IN
    IF Now.to = Nothing /\ told = Nothing /\ ok /\ now.started
    THEN [sink EXCEPT !.deletes = @ \cup {Now.from}, !.pending[Now.from].recorded = TRUE]
    ELSE IF ~ok \/ told = Nothing
    THEN [sink EXCEPT !.unsafe = @ \/ ~Exists(Now.from)]
    ELSE [sink EXCEPT !.unsafe = @ \/ ~now.started \/ now.collision \/ ~Exists(told) \/ trouble,
                      !.pending[Now.from].recorded = TRUE,
                      !.records = Append(@, Record(Now.from, told))]

Done == IF Len(operation.todo) = 1 THEN "final" ELSE "pre"
Post(told, ok, trouble) ==
  /\ At("post") /\ Heard /\ told \in {Nothing, operation.landed}
  /\ operation.landed = Nothing => ~ok \/ operation.recycling  \* a skip has an HRESULT of its own
  /\ sink' = Posted(told, ok, trouble)
  /\ operation' = [operation EXCEPT !.at = Done, !.todo = Tail(@)]
  /\ UNCHANGED <<disk, batch, others, was>>

NoPost ==
  /\ At("post")
  /\ operation' = [operation EXCEPT !.at = Done, !.todo = Tail(@)]
  /\ UNCHANGED <<disk, sink, batch, others, was>>

\* The user cancels, or the Shell fails, between items.
Stop ==
  /\ At("pre") /\ operation' = [operation EXCEPT !.at = "final", !.failed = TRUE]
  /\ UNCHANGED <<disk, sink, batch, others, was>>

(***************************************************************************)
(* finalize: deleted items are sought in the bin by their identity; what   *)
(* was not recorded must be where it was.                                  *)
(***************************************************************************)
Binned(f) == {b \in Bin : Exists(b) /\ disk[b] = f}
Found(p) == Binned(sink.pending[p].before) # {} /\ ~Exists(p)
Lost == {p \in sink.deletes : ~Found(p)}
FromBin ==
  LET found == SetToSeq(sink.deletes \ Lost) IN
    [i \in DOMAIN found |-> [original |-> found[i], identity |-> sink.pending[found[i]].before,
       deleted |-> TRUE, current |-> CHOOSE b \in Binned(sink.pending[found[i]].before) : TRUE]]
NotMissed(p) == FALSE
Missed(p) == ~sink.pending[p].recorded /\ ~Exists(p)

Records == sink.records \o FromBin
Unsafe == sink.unsafe \/ Lost # {} \/ \E p \in DOMAIN sink.pending : Missed(p)

Publish ==
  /\ At("final") /\ ~operation.replay
  /\ batch' = [items |-> Records, barrier |-> batch.barrier \/ Unsafe, undone |-> FALSE, is |-> TRUE]
  /\ operation' = NoOperation /\ sink' = NoSink
  /\ UNCHANGED <<disk, others, was>>

-----------------------------------------------------------------------------
(***************************************************************************)
(* replay and replayBatch.  A batch with a barrier is not replayed; one of *)
(* which anything cannot be asked of the Shell gets one.                   *)
(***************************************************************************)
Unchecked(items) == TRUE
Checked(items) == \A i \in DOMAIN items : disk[items[i].current] = items[i].identity

Moving(item, undo) == undo \/ ~item.deleted
Apart(items, undo) ==
  \A i, j \in DOMAIN items : i # j =>
    /\ items[i].current # items[j].current
    /\ Moving(items[i], undo) /\ Moving(items[j], undo) => items[i].original # items[j].original

Requests(items, undo) ==
  [i \in DOMAIN items |->
     LET item == items[IF undo THEN Len(items) + 1 - i ELSE i] IN
       [from |-> item.current, to |-> IF Moving(item, undo) THEN item.original ELSE Nothing]]

Replay ==
  LET undo == ~batch.undone IN
    /\ At("idle") /\ batch.is /\ ~batch.barrier /\ batch.items # <<>>
    /\ others' = [others EXCEPT !.disturbed = FALSE]
    /\ IF Checked(batch.items) /\ Apart(batch.items, undo)
       THEN /\ operation' = [NoOperation EXCEPT !.at = "pre", !.replay = TRUE, !.undo = undo,
                 !.recycling = ~undo /\ \E i \in DOMAIN batch.items : batch.items[i].deleted,
                 !.todo = Requests(batch.items, undo)]
            /\ sink' = Opened({batch.items[i].current : i \in DOMAIN batch.items})
            /\ UNCHANGED batch
       ELSE batch' = [batch EXCEPT !.barrier = TRUE] /\ UNCHANGED <<operation, sink>>
    /\ UNCHANGED <<disk, was>>

\* An item that was carried takes over where it is; a move exchanges its ends.
Updated(item, actual) ==
  [item EXCEPT !.current = actual.current, !.identity = actual.identity,
               !.original = IF item.deleted THEN @ ELSE item.current]

Outcome ==
  LET records == Records
      Of(item) == {i \in DOMAIN records : records[i].original = item.current}
      done == \A i \in DOMAIN batch.items : Of(batch.items[i]) # {}
      success == ~operation.failed /\ done /\ ~Unsafe IN
    /\ At("final") /\ operation.replay
    /\ batch' = [batch EXCEPT !.barrier = ~success, !.undone = IF success THEN ~@ ELSE @,
         !.items = [i \in DOMAIN @ |->
           IF Of(@[i]) = {} THEN @[i]
           ELSE Updated(@[i], records[CHOOSE r \in Of(@[i]) : \A s \in Of(@[i]) : r <= s])]]
    /\ operation' = NoOperation /\ sink' = NoSink
    /\ UNCHANGED <<disk, others, was>>

\* Other programs.
Other(p, f) ==
  /\ others.steps < MaxOthers
  /\ \/ f # Nothing /\ ~Exists(p) /\ \A q \in Place : disk[q] # f
     \/ f = Nothing /\ Exists(p)
  /\ disk' = [disk EXCEPT ![p] = f]
  /\ others' = [steps |-> others.steps + 1, disturbed |-> TRUE,
                 spoilt |-> others.spoilt \/ ~At("idle")]
  /\ UNCHANGED <<operation, sink, batch, was>>

Next ==
  \/ \E places \in SUBSET Source \ {{}}, recycling, context \in BOOLEAN :
       (\A p \in places : Exists(p)) /\ Perform(places, recycling, context)
  \/ Pre \/ NoPre \/ Carry \/ NoPost \/ Stop \/ Publish \/ Replay \/ Outcome
  \/ \E told \in Place \cup {Nothing}, ok, trouble \in BOOLEAN : Post(told, ok, trouble)
  \/ \E p \in Place, f \in Foreign \cup {Nothing} : Other(p, f)

Spec == Init /\ [][Next]_vars

-----------------------------------------------------------------------------
Settled == At("idle") /\ batch.is /\ ~batch.barrier /\ ~others.disturbed /\ ~others.spoilt
Carried(p) ==
  disk[p] # was[p] /\ (others.steps = 0 \/ \E q \in Place : disk[q] = was[p])
Item == [original : Place, current : Place, identity : File \cup {Nothing}, deleted : BOOLEAN]

\* Every variable keeps its type.
TypeOK ==
  /\ disk \in [Place -> File \cup {Nothing}]
  /\ ToSet(sink.records) \subseteq Item /\ ToSet(batch.items) \subseteq Item
  /\ operation.at \in {"idle", "pre", "carry", "post", "final"}

\* A batch that may be replayed has each file that its operation carried, where it
\* is, whichever of the Shell's calls did not come.
Accounted ==
  Settled /\ ~batch.undone =>
    \A p \in Source : was[p] \in File \ Foreign /\ Carried(p) =>
      \E i \in DOMAIN batch.items :
        batch.items[i].identity = was[p] /\ disk[batch.items[i].current] = was[p]

\* When an undo has succeeded, each file of the batch is where it was before the
\* operation, though other programs have changed places between the two.
PutBack ==
  Settled /\ batch.undone =>
    \A i \in DOMAIN batch.items :
      LET item == batch.items[i] IN
        disk[item.current] = item.identity /\ was[item.current] = item.identity

\* A replay never destroys a file, and carries only files of its batch, whatever
\* other programs have done between.
MovesOnlyIts ==
  operation.replay /\ disk' # disk /\ others'.steps = others.steps /\ ~others.disturbed =>
    \E i \in DOMAIN batch.items, p \in Place :
      disk' = [disk EXCEPT ![Now.from] = Nothing, ![p] = batch.items[i].identity]
LosesNone ==
  operation.replay /\ others'.steps = others.steps =>
    \A p \in Place : Exists(p) => \E q \in Place : disk'[q] = disk[p]
=============================================================================
