---------------------------- MODULE ArchiveListing ----------------------------
(***************************************************************************)
(* The names in an archive.  The constructor of Archive makes a tree of    *)
(* the items that its reader reports, in the order it reports them; a      *)
(* handle to one of its folders keeps the folder's children and a cursor,  *)
(* and is listed by NtQueryDirectoryFile, or by FindFirstFile and          *)
(* FindNextFile, with the caller's buffers.                                *)
(*                                                                         *)
(* A path is the sequence of its names, as `lower' folds them; an item     *)
(* that normalize refuses, or that is a link, is left out.                 *)
(*                                                                         *)
(* Next does not use ParentOnly and FullAdvances (wrong variants of the    *)
(* definitions they precede, to test properties).                          *)
(***************************************************************************)
EXTENDS Integers, SequencesExt

CONSTANTS
  Name,
  NoFolder,
  Bytes(_),   \* that a name takes in a buffer
  Short,      \* a pattern: the names it matches; the other matches all
  Depth,      \* bound: length of a path
  MaxItems    \* bound: items of an archive

Path == UNION {[1..n -> Name] : n \in 1..Depth}

\* What every instance assumes of its constants.
ListingAssumption ==
  /\ Short \subseteq Name /\ Depth \in Nat /\ MaxItems \in Nat
  /\ \A name \in Name : Bytes(name) \in Nat \ {0}
  /\ NoFolder \notin Path \cup {<<>>}

VARIABLES
  items,   \* auxiliary: what the reader has reported
  tree,    \* the index: kind of each path, and whether an item was reported for it
  handle,  \* struct Handle of a folder
  call,    \* the listing call in progress or the last one
  seen     \* auxiliary: names returned, and the cursor from which on

vars == <<items, tree, handle, call, seen>>

NoHandle == [folder |-> NoFolder, entries |-> <<>>, cursor |-> 0, pattern |-> Name]
Returned == [kind |-> "none", room |-> 0, single |-> FALSE, any |-> FALSE, status |-> "none"]

Init ==
  /\ items = <<>>
  /\ tree = [p \in {} |-> 0]
  /\ handle = NoHandle
  /\ call = Returned
  /\ seen = [names |-> <<>>, from |-> 0]

-----------------------------------------------------------------------------
ParentOnly(p) == {Front(p)} \cap Path
Parents(p) == {SubSeq(p, 1, n) : n \in 1..(Len(p) - 1)}

\* The first item of a path stays; it takes the place of a parent made up before.
Indexed(p, directory) ==
  LET kept == p \in DOMAIN tree /\ tree[p].reported
      item == [directory |-> directory, reported |-> TRUE]
      made == [directory |-> TRUE, reported |-> FALSE] IN
    [q \in DOMAIN tree \cup {p} \cup Parents(p) |->
       IF q = p /\ ~kept THEN item
       ELSE IF q \in DOMAIN tree THEN tree[q] ELSE made]

Report(p, directory) ==
  /\ handle = NoHandle /\ Len(items) < MaxItems
  /\ items' = Append(items, [path |-> p, directory |-> directory])
  /\ tree' = Indexed(p, directory)
  /\ UNCHANGED <<handle, call, seen>>

\* children, of a path that resolve finds (the root is the archive itself).
Folder(p) == p = <<>> \/ (p \in DOMAIN tree /\ tree[p].directory)
Children(p) == {Last(q) : q \in {c \in DOMAIN tree : Front(c) = p}}

Open(p) ==
  /\ handle = NoHandle /\ Folder(p)
  /\ handle' = [NoHandle EXCEPT !.folder = p, !.entries = SetToSeq(Children(p))]
  /\ UNCHANGED <<items, tree, call, seen>>

-----------------------------------------------------------------------------
Calling == call.status = "calling"
Ready == handle # NoHandle /\ ~Calling
Rest == handle.cursor < Len(handle.entries)
Entry == handle.entries[handle.cursor + 1]
Matches == Entry \in handle.pattern
Fits == Bytes(Entry) <= call.room
Restarted(cursor) == seen' = [names |-> <<>>, from |-> cursor]
Ended(status) == call' = [call EXCEPT !.status = status]

\* query: `restart' resets the cursor, and a pattern replaces the handle's.
Query(room, single, restart, pattern) ==
  LET cursor == IF restart THEN 0 ELSE handle.cursor IN
    /\ Ready
    /\ handle' = [handle EXCEPT !.cursor = cursor, !.pattern = pattern]
    /\ IF restart \/ pattern # handle.pattern THEN Restarted(cursor) ELSE UNCHANGED seen
    /\ call' = [Returned EXCEPT !.kind = "query", !.room = room, !.single = single,
                                !.status = "calling"]
    /\ UNCHANGED <<items, tree>>

\* firstEx's and findNext's `next'.
FindNext ==
  /\ Ready /\ call' = [Returned EXCEPT !.kind = "find", !.status = "calling"]
  /\ UNCHANGED <<items, tree, handle, seen>>

\* Their loops.
Skip ==
  /\ Calling /\ Rest /\ ~Matches
  /\ handle' = [handle EXCEPT !.cursor = @ + 1]
  /\ UNCHANGED <<items, tree, call, seen>>

Return ==
  /\ Calling /\ Rest /\ Matches /\ (call.kind = "query" => Fits)
  /\ handle' = [handle EXCEPT !.cursor = @ + 1]
  /\ seen' = [seen EXCEPT !.names = Append(@, Entry)]
  /\ call' = IF call.kind = "find" \/ call.single THEN [call EXCEPT !.status = "some"]
             ELSE [call EXCEPT !.any = TRUE, !.room = @ - Bytes(Entry)]
  /\ UNCHANGED <<items, tree>>

FullAdvances ==
  /\ Calling /\ Rest /\ Matches /\ call.kind = "query" /\ ~Fits
  /\ handle' = [handle EXCEPT !.cursor = @ + 1]
  /\ Ended(IF call.any THEN "some" ELSE "overflow")
  /\ UNCHANGED <<items, tree, seen>>

Full ==
  /\ Calling /\ Rest /\ Matches /\ call.kind = "query" /\ ~Fits
  /\ Ended(IF call.any THEN "some" ELSE "overflow")
  /\ UNCHANGED <<items, tree, handle, seen>>

Exhausted ==
  /\ Calling /\ ~Rest
  /\ Ended(IF call.any THEN "some" ELSE "no more")
  /\ UNCHANGED <<items, tree, handle, seen>>

MaxRoom == FoldSet(LAMBDA name, sum : sum + Bytes(name), 0, Name)

Next ==
  \/ \E p \in Path, directory \in BOOLEAN : Report(p, directory)
  \/ \E p \in {<<>>} \cup DOMAIN tree : Open(p)
  \/ \E room \in 0..MaxRoom, single, restart \in BOOLEAN, pattern \in {Name, Short} :
       Query(room, single, restart, pattern)
  \/ FindNext \/ Skip \/ Return \/ Full \/ Exhausted

Spec == Init /\ [][Next]_vars

-----------------------------------------------------------------------------
\* Every variable keeps its type.
TypeOK ==
  /\ DOMAIN tree \subseteq Path
  /\ handle.cursor \in 0..Len(handle.entries) /\ seen.from \in 0..handle.cursor
  /\ call.status \in {"none", "calling", "some", "overflow", "no more"}

\* In whatever order items, repeated items and parents are reported, each item is
\* where one gets by going down from the root, and of the kind first reported.
Reached ==
  \A i \in DOMAIN items :
    LET p == items[i].path
        first == CHOOSE j \in DOMAIN items :
                   items[j].path = p /\ \A k \in 1..(j - 1) : items[k].path # p IN
      /\ tree[p].directory = items[first].directory
      /\ \A n \in 1..Len(p) : p[n] \in Children(SubSeq(p, 1, n - 1))

\* A caller that goes on until there is no more has been given every matching name
\* of the folder once and in order, whatever buffers it came with, overflowed ones
\* too: at[i] is the place of the i-th name that it has seen.
EachOnce ==
  call.status = "no more" =>
    \E at \in [1..Len(seen.names) -> (seen.from + 1)..Len(handle.entries)] :
      /\ \A i, j \in 1..Len(seen.names) : i < j => at[i] < at[j]
      /\ \A i \in 1..Len(seen.names) : seen.names[i] = handle.entries[at[i]]
      /\ \A k \in (seen.from + 1)..Len(handle.entries) :
           handle.entries[k] \in handle.pattern <=> \E i \in 1..Len(seen.names) : at[i] = k
=============================================================================
