--------------------------- MODULE ArchiveTransfer ---------------------------
(***************************************************************************)
(* What a user does with entries of an archive: opening a selection, for   *)
(* which entries are extracted to a launch cache; and copying and dragging *)
(* them, for which the Shell gets a list of files.                         *)
(*                                                                         *)
(* Any step that creates, writes or starts something may fail.  The host's *)
(* own handlers (external) look at the panel's selection at once.          *)
(*                                                                         *)
(* Next does not use FailedLeft and LeafRemembered (wrong variants of the  *)
(* definitions they precede, to test properties).                          *)
(***************************************************************************)
EXTENDS Integers, SequencesExt

CONSTANTS
  Item,       \* what the panel may list
  Entries,    \* those that are files in an archive; the others are left to the host
  Containers, \* those that are archive files on the disk
  Root,       \* what may be copied or dragged
  PathOf,     \* path of each root, a sequence of names; a name has a base and serials
  Virtual     \* those that are in an archive

\* What every instance assumes of its constants.
TransferAssumption ==
  Entries \cup Containers \subseteq Item /\ Virtual \subseteq Root

VARIABLES
  panel,      \* the panel's selection, and which of its items are flagged as folders
  opening,    \* openSelection
  cache,      \* the copy in the launch cache of each entry
  outcome,    \* auxiliary: what became of each selected item, per opening
  sending     \* clipboard, drag and the object they make

vars == <<panel, opening, cache, outcome, sending>>

NotOpening == [at |-> "idle", items |-> <<>>, todo |-> <<>>, rest |-> <<>>, external |-> FALSE]
NotSending == [at |-> "idle", list |-> <<>>, files |-> <<>>, references |-> 0]

Init ==
  /\ panel = [selection |-> <<>>, folders |-> {}]
  /\ opening = NotOpening
  /\ cache = [i \in Entries |-> "none"]
  /\ outcome = <<>>
  /\ sending = NotSending

-----------------------------------------------------------------------------
(***************************************************************************)
(* openSelection.  Entries are launched one by one; only what remains is   *)
(* given to the host's handler, as if it were the selection.               *)
(***************************************************************************)
At(pc) == opening.at = pc
Goes(pc) == opening' = [opening EXCEPT !.at = pc]
Now == Head(opening.todo)
Became(what) == outcome' = Append(outcome, <<Now, what>>)

Open(items, external) ==
  /\ At("idle") /\ sending.at = "idle" /\ outcome' = <<>>
  /\ panel' = [panel EXCEPT !.selection = items]
  /\ cache' = [i \in Entries |-> "none"]  \* earlier copies lie in folders of their own
  /\ opening' = [NotOpening EXCEPT !.at = "launching", !.items = items, !.todo = items,
                                   !.external = external]
  /\ UNCHANGED <<sending>>

\* launchEntry is not concerned ...
Remains ==
  /\ At("launching") /\ opening.todo # <<>> /\ Now \notin Entries
  /\ opening' = [opening EXCEPT !.todo = Tail(@), !.rest = Append(@, Now)]
  /\ UNCHANGED <<panel, cache, outcome, sending>>

\* ... or makes a folder, extracts the entry to it, gives the copy the archive's
\* zone, makes it read-only, and has the Shell open it.
Launched == [none |-> "folder", folder |-> "partial", partial |-> "whole", whole |-> "zoned"]

Launch ==
  /\ At("launching") /\ opening.todo # <<>> /\ Now \in Entries /\ cache[Now] # "zoned"
  /\ cache' = [cache EXCEPT ![Now] = Launched[@]]
  /\ UNCHANGED <<panel, opening, outcome, sending>>

Execute ==
  /\ At("launching") /\ opening.todo # <<>> /\ Now \in Entries /\ cache[Now] = "zoned"
  /\ cache' = [cache EXCEPT ![Now] = "opened"] /\ Became("opened")
  /\ opening' = [opening EXCEPT !.todo = Tail(@)]
  /\ UNCHANGED <<panel, sending>>

\* The copy and its folder are removed, and the user is told.
FailedLeft ==
  /\ At("launching") /\ opening.todo # <<>> /\ Now \in Entries
  /\ Became("reported")
  /\ opening' = [opening EXCEPT !.todo = Tail(@), !.rest = Append(@, Now)]
  /\ UNCHANGED <<panel, cache, sending>>

LaunchFails ==
  /\ At("launching") /\ opening.todo # <<>> /\ Now \in Entries
  /\ cache' = [cache EXCEPT ![Now] = "none"] /\ Became("reported")
  /\ opening' = [opening EXCEPT !.todo = Tail(@)]
  /\ UNCHANGED <<panel, sending>>

\* classifyArchive: the host takes a container for a folder that it enters.
Classified == panel.folders \cup (Containers \cap ToSet(opening.rest))

Prepare ==
  /\ At("launching") /\ opening.todo = <<>>
  /\ LET some == opening.rest # opening.items IN
       IF some /\ opening.rest = <<>>
       THEN opening' = NotOpening /\ UNCHANGED panel
       ELSE /\ Goes("dispatching")
            /\ panel' = [selection |-> IF some THEN opening.rest ELSE panel.selection,
                         folders |-> IF some \/ ~opening.external THEN Classified
                                     ELSE panel.folders]
  /\ UNCHANGED <<cache, outcome, sending>>

\* originalOpen opens the panel's selection; then the whole one is put back.
Dispatched ==
  outcome' = outcome \o
    [i \in DOMAIN panel.selection |->
       <<panel.selection[i], IF panel.selection[i] \in panel.folders THEN "entered" ELSE "opened">>]

Dispatch ==
  /\ At("dispatching") /\ Dispatched
  /\ panel' = [panel EXCEPT !.selection = opening.items]
  /\ opening' = NotOpening
  /\ UNCHANGED <<cache, sending>>

-----------------------------------------------------------------------------
(***************************************************************************)
(* transferObject leaves out what another root covers, and gives roots of  *)
(* the same name different serials.  Without a virtual root the host's own *)
(* transfer takes place.                                                   *)
(***************************************************************************)
Covers(other, root) == IsStrictPrefix(PathOf[other], PathOf[root])
Covered(list, i) ==
  \E j \in DOMAIN list \ {i} :
    Covers(list[j], list[i]) \/ (j < i /\ PathOf[list[j]] = PathOf[list[i]])

Taken(files) == {files[i].name : i \in DOMAIN files}
LeafRemembered(files, root) ==
  LET leaf == Last(PathOf[root])
      leaves == {Last(PathOf[files[i].root]) : i \in DOMAIN files} IN
    IF leaf \in leaves THEN Append(leaf, 2) ELSE leaf
Named(files, root) ==
  LET leaf == Last(PathOf[root]) IN
    IF leaf \notin Taken(files) THEN leaf
    ELSE Append(leaf, CHOOSE s \in 2..(Len(files) + 2) :
                        /\ Append(leaf, s) \notin Taken(files)
                        /\ \A less \in 2..(s - 1) : Append(leaf, less) \in Taken(files))

Added(files, root) == Append(files, [root |-> root, name |-> Named(files, root)])
Files(list) ==
  FoldLeft(LAMBDA files, i : IF Covered(list, i) THEN files ELSE Added(files, list[i]),
           <<>>, [i \in DOMAIN list |-> i])

\* Copying and dragging; a source that is missing or is a link makes it fail.
Send(list, drag) ==
  /\ sending.at = "idle" /\ At("idle") /\ ToSet(list) \cap Virtual # {}
  /\ sending' = [at |-> IF drag THEN "drag" ELSE "clipboard", list |-> list,
                 files |-> Files(list), references |-> 1]
  /\ UNCHANGED <<panel, opening, cache, outcome>>

\* The clipboard keeps a reference of its own, if it takes the object.
Sent(kept) ==
  /\ sending.at = "clipboard" \/ (sending.at = "drag" /\ kept = 0)
  /\ sending' = [NotSending EXCEPT !.references = kept]
  /\ UNCHANGED <<panel, opening, cache, outcome>>

Lists(S) == UNION {[1..n -> S] : n \in 1..3}
Selections == {items \in Lists(Item) : IsInjective(items)}

Next ==
  \/ \E items \in Selections, external \in BOOLEAN : Open(items, external)
  \/ Remains \/ Launch \/ Execute \/ LaunchFails \/ Prepare \/ Dispatch
  \/ \E list \in Lists(Root), drag \in BOOLEAN : Send(list, drag)
  \/ \E kept \in {0, 1} : Sent(kept)

Spec == Init /\ [][Next]_vars

-----------------------------------------------------------------------------
\* Every variable keeps its type.
TypeOK ==
  /\ panel.folders \subseteq Containers
  /\ opening.at \in {"idle", "launching", "dispatching"}
  /\ sending.at \in {"idle", "clipboard", "drag"} /\ sending.references \in {0, 1}

\* When an opening is over, whichever entries could not be launched, each selected
\* item was opened, entered or reported just once, the panel has its selection
\* again, and of copies only whole ones that have been opened are left.
OpenedOnce ==
  At("idle") =>
    /\ Len(outcome) = Len(panel.selection)
    /\ {outcome[i][1] : i \in DOMAIN outcome} = ToSet(panel.selection)
    /\ \A i \in Entries : cache[i] \in {"none", "opened"}

\* The Shell gets each selected path once, itself or in a folder that it gets, and
\* no two under one name, whatever their own names look like.
SentOnce ==
  sending.at # "idle" =>
    /\ \A i, j \in DOMAIN sending.files : sending.files[i].name = sending.files[j].name => i = j
    /\ \A i \in DOMAIN sending.list :
         Cardinality({k \in DOMAIN sending.files :
           IsPrefix(PathOf[sending.files[k].root], PathOf[sending.list[i]])}) = 1
=============================================================================
