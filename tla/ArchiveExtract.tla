---------------------------- MODULE ArchiveExtract ----------------------------
(***************************************************************************)
(* Extracting an archive to a folder of the user's choice, on a thread of  *)
(* its own, while other programs use that folder: folders are made as they *)
(* are needed and may be there already, files have to be new, and the file *)
(* that cannot be written is taken away again.                             *)
(*                                                                         *)
(* Next does not use DeletedInAnyCase (a wrong variant of the definition   *)
(* it precedes, to test properties).                                       *)
(***************************************************************************)
EXTENDS Naturals

CONSTANTS
  Place,      \* paths in the destination
  ParentOf,   \* the folder of each, or the destination
  Destination,
  Folder,     \* those that the archive has as folders
  MaxStarts   \* bound: extractions

\* What every instance assumes of its constants.
PlaceAssumption ==
  /\ Destination \notin Place /\ Folder \subseteq Place /\ MaxStarts \in Nat
  /\ ParentOf \in [Place -> Folder \cup {Destination}]

VARIABLES
  disk,       \* what is at each path, and whose it is
  extractor   \* Archive::extract

vars == <<disk, extractor>>

Nobody == [kind |-> "none", by |-> "none"]
Stopped == [at |-> "idle", left |-> {}]

Init ==
  /\ disk = [p \in Place |-> Nobody]
  /\ extractor = [at |-> "idle", left |-> {}, starts |-> 0]

-----------------------------------------------------------------------------
There(p) == p # Destination => disk[p].kind = "folder"
Made(p, kind) == disk' = [disk EXCEPT ![p] = [kind |-> kind, by |-> "archive"]]
Goes(at, left) == extractor' = [extractor EXCEPT !.at = at, !.left = left]

Start ==
  /\ extractor.at = "idle" /\ extractor.starts < MaxStarts
  /\ extractor' = [at |-> "next", left |-> Place, starts |-> extractor.starts + 1]
  /\ UNCHANGED disk

\* directory, for a folder or for what is in it: what stands there must be a
\* folder, and not a link.
Needed(p) == p \in extractor.left \/ \E q \in extractor.left : ParentOf[q] = p
MakeFolder(p) ==
  /\ extractor.at = "next" /\ p \in Folder /\ Needed(p) /\ There(ParentOf[p])
  /\ \/ disk[p].kind = "none" /\ Made(p, "folder") /\ Goes("next", extractor.left \ {p})
     \/ disk[p].kind = "folder" /\ UNCHANGED disk /\ Goes("next", extractor.left \ {p})
     \/ disk[p].kind # "folder" /\ UNCHANGED disk /\ Goes("idle", {})

Step(p) == extractor.at = "next" /\ p \in extractor.left \ Folder /\ There(ParentOf[p])
CreateFile(p) ==
  /\ Step(p)
  /\ IF disk[p].kind = "none"
     THEN Made(p, "partial") /\ extractor' = [extractor EXCEPT !.at = p]
     ELSE UNCHANGED disk /\ Goes("idle", {})

\* The decoder fills the file that is open, or throws, and the file is deleted.
DeletedInAnyCase(p) ==
  \/ /\ extractor.at = p /\ Made(p, "whole") /\ Goes("next", extractor.left \ {p})
  \/ /\ extractor.at = p \/ Step(p)
     /\ disk' = [disk EXCEPT ![p] = Nobody] /\ Goes("idle", {})

FillFile(p) ==
  \/ /\ extractor.at = p /\ Made(p, "whole") /\ Goes("next", extractor.left \ {p})
  \/ /\ extractor.at = p
     /\ disk' = [disk EXCEPT ![p] = Nobody] /\ Goes("idle", {})

Finish ==
  /\ extractor.at = "next" /\ extractor.left = {} /\ Goes("idle", {})
  /\ UNCHANGED disk

\* Other programs make and remove things, but not the file that is open.
Others(p, kind) ==
  /\ disk[p].kind = "none" /\ There(ParentOf[p])
  /\ disk' = [disk EXCEPT ![p] = [kind |-> kind, by |-> "others"]]
  /\ UNCHANGED extractor

Removed(p) ==
  /\ disk[p].kind # "none" /\ extractor.at # p
  /\ ~\E q \in Place : ParentOf[q] = p /\ disk[q].kind # "none"
  /\ disk' = [disk EXCEPT ![p] = Nobody]
  /\ UNCHANGED extractor

Next ==
  \/ Start \/ Finish
  \/ \E p \in Place : MakeFolder(p) \/ CreateFile(p) \/ FillFile(p) \/ Removed(p)
  \/ \E p \in Place, kind \in {"folder", "file", "link"} : Others(p, kind)

Spec == Init /\ [][Next]_vars

-----------------------------------------------------------------------------
\* Every variable keeps its type.
TypeOK ==
  /\ \A p \in Place : disk[p].kind \in {"none", "folder", "file", "link", "partial", "whole"}
  /\ extractor.at \in {"idle", "next"} \cup Place /\ extractor.left \subseteq Place

\* The extraction itself never takes away or fills what others have put there,
\* whatever they do at the same time; and it never leaves a part of a file.
KeepsOthers ==
  extractor' # extractor => \A p \in Place : disk[p].by = "others" => disk'[p] = disk[p]
PartIsOpen == \A p \in Place : disk[p].kind = "partial" => extractor.at = p
=============================================================================
