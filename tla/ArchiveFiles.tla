----------------------------- MODULE ArchiveFiles -----------------------------
(***************************************************************************)
(* Handles to entries of archives.  The hooks of File Pilot's imports give *)
(* the number of an event object for an entry of an archive, and keep what *)
(* it stands for in a table; real files and searches pass through to the   *)
(* kernel.  The archives that have been indexed are cached by path, size   *)
(* and time.  Any thread may call any hook.                                *)
(*                                                                         *)
(* A version of a file has a stamp (size and time) of its own, and an      *)
(* archive is replaced by another file, never written in place while a     *)
(* reader has it open (Input shares it for reading and deletion only).     *)
(* The kernel uses the number of a closed object again.                    *)
(*                                                                         *)
(* Next does not use MatchedByPath, InsertedTwice, NeverEvicted and        *)
(* ClosedFirst (wrong variants of the definitions they precede, to test    *)
(* properties).                                                            *)
(***************************************************************************)
EXTENDS Naturals, SequencesExt

CONSTANTS
  Thread, Path,
  Number,      \* values of handles
  Nothing,
  Capacity,    \* of the cache: 4
  MaxVersion   \* bound: versions of a file

\* What every instance assumes of its constants.
CapacityAssumption == Capacity \in Nat \ {0} /\ MaxVersion \in Nat \ {0}

VARIABLES
  disk,      \* version of the file at each path
  archives,  \* the cache, oldest first
  table,     \* `handles': what the number of a virtual handle stands for
  bins,      \* `recycleFindHandles'
  kernel,    \* kind of the object that a number is the handle of
  held,      \* auxiliary: what the application was given each number for
  thread

vars == <<disk, archives, table, bins, kernel, held, thread>>

Real == {"file", "search", "bin search"}  \* a bin search lists a recycle folder
Idle == [at |-> "idle", path |-> Nothing, stamp |-> 0, content |-> 0, number |-> Nothing]
NotHeld == [kind |-> "free", entry |-> Nothing]

Init ==
  /\ disk = [p \in Path |-> 1]
  /\ archives = <<>>
  /\ table = [n \in Number |-> Nothing]
  /\ bins = {}
  /\ kernel = [n \in Number |-> "free"]
  /\ held = [n \in Number |-> NotHeld]
  /\ thread = [t \in Thread |-> Idle]

-----------------------------------------------------------------------------
At(t, pc) == thread[t].at = pc
Goes(t, pc) == thread' = [thread EXCEPT ![t].at = pc]
Ends(t) == thread' = [thread EXCEPT ![t] = Idle]

MatchedByPath(p, stamp) == {a \in ToSet(archives) : a.path = p}
Cached(p, stamp) == {a \in ToSet(archives) : a.path = p /\ a.stamp = stamp}

Indexed(t, content) == [path |-> thread[t].path, stamp |-> thread[t].stamp, content |-> content]
NeverEvicted(archive) == Append(archives, archive)
Remembered(archive) ==
  Append(IF Len(archives) = Capacity THEN Tail(archives) ELSE archives, archive)

(***************************************************************************)
(* create and firstEx, for a path inside an archive: resolve takes the     *)
(* stamp of the archive's file, looks in the cache under its lock, opens   *)
(* the archive without the lock, and looks again before it adds it.        *)
(***************************************************************************)
Create(t, p) ==
  /\ At(t, "idle")
  /\ thread' = [thread EXCEPT ![t] = [Idle EXCEPT !.at = "looking", !.path = p, !.stamp = disk[p]]]
  /\ UNCHANGED <<disk, archives, table, bins, kernel, held>>

Lookup(t) ==
  /\ At(t, "looking")
  /\ LET hits == Cached(thread[t].path, thread[t].stamp) IN
       IF hits = {} THEN Goes(t, "opening")
       ELSE \E a \in hits : thread' = [thread EXCEPT ![t].at = "resolved", ![t].content = a.content]
  /\ UNCHANGED <<disk, archives, table, bins, kernel, held>>

OpenArchive(t) ==
  /\ At(t, "opening")
  /\ \/ thread' = [thread EXCEPT ![t].at = "opened", ![t].content = disk[thread[t].path]]
     \/ Ends(t)  \* Archive's constructor throws
  /\ UNCHANGED <<disk, archives, table, bins, kernel, held>>

InsertedTwice(t) ==
  /\ At(t, "opened") /\ Goes(t, "resolved")
  /\ archives' = Remembered(Indexed(t, thread[t].content))
  /\ UNCHANGED <<disk, table, bins, kernel, held>>

Insert(t) ==
  /\ At(t, "opened")
  /\ LET hits == Cached(thread[t].path, thread[t].stamp) IN
       IF hits = {}
       THEN archives' = Remembered(Indexed(t, thread[t].content)) /\ Goes(t, "resolved")
       ELSE /\ UNCHANGED archives
            /\ \E a \in hits :
                 thread' = [thread EXCEPT ![t].at = "resolved", ![t].content = a.content]
  /\ UNCHANGED <<disk, table, bins, kernel, held>>

\* The entry may be missing, or the access not allowed.
Refuse(t) ==
  /\ At(t, "resolved") /\ Ends(t)
  /\ UNCHANGED <<disk, archives, table, bins, kernel, held>>

\* put: an event gives the number, then the table gets it.
MakeEvent(t, n) ==
  /\ At(t, "resolved") /\ kernel[n] = "free"
  /\ kernel' = [kernel EXCEPT ![n] = "event"]
  /\ thread' = [thread EXCEPT ![t].at = "putting", ![t].number = n]
  /\ UNCHANGED <<disk, archives, table, bins, held>>

Put(t) ==
  LET virtual == Indexed(t, thread[t].content) IN
    /\ At(t, "putting") /\ Ends(t)
    /\ table' = [table EXCEPT ![thread[t].number] = virtual]
    /\ held' = [held EXCEPT ![thread[t].number] = [kind |-> "event", entry |-> virtual]]
    /\ UNCHANGED <<disk, archives, bins, kernel>>

(***************************************************************************)
(* A real file or search; firstEx notes that a search is one of a recycle  *)
(* folder, whose names it must not decorate.                               *)
(***************************************************************************)
OpenReal(t, n, kind) ==
  /\ At(t, "idle") /\ kernel[n] = "free"
  /\ kernel' = [kernel EXCEPT ![n] = kind]
  /\ IF kind = "bin search"
     THEN /\ thread' = [thread EXCEPT ![t].at = "noting", ![t].number = n]
          /\ UNCHANGED held
     ELSE /\ held' = [held EXCEPT ![n].kind = kind]
          /\ UNCHANGED thread
  /\ UNCHANGED <<disk, archives, table, bins>>

NoteBin(t) ==
  /\ At(t, "noting") /\ Ends(t)
  /\ bins' = bins \cup {thread[t].number}
  /\ held' = [held EXCEPT ![thread[t].number].kind = "bin search"]
  /\ UNCHANGED <<disk, archives, table, kernel>>

\* closeHandle and findClose: first the table, then the kernel.
Close(t, n) ==
  /\ At(t, "idle") /\ held[n] # NotHeld
  /\ held' = [held EXCEPT ![n] = NotHeld]
  /\ thread' = [thread EXCEPT ![t].at = "closing", ![t].number = n]
  /\ UNCHANGED <<disk, archives, table, bins, kernel>>

ClosedFirst(t) ==
  \/ /\ At(t, "closing") /\ Goes(t, "erased")
     /\ kernel' = [kernel EXCEPT ![thread[t].number] = "free"]
     /\ UNCHANGED <<disk, archives, table, bins, held>>
  \/ /\ At(t, "erased") /\ Ends(t)
     /\ table' = [table EXCEPT ![thread[t].number] = Nothing]
     /\ bins' = bins \ {thread[t].number}
     /\ UNCHANGED <<disk, archives, kernel, held>>

Closing(t) ==
  \/ /\ At(t, "closing") /\ Goes(t, "erased")
     /\ table' = [table EXCEPT ![thread[t].number] = Nothing]
     /\ bins' = bins \ {thread[t].number}
     /\ UNCHANGED <<disk, archives, kernel, held>>
  \/ /\ At(t, "erased") /\ Ends(t)
     /\ kernel' = [kernel EXCEPT ![thread[t].number] = "free"]
     /\ UNCHANGED <<disk, archives, table, bins, held>>

\* Somebody replaces an archive.
Replace(p) ==
  /\ disk[p] < MaxVersion
  /\ disk' = [disk EXCEPT ![p] = @ + 1]
  /\ UNCHANGED <<archives, table, bins, kernel, held, thread>>

Next ==
  \/ \E p \in Path : Replace(p)
  \/ \E t \in Thread :
       \/ Lookup(t) \/ OpenArchive(t) \/ Insert(t) \/ Refuse(t) \/ Put(t) \/ NoteBin(t) \/ Closing(t)
       \/ \E p \in Path : Create(t, p)
       \/ \E n \in Number : MakeEvent(t, n) \/ Close(t, n)
       \/ \E n \in Number, kind \in Real : OpenReal(t, n, kind)

Spec == Init /\ [][Next]_vars

-----------------------------------------------------------------------------
Archive == [path : Path, stamp : 1..MaxVersion, content : 1..MaxVersion]

\* Every variable keeps its type, and the cache its capacity.
TypeOK ==
  /\ disk \in [Path -> 1..MaxVersion]
  /\ Len(archives) <= Capacity /\ ToSet(archives) \subseteq Archive
  /\ bins \subseteq Number
  /\ \A n \in Number :
       /\ kernel[n] \in {"free", "event"} \cup Real
       /\ table[n] # Nothing => table[n] \in Archive

\* A handle never shows an archive older than the file that was at its path
\* when the handle was asked for, although the cache is not told of changes and
\* archives are opened and added without the lock between.
Fresh == \A n \in Number : table[n] # Nothing => table[n].content >= table[n].stamp

\* Threads that open the same version at once leave one copy of it in the cache.
OneReader ==
  \A i, j \in DOMAIN archives :
    archives[i].path = archives[j].path /\ archives[i].stamp = archives[j].stamp => i = j

\* A number that the application holds is looked up as what it was given for,
\* however closing it and opening others interleave: an entry as that entry, a
\* file or a search as no entry, and only a search of a recycle folder as such.
HandleKept ==
  \A n \in Number : held[n] # NotHeld =>
    /\ table[n] = held[n].entry /\ kernel[n] = held[n].kind
    /\ n \in bins <=> held[n].kind = "bin search"
=============================================================================
