------------------------------ MODULE WatchQueue ------------------------------
(***************************************************************************)
(* The queue from a directory watcher to the window, a ring of 16 MiB in   *)
(* the host's arena.  Its pages are given back when the first directory is *)
(* read, and committed again before the host's producer (external) copies  *)
(* a record there and publishes the count of bytes written.                *)
(*                                                                         *)
(* Next does not use EveryPage and IfRoom (wrong variants of the           *)
(* definitions they precede, to test properties).                          *)
(***************************************************************************)
EXTENDS Integers

CONSTANTS
  Start,      \* offset of the ring in its first page
  Capacity,   \* bytes of the ring
  PageSize,
  MaxRecord,  \* bound: bytes of a record
  MaxWritten  \* bound: bytes written

\* What every instance assumes of its constants.
QueueAssumption ==
  /\ Start \in Nat /\ Capacity \in Nat \ {0} /\ PageSize \in Nat \ {0}
  /\ MaxRecord \in Nat /\ MaxWritten \in Nat

VARIABLES
  committed,    \* pages
  written, read,
  record,       \* bytes of the record that the producer is about to copy
  watcher

vars == <<committed, written, read, record, watcher>>

PageOf(i) == (Start + i) \div PageSize    \* of a byte of the ring
Pages == {PageOf(i) : i \in 0..(Capacity - 1)}

Init ==
  /\ committed = Pages
  /\ written = 0 /\ read = 0 /\ record = 0
  /\ watcher = "zeroed"  \* StartupWatchZero has recorded the ring

-----------------------------------------------------------------------------
\* StartupWatchRead: only whole pages, which hold nothing else of the arena.
EveryPage == Pages
Interior == {p \in Pages : p * PageSize >= Start /\ (p + 1) * PageSize <= Start + Capacity}

FirstRead ==
  /\ watcher = "zeroed" /\ watcher' = "watching"
  /\ committed' = committed \ Interior
  /\ UNCHANGED <<written, read, record>>

\* StartupWatchQueue: what the record takes of the ring, to its end and from its
\* beginning.  A record larger than the ring is left to the producer.
Offset == written % Capacity
Taken(bytes) == {PageOf(i % Capacity) : i \in Offset..(Offset + bytes - 1)}
IfRoom(bytes) == IF written - read + bytes <= Capacity THEN Taken(bytes) ELSE {}
Needed(bytes) == Taken(bytes)

Serialize(bytes) ==
  /\ watcher = "watching" /\ written + bytes <= MaxWritten
  /\ record' = bytes
  /\ watcher' = IF bytes <= Capacity THEN "committing" ELSE "queueing"
  /\ UNCHANGED <<committed, written, read>>

Commit ==
  /\ watcher = "committing"
  /\ committed' = committed \cup Needed(record) /\ watcher' = "queueing"
  /\ UNCHANGED <<written, read, record>>

\* There is no memory until the watcher is told to stop.
Cancel ==
  /\ watcher = "committing" /\ watcher' = "stopped"
  /\ UNCHANGED <<committed, written, read, record>>

\* The host's producer (external) looks for room, which the window may have made
\* meanwhile, copies and publishes.
Publish ==
  /\ watcher = "queueing" /\ watcher' = "watching"
  /\ written' = IF written - read + record <= Capacity THEN written + record ELSE written
  /\ record' = 0
  /\ UNCHANGED <<committed, read>>

\* The window takes what is published.
Consume(bytes) ==
  /\ read + bytes <= written /\ read' = read + bytes
  /\ UNCHANGED <<committed, written, record, watcher>>

Next ==
  \/ FirstRead \/ Commit \/ Cancel \/ Publish
  \/ \E bytes \in 1..MaxRecord : Serialize(bytes) \/ Consume(bytes)

Spec == Init /\ [][Next]_vars

-----------------------------------------------------------------------------
\* Every variable keeps its type.
TypeOK ==
  /\ committed \subseteq Pages /\ written \in 0..MaxWritten /\ read \in 0..written
  /\ watcher \in {"zeroed", "watching", "committing", "queueing", "stopped"}

\* Neither side meets a page that is not there: those of the bytes between the
\* counts, of the record that finds room, and of the ring's neighbours, wherever
\* in the ring the record wraps.
NoFault ==
  /\ \A i \in read..(written - 1) : PageOf(i % Capacity) \in committed
  /\ watcher = "queueing" /\ written - read + record <= Capacity =>
       \A i \in written..(written + record - 1) : PageOf(i % Capacity) \in committed
  /\ \A p \in Pages :
       p * PageSize < Start \/ (p + 1) * PageSize > Start + Capacity => p \in committed
=============================================================================
