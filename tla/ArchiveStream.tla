---------------------------- MODULE ArchiveStream ----------------------------
(***************************************************************************)
(* The stream by which the Shell reads an entry that was copied or dragged *)
(* out of an archive.  A large entry is decoded a window at a time: each   *)
(* window replays the entry from its beginning, skips what precedes the    *)
(* window, and stops the decoder when the window is full.                  *)
(*                                                                         *)
(* A byte is named by its place in the entry.  Whether what a decoder      *)
(* produced was damaged, it tells only at its end; it may also fail at any *)
(* time (memory, the disk).  The reader reads, seeks, and goes on with a   *)
(* clone of the stream as it likes, one call at a time (the stream's mutex *)
(* serialises them).                                                       *)
(*                                                                         *)
(* Next does not use SkippedAgain, RangeIgnored and StopsAtEnd (wrong      *)
(* variants of the definitions they precede, to test properties).          *)
(***************************************************************************)
EXTENDS Integers, SequencesExt

CONSTANTS
  Nothing,
  Size,     \* the entry's size, as its archive's index has it
  Window,   \* bytes of a window: 8 MiB
  MaxWrite  \* bound: bytes that the decoder writes at a time, or the reader asks for

\* What every instance assumes of its constants.
SizeAssumption == Size \in Nat \ {0} /\ Window \in Nat \ {0} /\ MaxWrite \in Nat \ {0}

VARIABLES
  entry,     \* how it is read, how much its decoder produces, and whether that is damaged
  position,
  windowStart,
  window,    \* places of the bytes kept
  read,      \* the call of Read in progress or the last one
  decoder,   \* the call of the decoder in progress: class Output
  failed     \* auxiliary: some decoding has failed

vars == <<entry, position, windowStart, window, read, decoder, failed>>

NoDecoder == [at |-> 0, skip |-> 0, remaining |-> 0, bytes |-> <<>>, stopAfterRange |-> FALSE]

Entry == [large : BOOLEAN, produced : {Size - 1, Size, Size + 1}, damaged : BOOLEAN]

Init ==
  /\ entry = Nothing
  /\ position = 0 /\ windowStart = 0 /\ window = <<>>
  /\ read = [at |-> "done", from |-> 0, size |-> 0, got |-> <<>>]
  /\ decoder = NoDecoder
  /\ failed = FALSE

-----------------------------------------------------------------------------
Places(from, n) == [i \in 1..n |-> from + i - 1]
Wanted == read.size - Len(read.got)

\* A small entry is decoded as a whole, and kept.
Missed ==
  \/ window = <<>>
  \/ entry.large /\ (position < windowStart \/ position >= windowStart + Len(window))

\* GetData hands out a stream; the entry is whatever the archive has there.
GetData ==
  /\ entry = Nothing /\ entry' \in Entry
  /\ UNCHANGED <<position, windowStart, window, read, decoder, failed>>

Read(size) ==
  /\ entry # Nothing /\ read.at = "done"
  /\ read' = [at |-> "reading", from |-> position, size |-> size, got |-> <<>>]
  /\ UNCHANGED <<entry, position, windowStart, window, decoder, failed>>

\* Read's loop is over: it has what was asked for, or is at the end.
Return ==
  /\ read.at = "reading" /\ (Wanted = 0 \/ position >= Size)
  /\ read' = [read EXCEPT !.at = "done"]
  /\ UNCHANGED <<entry, position, windowStart, window, decoder, failed>>

\* readRange.  The window's start is set before its bytes are there.
StopsAtEnd(offset, length) == offset + length <= Size
StopAfterRange(offset, length) == offset + length < Size

Decode ==
  LET length == Min({Window, Size - position})
      start == IF entry.large THEN position ELSE 0
      n == IF entry.large THEN length ELSE entry.produced IN
    /\ read.at = "reading" /\ Wanted > 0 /\ position < Size /\ Missed
    /\ windowStart' = start
    /\ decoder' = [at |-> 0, skip |-> start, remaining |-> n, bytes |-> <<>>,
                   stopAfterRange |-> entry.large /\ StopAfterRange(position, length)]
    /\ read' = [read EXCEPT !.at = "decoding"]
    /\ UNCHANGED <<entry, position, window, failed>>

\* Output::Write, of the n bytes that come next; it aborts the decoder when the
\* range is complete and something of the entry follows.
Appended(n, bypass, skip, take) ==
  [decoder EXCEPT !.at = @ + n, !.skip = skip, !.remaining = @ - Min({@, take}),
                  !.bytes = @ \o Places(decoder.at + bypass, take)]

SkippedAgain(n) ==
  LET bypass == Min({decoder.skip, n}) IN
    Appended(n, bypass, decoder.skip, Min({decoder.remaining, n - bypass}))
RangeIgnored(n) ==
  LET bypass == Min({decoder.skip, n}) IN Appended(n, bypass, decoder.skip - bypass, n - bypass)
Written(n) ==
  LET bypass == Min({decoder.skip, n}) IN
    Appended(n, bypass, decoder.skip - bypass, Min({decoder.remaining, n - bypass}))

Aborts(n) == Written(n).remaining = 0 /\ decoder.stopAfterRange

Filled(bytes) ==
  /\ window' = bytes
  /\ decoder' = NoDecoder /\ read' = [read EXCEPT !.at = "copying"]
  /\ UNCHANGED <<entry, position, windowStart, failed>>

Write(n) ==
  /\ read.at = "decoding" /\ decoder.at + n <= entry.produced
  /\ IF Aborts(n) THEN Filled(Written(n).bytes)
     ELSE /\ decoder' = Written(n)
          /\ UNCHANGED <<entry, position, windowStart, window, read, failed>>

Complete ==
  /\ read.at = "decoding" /\ decoder.at = entry.produced /\ ~entry.damaged
  /\ Filled(decoder.bytes)

\* readRange throws, and Read reports a fault.
Fail ==
  /\ read.at = "decoding" /\ failed' = TRUE
  /\ decoder' = NoDecoder /\ read' = [read EXCEPT !.at = "done"]
  /\ UNCHANGED <<entry, position, windowStart, window>>

\* The bytes of the window from the position on; that there are none is a fault.
Copy ==
  LET kept == Len(window) - (position - windowStart)
      n == Min({Wanted, Size - position, IF kept > 0 THEN kept ELSE 0}) IN
    /\ \/ read.at = "copying"
       \/ read.at = "reading" /\ Wanted > 0 /\ position < Size /\ ~Missed
    /\ position' = position + n
    /\ read' = [read EXCEPT !.at = IF n = 0 THEN "done" ELSE "reading", !.got =
                  @ \o SubSeq(window, position - windowStart + 1, position - windowStart + n)]
    /\ UNCHANGED <<entry, windowStart, window, decoder, failed>>

Seek(p) ==
  /\ entry # Nothing /\ read.at = "done" /\ position' = p
  /\ UNCHANGED <<entry, windowStart, window, read, decoder, failed>>

\* The reader goes on with the clone: only the whole bytes of a small entry are shared.
Clone ==
  /\ entry # Nothing /\ entry.large /\ read.at = "done"
  /\ window' = <<>> /\ windowStart' = 0
  /\ UNCHANGED <<entry, position, read, decoder, failed>>

Next ==
  \/ GetData \/ Return \/ Decode \/ Complete \/ Fail \/ Copy \/ Clone
  \/ \E n \in 1..MaxWrite : Read(n) \/ Write(n)
  \/ \E p \in 0..Size : Seek(p)

Spec == Init /\ [][Next]_vars

-----------------------------------------------------------------------------
\* Every variable keeps its type; memory for a large entry is bounded by a window.
TypeOK ==
  /\ position \in 0..Size /\ windowStart \in 0..Size /\ failed \in BOOLEAN
  /\ entry # Nothing => entry \in Entry
  /\ entry # Nothing /\ entry.large =>
       Len(window) <= Window /\ Len(decoder.bytes) <= Window
  /\ read.at \in {"done", "reading", "decoding", "copying"} /\ Len(read.got) <= read.size

\* However a reader reads, seeks and clones, each byte it gets is the entry's byte
\* at the place it reads at, in whatever pieces the decoder writes and whether or
\* not the index tells the entry's size right; until a decoding fails.
Right == read.got = Places(read.from, Len(read.got))
ReadsRight == failed \/ Right

\* The same for every Read, of a stream that has reported a fault before, too.
AlwaysRight == Right

\* A reader that has been given the last byte, with no fault before, has been
\* given an entry that its decoder finds undamaged: its last window is the one
\* for which the decoder is not stopped.
EndMeansWhole ==
  ~failed /\ read.got # <<>> /\ read.from + Len(read.got) = Size => ~entry.damaged
=============================================================================
