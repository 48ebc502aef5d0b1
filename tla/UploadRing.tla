------------------------------ MODULE UploadRing ------------------------------
(***************************************************************************)
(* Vertices for the graphics card.  StartupUpload appends each batch to    *)
(* what it has written to the buffer, which the card may still be reading, *)
(* and discards the buffer for a new backing store when it is full.  A     *)
(* device that is made anew may have its buffers at the same addresses.    *)
(*                                                                         *)
(* Next does not use Unbounded and CursorKept (wrong variants of the       *)
(* definitions they precede, to test properties).                          *)
(***************************************************************************)
EXTENDS Integers

CONSTANTS
  Buffer,     \* addresses
  Nothing,
  Size,       \* vertices that a buffer may be made for
  Limit,      \* of a batch: 8192
  MaxBatch,   \* bound: vertices asked for
  MaxStores   \* bound: backing stores

\* What every instance assumes of its constants.
UploadAssumption == Size \subseteq Nat /\ Limit \in Nat /\ MaxBatch \in Nat /\ MaxStores \in Nat

VARIABLES
  buffers,  \* of each address: its size, its backing store (0 if it has none yet), driver's answer
  upload,   \* g_uploadBuffer, cursor, capacity, append
  stores,   \* auxiliary: backing stores made
  draws     \* draws that the card has not done: store, vertices, and whether they are kept

vars == <<buffers, upload, stores, draws>>

Fresh(size) == [size |-> size, store |-> 0]
NoUpload == [buffer |-> Nothing, cursor |-> 0, capacity |-> 0, append |-> FALSE]

Init ==
  /\ buffers \in [Buffer -> {Fresh(size) : size \in Size}]
  /\ upload = NoUpload /\ stores = 0 /\ draws = {}

-----------------------------------------------------------------------------
Lesser(m, n) == IF m < n THEN m ELSE n

\* The buffer's description, asked for when another buffer comes.
Described(b, appendable) ==
  IF b = upload.buffer THEN upload
  ELSE [buffer |-> b, cursor |-> 0, capacity |-> Lesser(buffers[b].size, Limit),
        append |-> appendable]

Unbounded(now, n) == now.append /\ now.cursor > 0
Appends(now, n) == now.append /\ now.cursor > 0 /\ n <= now.capacity - now.cursor

Range(first, n) == first..(first + n - 1)
Overwritten(store, range) ==
  {[d EXCEPT !.kept = @ /\ ~(d.store = store /\ d.range \cap range # {})] : d \in draws}

\* D3D11_MAP_WRITE_NO_OVERWRITE, into the store there is.
Append(now, b, n) ==
  LET range == Range(now.cursor, n) IN
    /\ upload' = [now EXCEPT !.cursor = now.cursor + n]
    /\ draws' = Overwritten(buffers[b].store, range)
         \cup {[store |-> buffers[b].store, range |-> range, kept |-> TRUE, size |-> buffers[b].size]}
    /\ UNCHANGED <<buffers, stores>>

\* D3D11_MAP_WRITE_DISCARD, into a new one; `append' is what it is from now on.
Discard(now, b, n, append) ==
  /\ stores < MaxStores /\ stores' = stores + 1
  /\ buffers' = [buffers EXCEPT ![b].store = stores + 1]
  /\ upload' = [now EXCEPT !.cursor = n, !.append = append]
  /\ draws' = draws \cup
       {[store |-> stores + 1, range |-> Range(0, n), kept |-> TRUE, size |-> buffers[b].size]}

\* Map fails.
Lose(now) == upload' = [now EXCEPT !.cursor = 0] /\ UNCHANGED <<buffers, stores, draws>>

Upload(b, count, appendable) ==
  LET now == Described(b, appendable)
      n == Lesser(count, now.capacity) IN
    /\ n > 0
    /\ IF Appends(now, n)
       THEN \/ Append(now, b, n)
            \/ Discard(now, b, n, FALSE)
            \/ Lose([now EXCEPT !.append = FALSE])
       ELSE Discard(now, b, n, now.append) \/ Lose(now)

\* StartupD3D: buffers are made anew, at the same addresses.
CursorKept == upload
Forgotten == [upload EXCEPT !.buffer = Nothing, !.cursor = 0]

Recreate(size) ==
  /\ buffers' = [b \in Buffer |-> Fresh(size)]
  /\ upload' = Forgotten
  /\ draws' = {}
  /\ UNCHANGED stores

Drawn(d) ==
  /\ d \in draws /\ draws' = draws \ {d}
  /\ UNCHANGED <<buffers, upload, stores>>

Next ==
  \/ \E b \in Buffer, count \in 1..MaxBatch, appendable \in BOOLEAN : Upload(b, count, appendable)
  \/ \E size \in Size : Recreate(size)
  \/ \E d \in draws : Drawn(d)

Spec == Init /\ [][Next]_vars

-----------------------------------------------------------------------------
\* Every variable keeps its type.
TypeOK ==
  /\ upload.buffer \in Buffer \cup {Nothing} /\ stores \in 0..MaxStores
  /\ upload.cursor \in 0..upload.capacity

\* Vertices that the card has yet to draw are never overwritten, are within their
\* buffer, and are never appended to a buffer that was not written before, across
\* changes of the buffer, rejected appends and new devices.
Drawable ==
  \A d \in draws : d.kept /\ d.store # 0 /\ d.range \subseteq 0..(d.size - 1)
=============================================================================
