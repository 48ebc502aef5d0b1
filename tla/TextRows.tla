------------------------------ MODULE TextRows ------------------------------
(***************************************************************************)
(* Rows of text that the host cannot draw itself.  Each window keeps the   *)
(* rows it has rasterised, within a budget, for the host's commands to     *)
(* point to; a raster is put in a read-only mapping that other windows     *)
(* take instead of making their own.  When fonts change, every window is   *)
(* told, and counts up an epoch that is part of the mappings' names.       *)
(*                                                                         *)
(* A row is known by its text, size, family and width; names do not        *)
(* collide.  The resource budget is enabled, and the epoch's mapping is    *)
(* had.  DirectWrite (external) gives a window the fonts there are when it *)
(* first draws, new ones at any later time, and the newest after the       *)
(* window was told of them.  A raster is known by its row and the version  *)
(* of the fonts, on which its size depends.                                *)
(*                                                                         *)
(* Next does not use HalfWritten, GlyphsKept, FirstGoes and StampOnly      *)
(* (wrong variants of the definitions they precede, to test properties).   *)
(***************************************************************************)
EXTENDS Integers, Sequences, FiniteSetsExt, SequencesExt

CONSTANTS
  Window, Row, NoRow,
  SizeOf,        \* of the raster of a row, by version of the fonts
  Slots,         \* kNativeRowCacheEntries
  GlyphEntries,  \* kGlyphCacheEntries
  Budget,        \* g_rowBudget, without and with memory pressure
  MaxFonts       \* bounds the changes of the fonts

\* What every instance assumes of its constants.
RowAssumption ==
  /\ NoRow \notin Row /\ Slots \in Nat \ {0} /\ GlyphEntries \in Nat \ {0}
  /\ MaxFonts \in Nat \ {0} /\ Budget \subseteq Nat /\ Budget # {}
  /\ SizeOf \in [Row -> [1..MaxFonts -> Nat \ {0}]]

VARIABLES
  fonts,    \* the version of the fonts that are installed
  epoch,    \* SharedRows::epoch, of each namespace
  shared,   \* the mappings that somebody holds
  window,   \* g_nativeRowCache and the draw in progress, of each window
  untold    \* a window ended without having been told of new fonts (auxiliary)

vars == <<fonts, epoch, shared, window, untold>>

Version == 1..MaxFonts
NoName == <<>>
Absent ==
  [pc |-> "absent", namespace |-> 1, seen |-> 0, sees |-> 1, told |-> TRUE, budget |-> Max(Budget),
   rows |-> <<>>, glyphs |-> <<>>, row |-> NoRow, name |-> NoName]

Init ==
  /\ fonts = 1 /\ epoch = [n \in Version |-> 0] /\ shared = <<>> /\ untold = FALSE
  /\ window = [p \in Window |-> Absent]

At(p, pc) == window[p].pc = pc
Alive(p) == ~At(p, "absent")

\* A mapping is there as long as somebody holds a handle to it, and so is the epoch.
Holds(w, name) == w.name = name \/ \E i \in DOMAIN w.rows : w.rows[i].shared = name
Goes(p, w, mappings) ==
  /\ window' = [window EXCEPT ![p] = w]
  /\ shared' = LET held == {n \in DOMAIN mappings : \E q \in Window : Holds(window'[q], n)}
               IN [n \in held |-> mappings[n]]

\* The first row that a window draws: SharedRows::Init.
Join(p) ==
  /\ At(p, "absent")
  /\ Goes(p, [Absent EXCEPT !.pc = "idle", !.namespace = fonts, !.sees = fonts,
                            !.seen = epoch[fonts]], shared)
  /\ UNCHANGED <<fonts, epoch, untold>>

Install ==
  /\ fonts < MaxFonts /\ fonts' = fonts + 1
  /\ window' = [p \in Window |-> [window[p] EXCEPT !.told = ~Alive(p)]]
  /\ UNCHANGED <<epoch, shared, untold>>

\* UnicodeCacheMaintenance: fonts have changed, the memory is looked at, a frame begins.
FontChange(p) ==
  /\ At(p, "idle") /\ ~window[p].told
  /\ window' = [window EXCEPT ![p].told = TRUE, ![p].sees = fonts]
  /\ epoch' = [epoch EXCEPT ![window[p].namespace] = @ + 1]
  /\ UNCHANGED <<fonts, shared, untold>>
Memory(p) ==
  /\ At(p, "idle") /\ \E b \in Budget : window' = [window EXCEPT ![p].budget = b]
  /\ UNCHANGED <<fonts, epoch, shared, untold>>
Frame(p) ==
  /\ At(p, "idle")
  /\ window' = [window EXCEPT ![p].rows =
       [i \in DOMAIN @ |-> [@[i] EXCEPT !.pinned = FALSE, !.drawn = FALSE]]]
  /\ UNCHANGED <<fonts, epoch, shared, untold>>

(***************************************************************************)
(* MakeRowRoom and RowVictim.  The rows are in the order of their stamps;  *)
(* the oldest goes that no command of this frame points to.                *)
(***************************************************************************)
Bytes(rows) == MapThenSumSet(LAMBDA i : rows[i].bytes, DOMAIN rows)
FirstGoes(rows) == IF rows = <<>> THEN {} ELSE {1}
Victims(rows) == {i \in DOMAIN rows : ~rows[i].pinned}
Evicted(rows) == RemoveAt(rows, Min(Victims(rows)))
Shrunk(rows, room) ==
  LET After[n \in 0..Len(rows)] ==   \* n rounds
        IF n = 0 THEN rows
        ELSE IF Bytes(After[n - 1]) > room /\ Victims(After[n - 1]) # {}
        THEN Evicted(After[n - 1]) ELSE After[n - 1]
  IN  After[Len(rows)]
HasRoom(rows, room) == Bytes(rows) <= room /\ (Len(rows) < Slots \/ Victims(rows) # {})
Inserted(rows, entry) == Append(IF Len(rows) < Slots THEN rows ELSE Evicted(rows), entry)
Entry(row, version, name) ==
  [row |-> row, fresh |-> TRUE, size |-> version, pixels |-> version, shared |-> name,
   bytes |-> SizeOf[row][version], pinned |-> TRUE, drawn |-> FALSE]

\* FindOrCreateNativeRow sees that fonts have changed, somewhere.
GlyphsKept(w, now) ==
  IF w.seen = now THEN w
  ELSE [w EXCEPT !.seen = now, !.rows = [i \in DOMAIN @ |-> [@[i] EXCEPT !.fresh = FALSE]]]
Refreshed(w, now) ==
  IF w.seen = now THEN w
  ELSE [w EXCEPT !.seen = now, !.glyphs = <<>>,
                 !.rows = [i \in DOMAIN @ |-> [@[i] EXCEPT !.fresh = FALSE]]]

\* A row that is cached is drawn, and stays for this frame.
Found(w, r) == {i \in DOMAIN w.rows : w.rows[i].row = r /\ w.rows[i].fresh}
StampOnly(entry) == [entry EXCEPT !.drawn = TRUE]
Drawn(entry) == [entry EXCEPT !.pinned = TRUE, !.drawn = TRUE]
Hit(w, i) == [w EXCEPT !.rows = Append(RemoveAt(@, i), Drawn(@[i]))]
Draw(p, r) ==
  /\ At(p, "idle")
  /\ LET w == Refreshed(window[p], epoch[window[p].namespace])
     IN Goes(p, IF Found(w, r) # {} THEN Hit(w, Min(Found(w, r)))
                ELSE [w EXCEPT !.pc = "missed", !.row = r], shared)
  /\ UNCHANGED <<fonts, epoch, untold>>

\* SharedRows::Name, with the epoch of now; and a mapping of it that is complete.
Name(p) == <<window[p].namespace, window[p].row, epoch[window[p].namespace]>>
HalfWritten(name) == name \in DOMAIN shared
Match(name) == name \in DOMAIN shared /\ shared[name].ready

Ended(w) == [w EXCEPT !.pc = "idle", !.row = NoRow, !.name = NoName]
Submitted(w) ==
  [Ended(w) EXCEPT !.rows = Append(Front(@), Drawn(Last(@)))]

\* SharedRows::Open finds the raster, for which there may be no room.
OpenShared(p) ==
  /\ At(p, "missed") /\ Match(Name(p))
  /\ LET w == window[p]
         entry == Entry(w.row, shared[Name(p)].version, Name(p))
         rows == Shrunk(w.rows, w.budget - entry.bytes)
     IN Goes(p, IF HasRoom(rows, w.budget - entry.bytes)
                THEN Submitted([w EXCEPT !.rows = Inserted(rows, entry)])
                ELSE [w EXCEPT !.rows = rows, !.pc = "unshared"], shared)
  /\ UNCHANGED <<fonts, epoch, untold>>
\* It is not there, not complete, or cannot be mapped.
OpenNone(p) ==
  /\ At(p, "missed")
  /\ Goes(p, [window[p] EXCEPT !.pc = "unshared"], shared)
  /\ UNCHANGED <<fonts, epoch, untold>>

\* FindOrCreateGlyphEntry: the shaped text, which may be there from before.
Shaped(w) == {i \in DOMAIN w.glyphs : w.glyphs[i].row = w.row}
Shapes(w) == IF Shaped(w) # {} THEN {w.glyphs[Min(Shaped(w))].version} ELSE w.sees..fonts
Glyphs(w, v) ==
  LET others == IF Shaped(w) # {} THEN RemoveAt(w.glyphs, Min(Shaped(w)))
                ELSE IF Len(w.glyphs) = GlyphEntries THEN Tail(w.glyphs) ELSE w.glyphs
  IN Append(others, [row |-> w.row, version |-> v])
Build(p) ==
  /\ At(p, "unshared")
  /\ \E v \in Shapes(window[p]) :
       LET w == [window[p] EXCEPT !.glyphs = Glyphs(window[p], v), !.sees = Max({@, v})]
           entry == Entry(w.row, v, NoName)
           rows == Shrunk(w.rows, w.budget - entry.bytes)
       IN Goes(p, IF HasRoom(rows, w.budget - entry.bytes)
                  THEN [w EXCEPT !.rows = Inserted(rows, entry), !.pc = "built"]
                  ELSE Ended([w EXCEPT !.rows = rows]), shared)
  /\ UNCHANGED <<fonts, epoch, untold>>
\* The text is left to the host: it cannot be shaped (the oldest entry is gone), or
\* there is nothing to see, or no memory (perhaps with room already made).
BuildFails(p) ==
  /\ At(p, "unshared")
  /\ LET w == window[p]
     IN \/ /\ Shaped(w) = {}
           /\ Goes(p, Ended([w EXCEPT !.glyphs = IF Len(@) = GlyphEntries THEN Tail(@) ELSE @]),
                   shared)
        \/ \E v \in Shapes(w) :
             \E rows \in {w.rows, Shrunk(w.rows, w.budget - SizeOf[w.row][v])} :
               Goes(p, Ended([w EXCEPT !.glyphs = Glyphs(w, v), !.sees = Max({@, v}),
                                       !.rows = rows]), shared)
  /\ UNCHANGED <<fonts, epoch, untold>>

\* SharedRows::Publish creates the mapping, or finds that there is one already.
Publish(p) ==
  /\ At(p, "built")
  /\ IF Name(p) \in DOMAIN shared
     THEN Goes(p, [window[p] EXCEPT !.pc = "reopening"], shared)
     ELSE Goes(p, [window[p] EXCEPT !.pc = "publishing", !.name = Name(p)],
               [n \in DOMAIN shared \cup {Name(p)} |->
                  IF n = Name(p) THEN [ready |-> FALSE, version |-> Last(window[p].rows).size]
                  ELSE shared[n]])
  /\ UNCHANGED <<fonts, epoch, untold>>
\* The raster is copied, the mapping is ready, and the own pixels are freed.
Ready(p) ==
  /\ At(p, "publishing")
  /\ LET w == window[p]
     IN Goes(p, Submitted([w EXCEPT !.rows = Append(Front(@), [Last(@) EXCEPT !.shared = w.name])]),
             [shared EXCEPT ![w.name].ready = TRUE])
  /\ UNCHANGED <<fonts, epoch, untold>>
\* The raster of the other is taken, but for its size.
Reopen(p) ==
  /\ At(p, "reopening") /\ Match(Name(p))
  /\ LET theirs(e) == [e EXCEPT !.shared = Name(p), !.pixels = shared[Name(p)].version]
     IN Goes(p, Submitted([window[p] EXCEPT !.rows = Append(Front(@), theirs(Last(@)))]), shared)
  /\ UNCHANGED <<fonts, epoch, untold>>
\* Nothing is shared: no mapping or view is had, or the other's is not complete.
Private(p) ==
  /\ window[p].pc \in {"built", "publishing", "reopening"}
  /\ Goes(p, Submitted(window[p]), shared)
  /\ UNCHANGED <<fonts, epoch, untold>>

Die(p) ==
  /\ Alive(p) /\ untold' = (untold \/ ~window[p].told)
  /\ Goes(p, Absent, shared)
  /\ epoch' = [n \in Version |->
       IF \E q \in Window : window'[q].pc # "absent" /\ window'[q].namespace = n
       THEN epoch[n] ELSE 0]
  /\ UNCHANGED fonts

Looks(p) == OpenShared(p) \/ OpenNone(p) \/ Reopen(p)
Rasterises(p) == Build(p) \/ BuildFails(p) \/ Publish(p) \/ Ready(p) \/ Private(p)
Maintains(p) == FontChange(p) \/ Memory(p) \/ Frame(p)

Next ==
  \/ Install
  \/ \E p \in Window :
       Join(p) \/ Maintains(p) \/ (\E r \in Row : Draw(p, r)) \/ Looks(p) \/ Rasterises(p) \/ Die(p)

Spec == Init /\ [][Next]_vars

-----------------------------------------------------------------------------
\* Every variable keeps its type.
TypeOK ==
  /\ fonts \in Version /\ untold \in BOOLEAN
  /\ \A n \in Version : epoch[n] \in Nat
  /\ \A n \in DOMAIN shared : shared[n].ready \in BOOLEAN /\ shared[n].version \in Version
  /\ \A p \in Window : LET w == window[p] IN
       /\ w.sees \in 1..fonts /\ w.budget \in Budget /\ Len(w.glyphs) <= GlyphEntries
       /\ Alive(p) => w.seen <= epoch[w.namespace]

\* A cache keeps to its slots and to the budget that there ever is, whatever is pinned.
Budgeted ==
  \A p \in Window : Len(window[p].rows) <= Slots /\ Bytes(window[p].rows) <= Max(Budget)

\* A row that is taken from another window is a complete one, for as long as it is
\* pointed to, however its author ends.
Complete ==
  \A p \in Window : \A i \in DOMAIN window[p].rows :
    LET e == window[p].rows[i]
    IN e.shared # NoName => e.shared \in DOMAIN shared /\ shared[e.shared].ready
                            /\ shared[e.shared].version = e.pixels

(***************************************************************************)
(* Once all windows have been told of the new fonts, what a window finds   *)
(* in its cache is of these, in its pixels as in its size.  The exception  *)
(* are windows that end before they are told: a raster that they made with *)
(* the old fonts may have been shared under the epoch of the new ones.     *)
(***************************************************************************)
Settled == ~untold /\ \A p \in Window : window[p].told
FontsFollow ==
  Settled => \A p \in Window : LET w == window[p] IN
    Alive(p) /\ w.seen = epoch[w.namespace] =>
      \A i \in DOMAIN w.rows :
        w.rows[i].fresh => w.rows[i].size = fonts /\ w.rows[i].pixels = fonts

\* As long as a frame is drawn, what its commands point to stays as it is.
Same(e, f) == e.row = f.row /\ e.size = f.size /\ e.pixels = f.pixels /\ e.shared = f.shared
DrawnStay ==
  \A p \in Window : \A i \in DOMAIN window[p].rows :
    window[p].rows[i].drawn /\ window'[p].pc # "absent" =>
      \E j \in DOMAIN window'[p].rows : Same(window[p].rows[i], window'[p].rows[j])
=============================================================================
