------------------------------ MODULE PageArena ------------------------------
(***************************************************************************)
(* The pages behind the slots of the shared history.  A batch is kept in a *)
(* chain of pages that its slot begins; the free pages are chained too.    *)
(* The caller holds the mutex and has marked the header dirty, so a death  *)
(* within a store closes the history (SharedHistory) and ends this module. *)
(*                                                                         *)
(* A batch of so many bytes is known by a name; the data of a page are the *)
(* name and the offset of what was copied there.                           *)
(*                                                                         *)
(* Next does not use WholePages and FullKept (wrong variants of the        *)
(* definitions they precede, to test properties).                          *)
(***************************************************************************)
EXTENDS Integers, SequencesExt

CONSTANTS
  Slot,
  Content,
  PageCount, PageSize,
  MaxBytes     \* bound: size of a batch

\* What every instance assumes of its constants.
ArenaAssumption == PageCount \in Nat \ {0} /\ PageSize \in Nat \ {0} /\ MaxBytes \in Nat

VARIABLES
  next, freePage, slots,  \* of the header
  data,                   \* the pages
  writer,                 \* writeSlot
  kept                    \* auxiliary: what was stored in each slot

vars == <<next, freePage, slots, data, writer, kept>>

Page == 0..(PageCount - 1)
noPage == PageCount
Empty == [first |-> 0, bytes |-> 0]
Nobody == [at |-> "idle"]
Nil == [name |-> "nothing", bytes |-> 0]
Lesser(m, n) == IF m < n THEN m ELSE n

Init ==
  /\ next = [p \in Page |-> p + 1] /\ freePage = 0
  /\ slots = [s \in Slot |-> Empty]
  /\ data = [p \in Page |-> <<>>]
  /\ writer = Nobody
  /\ kept = [s \in Slot |-> Nil]

-----------------------------------------------------------------------------
WholePages(bytes) == bytes \div PageSize
Pages(bytes) == (bytes + PageSize - 1) \div PageSize

\* The pages that begin with one, in their order.
After(page) == IF page = noPage THEN noPage ELSE next[page]
Chain(first, n) ==
  LET chain[i \in 1..n] == IF i = 1 THEN first ELSE After(chain[i - 1]) IN chain

\* releaseSlot: its pages go to the head of the free chain, one after the other.
Release(s) ==
  LET chain == Chain(slots[s].first, Pages(slots[s].bytes))
      n == Len(chain)
      Place(p) == CHOOSE i \in 1..n : chain[i] = p IN
    /\ next' = [p \in Page |-> IF p \notin ToSet(chain) THEN next[p]
                               ELSE IF Place(p) = 1 THEN freePage ELSE chain[Place(p) - 1]]
    /\ freePage' = IF n = 0 THEN freePage ELSE chain[n]
    /\ slots' = [slots EXCEPT ![s] = Empty]

Free(s) ==
  /\ writer = Nobody /\ Release(s)
  /\ kept' = [kept EXCEPT ![s] = Nil]
  /\ UNCHANGED <<data, writer>>

\* writeSlot releases what the slot has, then takes page after page.
Write(s, name, bytes) ==
  /\ writer = Nobody /\ Release(s)
  /\ writer' = [at |-> "writing", slot |-> s, name |-> name, size |-> bytes,
                offset |-> 0, previous |-> noPage]
  /\ kept' = [kept EXCEPT ![s] = Nil]
  /\ UNCHANGED data

Writing == writer # Nobody /\ writer.offset < writer.size

TakePage ==
  LET page == freePage
      count == Lesser(PageSize, writer.size - writer.offset)
      offset == writer.offset + count IN
    /\ Writing /\ page # noPage
    /\ freePage' = next[page]
    /\ next' = [p \in Page |-> IF p = page THEN noPage
                               ELSE IF p = writer.previous THEN page ELSE next[p]]
    /\ data' = [data EXCEPT ![page] = <<writer.name, writer.offset>>]
    /\ slots' = [slots EXCEPT ![writer.slot] =
         [first |-> IF writer.previous = noPage THEN page ELSE @.first, bytes |-> offset]]
    /\ writer' = [writer EXCEPT !.offset = offset, !.previous = page]
    /\ UNCHANGED kept

FullKept ==
  /\ Writing /\ freePage = noPage /\ writer' = Nobody
  /\ slots' = [slots EXCEPT ![writer.slot] = Empty]
  /\ UNCHANGED <<next, freePage, data, kept>>
Full ==
  /\ Writing /\ freePage = noPage
  /\ Release(writer.slot) /\ writer' = Nobody
  /\ UNCHANGED <<data, kept>>

Written ==
  /\ writer # Nobody /\ writer.offset = writer.size /\ writer' = Nobody
  /\ kept' = [kept EXCEPT ![writer.slot] = [name |-> writer.name, bytes |-> writer.size]]
  /\ UNCHANGED <<next, freePage, slots, data>>

Next ==
  \/ TakePage \/ Full \/ Written
  \/ \E s \in Slot : Free(s)
  \/ \E s \in Slot, name \in Content, bytes \in 0..MaxBytes : Write(s, name, bytes)

Spec == Init /\ [][Next]_vars

-----------------------------------------------------------------------------
\* Every variable keeps its type.
TypeOK ==
  /\ next \in [Page -> Page \cup {noPage}] /\ freePage \in Page \cup {noPage}
  /\ \A s \in Slot : slots[s].first \in Page /\ slots[s].bytes \in 0..MaxBytes

Of(s) == Chain(slots[s].first, Pages(slots[s].bytes))
FreePages == ToSet(Chain(freePage, PageCount)) \ {noPage}

\* Whatever was stored, replaced, released or found no room, each page is free or
\* in the chain of one slot, and none is lost.
Apart ==
  /\ \A s \in Slot :
       /\ IsInjective(Of(s)) /\ ToSet(Of(s)) \subseteq Page \ FreePages
       /\ \A t \in Slot \ {s} : ToSet(Of(s)) \cap ToSet(Of(t)) = {}
  /\ FreePages \cup UNION {ToSet(Of(s)) : s \in Slot} = Page

\* readSlot gives what was stored last, though other slots were replaced since,
\* with sizes that fill their last page or not.
Read(s) == [i \in DOMAIN Of(s) |-> data[Of(s)[i]]]
ReadBack ==
  \A s \in Slot : kept[s] # Nil =>
    /\ slots[s].bytes = kept[s].bytes
    /\ Read(s) = [i \in 1..Pages(kept[s].bytes) |-> <<kept[s].name, (i - 1) * PageSize>>]
=============================================================================
