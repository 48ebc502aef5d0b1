---------------------------- MODULE TabTransfer ----------------------------
(***************************************************************************)
(* Dragging a tab from one File Pilot window to another.  Every window is  *)
(* a process with one UI thread.  The source shows a preview in the window *)
(* under the cursor with a session of messages, and on release sends the   *)
(* tab and waits: WM_COPYDATA is sent and waited for, preview updates and  *)
(* ends are posted, so the two overtake each other.  A wait that times out *)
(* leaves its message with the target.                                     *)
(*                                                                         *)
(* A point on the screen is a window with the tab group in it, and points  *)
(* stand for places more than 64 pixels apart.  A session is a number      *)
(* never used before; the code mixes process, time and a counter.          *)
(*                                                                         *)
(* Next does not use EndedInPart, DeliveredIsTaken, NeverTaken, EndedByAny *)
(* and MatchesAnyPoint (wrong variants of the definitions they precede, to *)
(* test properties).                                                       *)
(***************************************************************************)
EXTENDS Naturals, Sequences, FiniteSets

CONSTANTS
  Window, Group, Tab,
  NoWindow, NoGroup, NoTab,
  First,         \* the windows that hold all tabs at first
  MaxSessions,   \* bound: previews begun
  MaxDrags,      \* bound: drags started
  MaxClosed,     \* bound: windows closed
  MaxPosted      \* bound: posted messages waiting when an update is posted

ASSUME AbsentAssumption == NoWindow \notin Window /\ NoGroup \notin Group /\ NoTab \notin Tab
ASSUME FirstAssumption == First \subseteq Window
ASSUME BoundAssumption == MaxSessions \in Nat /\ MaxDrags \in Nat /\ MaxClosed \in Nat /\ MaxPosted \in Nat

Point == [window : Window, group : Group]
Nowhere == [window |-> NoWindow, group |-> NoGroup]
NoSession == 0

VARIABLES
  up,        \* the windows that are open
  src,       \* of each window: its drag and its side of a preview
  remote,    \* of each window: g_remotePreview
  posted,    \* of each window: preview updates and ends
  sent,      \* of each window: preview begins and tabs
  at,        \* of each window: its tabs, each with the group it is in
  torn,      \* tabs for which a new window was started
  counts,    \* auxiliary: sessions and drags so far
  history    \* auxiliary: tabs copied, sent too late, closed with a window

vars == <<up, src, remote, posted, sent, at, torn, counts, history>>

NoDrag == [pc |-> "free", tab |-> NoTab, point |-> Nowhere, copying |-> FALSE, answer |-> "none",
           target |-> NoWindow, session |-> NoSession,
           rejected |-> NoWindow, due |-> FALSE, pulsed |-> FALSE]
NoPreview == [source |-> NoWindow, session |-> NoSession, point |-> Nowhere,
              fresh |-> FALSE, valid |-> FALSE, group |-> NoGroup, shown |-> Nowhere]

Init ==
  /\ up = Window
  /\ src = [w \in Window |-> NoDrag] /\ remote = [w \in Window |-> NoPreview]
  /\ posted = [w \in Window |-> <<>>] /\ sent = [w \in Window |-> <<>>]
  /\ \E place \in [Tab -> [window : First, group : Group]] :
       at = [w \in Window |-> [t \in Tab |-> IF place[t].window = w THEN place[t].group ELSE NoGroup]]
  /\ torn = {} /\ counts = [sessions |-> 0, drags |-> 0]
  /\ history = [copied |-> {}, late |-> {}, closed |-> {}]

-----------------------------------------------------------------------------
Has(w, t) == at[w][t] # NoGroup
Dragging(w) == src[w].tab # NoTab /\ src[w].pc # "sending"
Free(w) == w \in up /\ src[w].pc = "free"
\* FindCrossWindowTarget, for the point where GetCursorPos finds the mouse:
\* it moves freely, so every call has a point of its own.
Cursor == Point \cup {Nowhere}
Target(w, cursor) == IF cursor.window \in up \ {w} THEN cursor.window ELSE NoWindow

Post(queue, w, message) == IF w \in up THEN [queue EXCEPT ![w] = Append(@, message)] ELSE queue
Update(session, point) == [kind |-> "update", session |-> session, point |-> point]
Finish(session) == [kind |-> "end", session |-> session, point |-> Nowhere]

\* EndCrossWindowPreview: what is posted, and the source that remains.
Ending(w) == Post(posted, src[w].target, Finish(src[w].session))
EndedInPart(w) == [src[w] EXCEPT !.session = NoSession]
Ended(w) == [src[w] EXCEPT !.target = NoWindow, !.session = NoSession]
Put(w, source) == src' = [src EXCEPT ![w] = source]

Send(w, kind, session, cursor) ==
  sent' = [sent EXCEPT ![cursor.window] = Append(@,
    [kind |-> kind, source |-> w, session |-> session, point |-> cursor,
     tab |-> IF kind = "tab" THEN src[w].tab ELSE NoTab, waited |-> TRUE])]

-----------------------------------------------------------------------------
\* A tab is dragged; an older drag can only be one whose window is waiting.
StartDrag(w, t) ==
  /\ Free(w) /\ ~Dragging(w) /\ Has(w, t) /\ counts.drags < MaxDrags
  /\ \A v \in up : Dragging(v) => ~Free(v)
  /\ Put(w, [src[w] EXCEPT !.tab = t])
  /\ counts' = [counts EXCEPT !.drags = @ + 1]
  /\ UNCHANGED <<up, remote, posted, sent, at, torn, history>>

(***************************************************************************)
(* CrossWindowPreviewPulse, while a tab is dragged.                        *)
(***************************************************************************)
Pulsing(w) == Free(w) /\ Dragging(w) /\ UNCHANGED <<up, remote, at, torn, history>>

PulseAway(w, cursor) ==
  /\ Pulsing(w) /\ Target(w, cursor) = NoWindow
  /\ posted' = Ending(w) /\ Put(w, [Ended(w) EXCEPT !.pulsed = TRUE, !.rejected = NoWindow, !.due = FALSE])
  /\ UNCHANGED <<sent, counts>>

PulseSame(w, cursor) ==
  /\ Pulsing(w) /\ Target(w, cursor) # NoWindow /\ Target(w, cursor) = src[w].target
  /\ Len(posted[Target(w, cursor)]) < MaxPosted
  /\ posted' = Post(posted, Target(w, cursor), Update(src[w].session, cursor))
  /\ Put(w, [src[w] EXCEPT !.pulsed = TRUE])
  /\ UNCHANGED <<sent, counts>>

TooSoon(w, cursor) == Target(w, cursor) = src[w].rejected /\ ~src[w].due

PulseWait(w, cursor) ==
  /\ Pulsing(w) /\ Target(w, cursor) # NoWindow /\ Target(w, cursor) # src[w].target /\ TooSoon(w, cursor)
  /\ posted' = Ending(w) /\ Put(w, [Ended(w) EXCEPT !.pulsed = TRUE])
  /\ UNCHANGED <<sent, counts>>

PulseBegin(w, cursor) ==
  /\ Pulsing(w) /\ Target(w, cursor) # NoWindow /\ Target(w, cursor) # src[w].target /\ ~TooSoon(w, cursor)
  /\ counts.sessions < MaxSessions
  /\ counts' = [counts EXCEPT !.sessions = @ + 1]
  /\ posted' = Ending(w)
  /\ Send(w, "begin", counts'.sessions, cursor)
  /\ Put(w, [Ended(w) EXCEPT !.pulsed = TRUE, !.pc = "beginning", !.answer = "none", !.point = cursor,
                             !.session = counts'.sessions, !.target = NoWindow])

\* The message a window waits for is with its target until it is answered.
Waiting(w, b, i) == i \in 1..Len(sent[b]) /\ sent[b][i].source = w /\ sent[b][i].waited
Forsaken(w) ==
  [b \in Window |-> [i \in 1..Len(sent[b]) |->
     IF sent[b][i].source = w THEN [sent[b][i] EXCEPT !.waited = FALSE] ELSE sent[b][i]]]

\* BeginCrossWindowPreview returns, with an acknowledgement or after 100 ms.
Began(w) ==
  /\ w \in up /\ src[w].pc = "beginning" /\ src[w].answer = "yes"
  /\ LET b == src[w].point.window IN
       /\ posted' = Post(posted, b, Update(src[w].session, src[w].point))
       /\ Put(w, [src[w] EXCEPT !.pc = "free", !.answer = "none", !.point = Nowhere,
                                !.target = b, !.rejected = NoWindow, !.due = FALSE])
  /\ UNCHANGED <<up, remote, sent, at, torn, counts, history>>

BeginFails(w) ==
  /\ w \in up /\ src[w].pc = "beginning" /\ src[w].answer # "yes"
  /\ sent' = Forsaken(w)
  /\ Put(w, [src[w] EXCEPT !.pc = "free", !.answer = "none", !.point = Nowhere, !.session = NoSession,
                           !.rejected = src[w].point.window, !.due = FALSE])
  /\ UNCHANGED <<up, remote, posted, at, torn, counts, history>>

-----------------------------------------------------------------------------
(***************************************************************************)
(* The release: File Pilot rearranges its own tabs, or serializes the tab  *)
(* and calls CrossWindowTryTransfer; unless that returns 1 it starts a new *)
(* window.  A move then closes the tab; a copy (Ctrl) does not.            *)
(***************************************************************************)
Remaining(w, copying) == IF copying THEN at ELSE [at EXCEPT ![w][src[w].tab] = NoGroup]
Copied(copying, t) == [history EXCEPT !.copied = IF copying THEN @ \cup {t} ELSE @]
Dropped(source) == [source EXCEPT !.tab = NoTab, !.pc = "free", !.answer = "none", !.point = Nowhere,
                                  !.copying = FALSE]

ReleaseInside(w, cursor) ==
  /\ Free(w) /\ Dragging(w) /\ cursor.window = w
  /\ Put(w, Dropped(src[w]))
  /\ UNCHANGED <<up, remote, posted, sent, at, torn, counts, history>>

ReleaseOutside(w, cursor) ==
  /\ Free(w) /\ Dragging(w) /\ cursor.window # w
  /\ \/ Target(w, cursor) = NoWindow /\ posted' = Ending(w) /\ Put(w, Dropped(Ended(w)))
     \/ Target(w, cursor) # NoWindow /\ posted' = posted /\ Put(w, Dropped(src[w])) \* no memory
  /\ \E copying \in BOOLEAN :
       at' = Remaining(w, copying) /\ history' = Copied(copying, src[w].tab)
  /\ torn' = torn \cup {src[w].tab}
  /\ UNCHANGED <<up, remote, sent, counts>>

ReleaseOver(w, cursor) ==
  /\ Free(w) /\ Dragging(w) /\ Target(w, cursor) # NoWindow
  /\ Send(w, "tab", IF Target(w, cursor) = src[w].target THEN src[w].session ELSE NoSession, cursor)
  /\ \E copying \in BOOLEAN :
       /\ Put(w, [src[w] EXCEPT !.pc = "sending", !.answer = "none", !.point = cursor, !.copying = copying])
       /\ history' = Copied(copying, src[w].tab)
  /\ UNCHANGED <<up, remote, posted, at, torn, counts>>

\* CrossWindowTryTransfer returns 1.
DeliveredIsTaken(w) == src[w].answer # "none"
NeverTaken(w) == FALSE
Taken(w) == src[w].answer = "yes"

Transferred(w) ==
  /\ w \in up /\ src[w].pc = "sending" /\ Taken(w)
  /\ posted' = Ending(w) /\ Put(w, Dropped(Ended(w)))
  /\ at' = Remaining(w, src[w].copying)
  /\ UNCHANGED <<up, remote, sent, torn, counts, history>>

\* It returns 0, having been declined or after 2 s.
TornOff(w) ==
  /\ w \in up /\ src[w].pc = "sending" /\ ~Taken(w)
  /\ posted' = Ending(w) /\ Put(w, Dropped(Ended(w)))
  /\ at' = Remaining(w, src[w].copying) /\ torn' = torn \cup {src[w].tab}
  /\ sent' = Forsaken(w)
  /\ history' = [history EXCEPT !.late = IF src[w].answer = "none" THEN @ \cup {src[w].tab} ELSE @]
  /\ UNCHANGED <<up, remote, counts>>

-----------------------------------------------------------------------------
(***************************************************************************)
(* The receiving window, whose thread must not be waiting itself.          *)
(***************************************************************************)
Receives(b) == Free(b) /\ sent[b] # <<>>
\* IsFilePilotWindow: a closed window has no class name.
Genuine(message, kind) == message.kind = kind /\ message.source \in up
Reply(message, answer) ==
  src' = IF message.waited THEN [src EXCEPT ![message.source].answer = answer] ELSE src
Received(b) == sent' = [sent EXCEPT ![b] = Tail(@)]

ReceiveBegin(b) ==
  /\ Receives(b) /\ Received(b)
  /\ LET m == Head(sent[b]) IN
       /\ Genuine(m, "begin")
       /\ remote' = [remote EXCEPT ![b] = [NoPreview EXCEPT
            !.source = m.source, !.session = m.session, !.point = m.point, !.fresh = TRUE]]
       /\ Reply(m, "yes")
  /\ UNCHANGED <<up, posted, at, torn, counts, history>>

Expired(b) == IF remote[b].fresh THEN remote[b] ELSE NoPreview

MatchesAnyPoint(b, m) ==
  /\ m.session # NoSession /\ remote[b].fresh /\ remote[b].valid
  /\ remote[b].source = m.source /\ remote[b].session = m.session
Matches(b, m) ==
  /\ m.session # NoSession /\ remote[b].fresh /\ remote[b].valid
  /\ remote[b].source = m.source /\ remote[b].session = m.session
  /\ remote[b].shown = m.point

\* The group the previews showed, else the one at the point of release.
Destination(b, m) == IF Matches(b, m) THEN remote[b].group ELSE m.point.group

ReceiveTab(b) ==
  /\ Receives(b) /\ Received(b)
  /\ LET m == Head(sent[b]) IN
       /\ Genuine(m, "tab")
       /\ at' = [at EXCEPT ![b][m.tab] = Destination(b, m)]
       /\ remote' = [remote EXCEPT ![b] = NoPreview]
       /\ Reply(m, "yes")
  /\ UNCHANGED <<up, posted, torn, counts, history>>

\* The sender is gone, or for a tab: no frame drawn yet, no group to be
\* found, no memory or no valid panel.
Decline(b) ==
  /\ Receives(b) /\ Received(b)
  /\ LET m == Head(sent[b]) IN
       /\ ~Genuine(m, "begin")
       /\ \/ remote' = remote
          \/ m.session # NoSession /\ Genuine(m, "tab") /\ remote' = [remote EXCEPT ![b] = Expired(b)]
       /\ Reply(m, "no")
  /\ UNCHANGED <<up, posted, at, torn, counts, history>>

EndedByAny(b) ==
  /\ Free(b) /\ posted[b] # <<>>
  /\ posted' = [posted EXCEPT ![b] = Tail(@)]
  /\ LET m == Head(posted[b]) IN
       remote' = IF remote[b].session = NoSession THEN remote
                 ELSE IF m.kind = "end" THEN [remote EXCEPT ![b] = NoPreview]
                 ELSE [remote EXCEPT ![b].point = m.point, ![b].fresh = TRUE, ![b].valid = FALSE]
  /\ UNCHANGED <<up, src, sent, at, torn, counts, history>>

\* ReceiveRemotePreviewMessage.
ReceivePosted(b) ==
  /\ Free(b) /\ posted[b] # <<>>
  /\ posted' = [posted EXCEPT ![b] = Tail(@)]
  /\ LET m == Head(posted[b]) IN
       remote' = IF m.session # remote[b].session THEN remote
                 ELSE IF m.kind = "end" THEN [remote EXCEPT ![b] = NoPreview]
                 ELSE [remote EXCEPT ![b].point = m.point, ![b].fresh = TRUE, ![b].valid = FALSE]
  /\ UNCHANGED <<up, src, sent, at, torn, counts, history>>

\* A frame: the drop marker is drawn, which finds a group unless the point
\* calls for a split, and a preview that is no longer pulsed is ended.
Frame(b) ==
  /\ Free(b)
  /\ IF src[b].target # NoWindow /\ ~src[b].pulsed
     THEN posted' = Ending(b) /\ Put(b, Ended(b)) ELSE UNCHANGED <<posted, src>>
  /\ \/ remote' = [remote EXCEPT ![b] = Expired(b)]
     \/ /\ remote[b].fresh /\ ~Dragging(b)
        /\ remote' = [remote EXCEPT ![b].valid = TRUE, ![b].shown = remote[b].point,
                                    ![b].group = remote[b].point.group]
  /\ UNCHANGED <<up, sent, at, torn, counts, history>>

-----------------------------------------------------------------------------
\* 250 ms without an update, 250 ms without a pulse, 500 ms since a rejection.
Elapse(w) ==
  /\ \/ remote[w].fresh /\ remote' = [remote EXCEPT ![w].fresh = FALSE] /\ UNCHANGED src
     \/ src[w].pulsed /\ Put(w, [src[w] EXCEPT !.pulsed = FALSE]) /\ UNCHANGED remote
     \/ /\ src[w].rejected # NoWindow /\ ~src[w].due
        /\ Put(w, [src[w] EXCEPT !.due = TRUE]) /\ UNCHANGED remote
  /\ UNCHANGED <<up, posted, sent, at, torn, counts, history>>

\* A window is closed or its process fails: whoever waits for it is told.
Close(w) ==
  /\ w \in up /\ Cardinality(Window \ up) < MaxClosed /\ up' = up \ {w}
  /\ history' = [history EXCEPT !.closed = @ \cup {t \in Tab : Has(w, t)}]
  /\ at' = [at EXCEPT ![w] = [t \in Tab |-> NoGroup]]
  /\ remote' = [remote EXCEPT ![w] = NoPreview]
  /\ posted' = [posted EXCEPT ![w] = <<>>]
  /\ sent' = [b \in Window |-> IF b = w THEN <<>> ELSE Forsaken(w)[b]]
  /\ src' = [v \in Window |->
       IF v = w THEN NoDrag
       ELSE IF \E i \in 1..Len(sent[w]) : Waiting(v, w, i) THEN [src[v] EXCEPT !.answer = "no"]
       ELSE src[v]]
  /\ UNCHANGED <<torn, counts>>

Next ==
  \/ \E w \in Window :
       \/ \E t \in Tab : StartDrag(w, t)
       \/ \E cursor \in Cursor :
            \/ PulseAway(w, cursor) \/ PulseSame(w, cursor) \/ PulseWait(w, cursor) \/ PulseBegin(w, cursor)
            \/ ReleaseInside(w, cursor) \/ ReleaseOutside(w, cursor) \/ ReleaseOver(w, cursor)
       \/ Began(w) \/ BeginFails(w) \/ Transferred(w) \/ TornOff(w)
       \/ ReceiveBegin(w) \/ ReceiveTab(w) \/ Decline(w) \/ ReceivePosted(w)
       \/ Frame(w) \/ Elapse(w) \/ Close(w)

Spec == Init /\ [][Next]_vars

-----------------------------------------------------------------------------
Source ==
  [pc : {"free", "beginning", "sending"}, tab : Tab \cup {NoTab}, point : Point \cup {Nowhere},
   copying : BOOLEAN, answer : {"none", "yes", "no"}, target : Window \cup {NoWindow},
   session : 0..MaxSessions, rejected : Window \cup {NoWindow}, due : BOOLEAN, pulsed : BOOLEAN]
Preview ==
  [source : Window \cup {NoWindow}, session : 0..MaxSessions, point : Point \cup {Nowhere},
   fresh : BOOLEAN, valid : BOOLEAN, group : Group \cup {NoGroup}, shown : Point \cup {Nowhere}]

\* Every variable keeps its type, and a source that previews in a window has
\* a session for it.
TypeOK ==
  /\ up \subseteq Window
  /\ src \in [Window -> Source] /\ remote \in [Window -> Preview]
  /\ \A w \in Window : src[w].target # NoWindow => src[w].session # NoSession
  /\ at \in [Window -> [Tab -> Group \cup {NoGroup}]] /\ torn \subseteq Tab

(***************************************************************************)
(* No drag loses a tab, whatever the target does with it and whichever     *)
(* window goes away while they talk: it is in some window, in one that was *)
(* started for it, or was in one that the user closed.                     *)
(***************************************************************************)
NeverLost ==
  \A t \in Tab : t \in torn \cup history.closed \/ \E w \in Window : Has(w, t)

(***************************************************************************)
(* A tab that was only ever moved is in one place, once its source has     *)
(* heard from the target, unless the target kept the source waiting for    *)
(* two seconds.                                                            *)
(***************************************************************************)
Handing(t) == \E w \in Window : src[w].pc = "sending" /\ src[w].tab = t
OneCopy ==
  \A t \in Tab \ (history.copied \cup history.late) :
    \/ Handing(t)
    \/ /\ \A w, v \in Window : Has(w, t) /\ Has(v, t) => w = v
       /\ t \in torn => \A w \in Window : ~Has(w, t)

(***************************************************************************)
(* A tab lands in the group it was released over, although the tab is sent *)
(* and overtakes the preview updates that are posted, and although the     *)
(* group is the one that the last drawn preview showed.                    *)
(***************************************************************************)
LandsAtRelease ==
  \A b \in Window, t \in Tab :
    at'[b][t] \notin {at[b][t], NoGroup} => at'[b][t] = Head(sent[b]).point.group
DropFollowsRelease == [][LandsAtRelease]_vars

(***************************************************************************)
(* As long as the source pulses a preview, the target keeps it: messages   *)
(* of older sessions, which are posted and arrive late, never end it.      *)
(* Only the tab of another drag does, as it clears the preview of any.     *)
(***************************************************************************)
Previewing(a, b) ==
  src[a].pc = "free" /\ src[a].target = b /\ remote[b].session = src[a].session /\ remote[b].fresh
KeepsPreview ==
  \A a, b \in Window :
    Previewing(a, b) /\ src'[a].target = b /\ b \in up' =>
      remote'[b].session # NoSession \/ ReceiveTab(b)
PreviewLasts == [][KeepsPreview]_vars
=============================================================================
