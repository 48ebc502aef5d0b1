-------------------------- MODULE TabTransferProofs --------------------------
(***************************************************************************)
(* Proofs about TabTransfer, for any number of windows, groups and tabs,   *)
(* any number of drags at a time, and windows that close or stop waiting   *)
(* at any point.                                                           *)
(***************************************************************************)
EXTENDS MCTabTransfer, SequenceTheorems, TLAPS

-----------------------------------------------------------------------------
(***************************************************************************)
(* The inductive invariant.                                                *)
(***************************************************************************)
Listed(q) == {q[i] : i \in 1..Len(q)}
Posted == [kind : {"update", "end"}, session : 0..MaxSessions, point : Point \cup {Nowhere}]
Message == [kind : {"begin", "tab"}, source : Window, session : 0..MaxSessions, point : Point,
            tab : Tab \cup {NoTab}, waited : BOOLEAN]

MessagesTyped ==
  /\ posted \in [Window -> Seq(Posted)] /\ sent \in [Window -> Seq(Message)]
  /\ counts \in [sessions : 0..MaxSessions, drags : Nat]
  /\ history \in [copied : SUBSET Tab, late : SUBSET Tab, closed : SUBSET Tab]
  /\ \A b \in Window : \A m \in Listed(posted[b]) : m.kind = "update" => m.point \in Point
  /\ \A b \in Window : \A m \in Listed(sent[b]) :
       /\ m.kind = "tab" => m.tab \in Tab
       /\ m.kind = "begin" => m.session # NoSession

\* A source that waits has the point, the session and the tab it waits with.
SourcesSound ==
  \A w \in Window :
    /\ src[w].pc # "free" => src[w].point \in Point
    /\ src[w].pc = "beginning" => src[w].session # NoSession /\ src[w].target = NoWindow
    /\ src[w].pc = "sending" => src[w].tab \in Tab

\* A preview that was drawn has the group that its point is in.
PreviewsSound ==
  \A b \in Window :
    /\ remote[b].fresh => remote[b].point \in Point
    /\ remote[b].valid => remote[b].shown \in Point /\ remote[b].group = remote[b].shown.group

MessagesInv == TypeOK /\ MessagesTyped /\ SourcesSound /\ PreviewsSound

\* The tab that is dragged or sent is still in its window.
Held == \A w \in Window : src[w].tab # NoTab => Has(w, src[w].tab)

\* A message that is waited for is the only one of its source, which waits for
\* it and has no answer.
Awaits(w, m) ==
  /\ src[w].answer = "none" /\ src[w].pc # "free"
  /\ m.kind = "begin" => src[w].pc = "beginning"
  /\ m.kind = "tab" => src[w].pc = "sending" /\ m.tab = src[w].tab
Awaited ==
  \A b \in Window : \A i \in 1..Len(sent[b]) : sent[b][i].waited => Awaits(sent[b][i].source, sent[b][i])
AwaitedOnce ==
  \A b, c \in Window : \A i \in 1..Len(sent[b]), j \in 1..Len(sent[c]) :
    sent[b][i].waited /\ sent[c][j].waited /\ sent[b][i].source = sent[c][j].source => b = c /\ i = j

\* A tab that its sender no longer waits for was sent too late.
Overdue ==
  \A b \in Window : \A i \in 1..Len(sent[b]) :
    sent[b][i].kind = "tab" /\ ~sent[b][i].waited /\ sent[b][i].source \in up
      => sent[b][i].tab \in history.late

\* A tab that is copied is counted so when it is sent.
CopiesCounted ==
  \A w \in Window : src[w].pc = "sending" /\ src[w].copying => src[w].tab \in history.copied

\* A window keeps a tab unless it sends it, and knows that it arrived.
Keeps(w, t) == Has(w, t) /\ ~(src[w].pc = "sending" /\ src[w].tab = t /\ src[w].answer = "yes")
Somewhere == \A t \in Tab : t \in torn \cup history.closed \/ \E w \in Window : Keeps(w, t)
Once ==
  \A t \in Tab \ (history.copied \cup history.late) :
    /\ \A w, v \in Window : Keeps(w, t) /\ Keeps(v, t) => w = v
    /\ t \in torn => \A w \in Window : ~Keeps(w, t)

TabsInv == MessagesInv /\ Held /\ Awaited /\ AwaitedOnce /\ Overdue /\ CopiesCounted /\ Somewhere /\ Once

\* Sessions are used once: by one source, and by none after its end is posted.
SessionsApart ==
  /\ \A w, v \in Window : src[w].session = src[v].session /\ src[w].session # NoSession => w = v
  /\ \A w \in Window : src[w].session <= counts.sessions
  /\ \A b \in Window : \A m \in Listed(posted[b]) :
       /\ m.session <= counts.sessions
       /\ m.kind = "end" => m.session # NoSession /\ \A w \in Window : src[w].session # m.session

-----------------------------------------------------------------------------
(***************************************************************************)
(* Types, and the records that the actions write.                          *)
(***************************************************************************)
LEMMA Types ==
  ASSUME TypeOK
  PROVE  /\ up \subseteq Window /\ src \in [Window -> Source] /\ remote \in [Window -> Preview]
         /\ at \in [Window -> [Tab -> Group \cup {NoGroup}]] /\ torn \subseteq Tab
         /\ NoWindow \notin Window /\ NoGroup \notin Group /\ NoTab \notin Tab
BY AbsentAssumption DEF TypeOK

LEMMA Points ==
  /\ \A p \in Point : p.window \in Window /\ p.group \in Group
  /\ Nowhere.window = NoWindow /\ Nowhere.group = NoGroup
  /\ \A p \in Cursor : p \in Point \/ p = Nowhere
BY DEF Point, Nowhere, Cursor

LEMMA Targets ==
  ASSUME TypeOK, NEW w \in Window, NEW cursor \in Cursor, Target(w, cursor) # NoWindow
  PROVE  /\ cursor \in Point /\ Target(w, cursor) = cursor.window
         /\ cursor.window \in up /\ cursor.window # w /\ cursor.window \in Window
BY Points, Types DEF Target

\* Of a source its drag, and its side of the preview.
Hand(s, r) == /\ s.pc = r.pc /\ s.tab = r.tab /\ s.point = r.point
              /\ s.copying = r.copying /\ s.answer = r.answer
Side(s, r) == s.target = r.target /\ s.session = r.session
Only(w) == src' \in [Window -> Source] /\ \A v \in Window \ {w} : src'[v] = src[v]

LEMMA PutIs ==
  ASSUME TypeOK, NEW w \in Window, NEW source \in Source, Put(w, source)
  PROVE  Only(w) /\ src'[w] = source
BY Types DEF Put, Only

LEMMA SourceIs ==
  ASSUME NEW s \in Source
  PROVE  /\ s.pc \in {"free", "beginning", "sending"} /\ s.tab \in Tab \cup {NoTab}
         /\ s.point \in Point \cup {Nowhere} /\ s.copying \in BOOLEAN
         /\ s.answer \in {"none", "yes", "no"} /\ s.target \in Window \cup {NoWindow}
         /\ s.session \in 0..MaxSessions
BY DEF Source

LEMMA EndedIs ==
  ASSUME TypeOK, NEW w \in Window
  PROVE  /\ Ended(w) \in Source /\ Hand(Ended(w), src[w])
         /\ Ended(w).target = NoWindow /\ Ended(w).session = NoSession
<1>1. src[w] \in Source /\ NoSession \in 0..MaxSessions
  BY Types, BoundAssumption DEF NoSession
<1>2. QED
  BY <1>1 DEF Ended, Source, Hand

LEMMA DroppedIs ==
  ASSUME NEW s \in Source
  PROVE  /\ Dropped(s) \in Source /\ Side(Dropped(s), s)
         /\ Dropped(s).pc = "free" /\ Dropped(s).tab = NoTab
BY DEF Dropped, Source, Side

\* Fields that only say when the source tries again.
LEMMA TimersAre ==
  ASSUME NEW s \in Source, NEW rejected \in Window \cup {NoWindow}, NEW due \in BOOLEAN, NEW pulsed \in BOOLEAN
  PROVE  /\ [s EXCEPT !.pulsed = pulsed] \in Source
         /\ Hand([s EXCEPT !.pulsed = pulsed], s) /\ Side([s EXCEPT !.pulsed = pulsed], s)
         /\ [s EXCEPT !.due = due] \in Source
         /\ Hand([s EXCEPT !.due = due], s) /\ Side([s EXCEPT !.due = due], s)
         /\ [s EXCEPT !.pulsed = pulsed, !.rejected = rejected, !.due = due] \in Source
         /\ Hand([s EXCEPT !.pulsed = pulsed, !.rejected = rejected, !.due = due], s)
         /\ Side([s EXCEPT !.pulsed = pulsed, !.rejected = rejected, !.due = due], s)
BY DEF Source, Hand, Side

-----------------------------------------------------------------------------
(***************************************************************************)
(* What an action does to a queue.                                         *)
(***************************************************************************)
LEMMA AppendLists ==
  ASSUME NEW S, NEW q \in Seq(S), NEW x \in S
  PROVE  /\ Append(q, x) \in Seq(S) /\ Listed(Append(q, x)) = Listed(q) \cup {x}
         /\ Len(Append(q, x)) = Len(q) + 1 /\ Len(q) \in Nat
         /\ Append(q, x)[Len(q) + 1] = x /\ \A i \in 1..Len(q) : Append(q, x)[i] = q[i]
<1>1. /\ Append(q, x) \in Seq(S) /\ Len(Append(q, x)) = Len(q) + 1 /\ Len(q) \in Nat
      /\ Append(q, x)[Len(q) + 1] = x /\ \A i \in 1..Len(q) : Append(q, x)[i] = q[i]
  BY AppendProperties, LenProperties
<1>2. 1..(Len(q) + 1) = 1..Len(q) \cup {Len(q) + 1}
  BY <1>1
<1>3. QED
  BY <1>1, <1>2 DEF Listed

LEMMA TailLists ==
  ASSUME NEW S, NEW q \in Seq(S), q # <<>>
  PROVE  /\ Tail(q) \in Seq(S) /\ Listed(Tail(q)) \subseteq Listed(q)
         /\ Head(q) \in S /\ Head(q) \in Listed(q) /\ Head(q) = q[1] /\ 1 \in 1..Len(q)
         /\ Len(Tail(q)) = Len(q) - 1 /\ Len(q) \in Nat
         /\ \A i \in 1..Len(Tail(q)) : Tail(q)[i] = q[i + 1] /\ i + 1 \in 1..Len(q)
<1>1. /\ Head(q) \in S /\ Tail(q) \in Seq(S) /\ Len(Tail(q)) = Len(q) - 1
      /\ \A i \in 1..Len(Tail(q)) : Tail(q)[i] = q[i + 1]
  BY HeadTailProperties
<1>2. Len(q) \in Nat /\ Len(q) > 0 /\ Head(q) = q[1]
  BY EmptySeq, LenProperties
<1>3. \A i \in 1..Len(Tail(q)) : i + 1 \in 1..Len(q)
  BY <1>1, <1>2
<1>4. 1 \in 1..Len(q)
  BY <1>2
<1>5. QED
  BY <1>1, <1>2, <1>3, <1>4 DEF Listed

\* The posted messages are typed as before, and m is the only new one.
Arrives(m) ==
  /\ posted' \in [Window -> Seq(Posted)]
  /\ \A b \in Window : Listed(posted'[b]) \subseteq Listed(posted[b]) \cup {m}
NoneArrives ==
  /\ posted' \in [Window -> Seq(Posted)]
  /\ \A b \in Window : Listed(posted'[b]) \subseteq Listed(posted[b])

LEMMA PostIs ==
  ASSUME TypeOK, MessagesTyped, NEW b, NEW m \in Posted, posted' = Post(posted, b, m)
  PROVE  Arrives(m) /\ (b \notin up => NoneArrives)
<1>1. posted \in [Window -> Seq(Posted)]
  BY DEF MessagesTyped
<1>2. CASE b \in up
  <2>1. b \in Window /\ posted' = [posted EXCEPT ![b] = Append(posted[b], m)]
    BY <1>2, Types DEF Post
  <2>2. Append(posted[b], m) \in Seq(Posted) /\ Listed(Append(posted[b], m)) = Listed(posted[b]) \cup {m}
    BY <1>1, <2>1, AppendLists
  <2>3. QED
    BY <1>1, <1>2, <2>1, <2>2 DEF Arrives
<1>3. CASE b \notin up
  BY <1>1, <1>3 DEF Post, Arrives, NoneArrives
<1>4. QED
  BY <1>2, <1>3

LEMMA EndingIs ==
  ASSUME TypeOK, MessagesTyped, NEW w \in Window, posted' = Ending(w)
  PROVE  \/ NoneArrives
         \/ Arrives(Finish(src[w].session)) /\ src[w].session # NoSession
<1>1. Finish(src[w].session) \in Posted
  BY Types, SourceIs DEF Finish, Posted
<1>2. src[w].target \in up => src[w].session # NoSession
  BY Types DEF TypeOK
<1>3. QED
  BY <1>1, <1>2, PostIs DEF Ending

LEMMA TailIs ==
  ASSUME TypeOK, MessagesTyped, NEW b \in Window, posted[b] # <<>>, posted' = [posted EXCEPT ![b] = Tail(@)]
  PROVE  NoneArrives /\ Head(posted[b]) \in Posted /\ Head(posted[b]) \in Listed(posted[b])
<1>1. posted \in [Window -> Seq(Posted)]
  BY DEF MessagesTyped
<1>2. QED
  BY <1>1, TailLists DEF NoneArrives

\* The messages sent are those of before, in their order, but for the first
\* of some queues, and those of w are no longer waited for.
Since(m, n, w) ==
  /\ m \in Message /\ m.kind = n.kind /\ m.source = n.source /\ m.session = n.session
  /\ m.point = n.point /\ m.tab = n.tab /\ m.waited = (n.waited /\ n.source # w)
Thins(w) ==
  /\ sent' \in [Window -> Seq(Message)]
  /\ \E gone \in [Window -> {0, 1}] : \A b \in Window : \A i \in 1..Len(sent'[b]) :
       i + gone[b] \in 1..Len(sent[b]) /\ Since(sent'[b][i], sent[b][i + gone[b]], w)
Sends(b, m) ==
  /\ sent' \in [Window -> Seq(Message)]
  /\ Len(sent'[b]) = Len(sent[b]) + 1 /\ sent'[b][Len(sent[b]) + 1] = m
  /\ \A i \in 1..Len(sent[b]) : sent'[b][i] = sent[b][i]
  /\ \A c \in Window \ {b} : sent'[c] = sent[c]

LEMMA MessageIs ==
  ASSUME MessagesTyped, NEW b \in Window
  PROVE  /\ sent[b] \in Seq(Message) /\ Len(sent[b]) \in Nat
         /\ \A i \in 1..Len(sent[b]) : sent[b][i] \in Message /\ sent[b][i] \in Listed(sent[b])
         /\ \A m \in Listed(sent[b]) : \E i \in 1..Len(sent[b]) : m = sent[b][i]
BY LenProperties, ElementOfSeq DEF MessagesTyped, Listed

LEMMA ThinsQuiet ==
  ASSUME NEW w, Thins(w)
  PROVE  \A b \in Window : \A i \in 1..Len(sent'[b]) : ~(sent'[b][i].waited /\ sent'[b][i].source = w)
<1>1. PICK gone \in [Window -> {0, 1}] : \A b \in Window : \A i \in 1..Len(sent'[b]) :
        Since(sent'[b][i], sent[b][i + gone[b]], w)
  BY DEF Thins
<1>2. ASSUME NEW b \in Window, NEW i \in 1..Len(sent'[b]), sent'[b][i].waited, sent'[b][i].source = w
      PROVE  FALSE
  <2> DEFINE m == sent'[b][i]
             n == sent[b][i + gone[b]]
  <2>1. m.source = n.source /\ m.waited = (n.waited /\ n.source # w)
    BY <1>1 DEF Since
  <2> HIDE DEF m, n
  <2>2. m.waited /\ m.source = w
    BY <1>2 DEF m
  <2>3. QED
    BY <2>1, <2>2
<1>3. QED
  BY <1>2

LEMMA StaysThin ==
  ASSUME TypeOK, MessagesTyped, UNCHANGED sent
  PROVE  Thins(NoWindow)
<1> DEFINE none == [b \in Window |-> 0]
<1>1. none \in [Window -> {0, 1}] /\ \A b \in Window : none[b] = 0
  OBVIOUS
<1> HIDE DEF none
<1>2. ASSUME NEW b \in Window, NEW i \in 1..Len(sent'[b])
      PROVE  i + none[b] \in 1..Len(sent[b]) /\ Since(sent'[b][i], sent[b][i + none[b]], NoWindow)
  <2>1. i + none[b] = i /\ i \in 1..Len(sent[b])
    BY <1>1, <1>2
  <2>2. sent[b][i] \in Message
    BY <2>1, MessageIs
  <2>3. QED
    BY <2>1, <2>2, Types DEF Since, Message
<1>3. QED
  BY <1>1, <1>2 DEF Thins, MessagesTyped

LEMMA ReceivedThins ==
  ASSUME TypeOK, MessagesTyped, NEW b \in Window, sent[b] # <<>>, Received(b)
  PROVE  /\ Thins(NoWindow) /\ Head(sent[b]) \in Message /\ Head(sent[b]) \in Listed(sent[b])
         /\ AwaitedOnce /\ Head(sent[b]).waited =>
              \A c \in Window : \A i \in 1..Len(sent'[c]) :
                sent'[c][i].waited => sent'[c][i].source # Head(sent[b]).source
<1> DEFINE gone == [c \in Window |-> IF c = b THEN 1 ELSE 0]
<1>1. gone \in [Window -> {0, 1}] /\ gone[b] = 1 /\ \A c \in Window \ {b} : gone[c] = 0
  OBVIOUS
<1> HIDE DEF gone
<1>2. /\ sent \in [Window -> Seq(Message)] /\ sent' = [sent EXCEPT ![b] = Tail(sent[b])]
  BY DEF MessagesTyped, Received
<1>3. /\ Tail(sent[b]) \in Seq(Message) /\ Len(Tail(sent[b])) = Len(sent[b]) - 1
      /\ \A i \in 1..Len(Tail(sent[b])) : Tail(sent[b])[i] = sent[b][i + 1] /\ i + 1 \in 1..Len(sent[b])
      /\ Head(sent[b]) = sent[b][1] /\ 1 \in 1..Len(sent[b])
      /\ Head(sent[b]) \in Message /\ Head(sent[b]) \in Listed(sent[b])
  BY <1>2, TailLists
<1>4. ASSUME NEW c \in Window, NEW i \in 1..Len(sent'[c])
      PROVE  /\ i + gone[c] \in 1..Len(sent[c]) /\ sent'[c][i] = sent[c][i + gone[c]]
             /\ c = b => i + gone[c] # 1
  <2>1. CASE c = b
    <3>1. i + gone[c] = i + 1 /\ i + 1 # 1
      BY <1>1, <1>4, <2>1
    <3>2. QED
      BY <1>2, <1>3, <1>4, <2>1, <3>1
  <2>2. CASE c # b
    <3>1. i + gone[c] = i
      BY <1>1, <1>4, <2>2
    <3>2. QED
      BY <1>2, <1>4, <2>2, <3>1
  <2>3. QED
    BY <2>1, <2>2
<1>5. ASSUME NEW c \in Window, NEW i \in 1..Len(sent'[c])
      PROVE  Since(sent'[c][i], sent[c][i + gone[c]], NoWindow)
  <2>1. sent[c][i + gone[c]] \in Message
    BY <1>4, <1>5, MessageIs
  <2>2. QED
    BY <1>4, <1>5, <2>1, Types DEF Since, Message
<1>6. sent' \in [Window -> Seq(Message)]
  BY <1>2, <1>3
<1>7. Thins(NoWindow)
  BY <1>1, <1>4, <1>5, <1>6 DEF Thins
<1>8. ASSUME AwaitedOnce, Head(sent[b]).waited, NEW c \in Window, NEW i \in 1..Len(sent'[c]),
             sent'[c][i].waited
      PROVE  sent'[c][i].source # Head(sent[b]).source
  <2> DEFINE n == sent[c][i + gone[c]]
  <2>1. n = sent'[c][i] /\ i + gone[c] \in 1..Len(sent[c]) /\ (c = b => i + gone[c] # 1)
    BY <1>4, <1>8
  <2>2. SUFFICES ASSUME n.source = sent[b][1].source PROVE FALSE
    BY <1>3, <2>1
  <2>3. n.waited /\ sent[b][1].waited /\ 1 \in 1..Len(sent[b])
    BY <1>3, <1>8, <2>1
  <2>4. c = b /\ i + gone[c] = 1
    BY <1>8, <2>1, <2>2, <2>3 DEF AwaitedOnce
  <2>5. QED
    BY <2>1, <2>4
<1>9. QED
  BY <1>3, <1>7, <1>8

\* Of those that Forsaken leaves none is waited for by w.
LEMMA ForsakenThins ==
  ASSUME TypeOK, MessagesTyped, NEW w \in Window, NEW closed \in SUBSET Window,
         sent' = [b \in Window |-> IF b \in closed THEN <<>> ELSE Forsaken(w)[b]]
  PROVE  Thins(w)
<1> DEFINE none == [b \in Window |-> 0]
<1>1. none \in [Window -> {0, 1}] /\ \A b \in Window : none[b] = 0
  OBVIOUS
<1> HIDE DEF none
<1>2. ASSUME NEW b \in Window
      PROVE  /\ Forsaken(w)[b] \in Seq(Message) /\ Len(Forsaken(w)[b]) = Len(sent[b])
             /\ \A i \in 1..Len(sent[b]) : Since(Forsaken(w)[b][i], sent[b][i], w)
  <2> DEFINE q == [i \in 1..Len(sent[b]) |->
                     IF sent[b][i].source = w THEN [sent[b][i] EXCEPT !.waited = FALSE] ELSE sent[b][i]]
  <2>1. Forsaken(w)[b] = q
    BY DEF Forsaken
  <2>2. ASSUME NEW i \in 1..Len(sent[b]) PROVE q[i] \in Message /\ Since(q[i], sent[b][i], w)
    <3>1. sent[b][i] \in Message
      BY <2>2, MessageIs
    <3>2. QED
      BY <3>1 DEF Since, Message
  <2> HIDE DEF q
  <2>3. Len(sent[b]) \in Nat /\ q \in [1..Len(sent[b]) -> Message]
    <3>1. q = [i \in 1..Len(sent[b]) |-> q[i]]
      BY DEF q
    <3>2. QED
      BY <2>2, <3>1, MessageIs
  <2>4. q \in Seq(Message) /\ Len(q) = Len(sent[b])
    BY <2>3
  <2>5. QED
    BY <2>1, <2>2, <2>4
<1>3. sent' \in [Window -> Seq(Message)]
  BY <1>2, EmptySeq
<1>4. ASSUME NEW b \in Window, NEW i \in 1..Len(sent'[b])
      PROVE  i + none[b] \in 1..Len(sent[b]) /\ Since(sent'[b][i], sent[b][i + none[b]], w)
  <2>1. b \notin closed
    BY <1>4, EmptySeq
  <2>2. sent'[b] = Forsaken(w)[b] /\ i \in 1..Len(sent[b]) /\ i + none[b] = i
    BY <1>1, <1>2, <1>4, <2>1
  <2>3. QED
    BY <1>2, <2>2
<1>5. QED
  BY <1>1, <1>3, <1>4 DEF Thins

\* When messages only leave, the others are awaited as before, provided their
\* sources wait as before.
LEMMA ThinsAwaited ==
  ASSUME TypeOK, MessagesTyped, Awaited, AwaitedOnce, NEW w, Thins(w),
         \A v \in Window :
           \/ src'[v].pc = src[v].pc /\ src'[v].tab = src[v].tab /\ src'[v].answer = src[v].answer
           \/ \A b \in Window : \A i \in 1..Len(sent'[b]) : ~(sent'[b][i].waited /\ sent'[b][i].source = v)
  PROVE  Awaited' /\ AwaitedOnce'
<1>1. PICK gone \in [Window -> {0, 1}] : \A b \in Window : \A i \in 1..Len(sent'[b]) :
        i + gone[b] \in 1..Len(sent[b]) /\ Since(sent'[b][i], sent[b][i + gone[b]], w)
  BY DEF Thins
<1>2. ASSUME NEW b \in Window, NEW i \in 1..Len(sent'[b]), sent'[b][i].waited
      PROVE  /\ src'[sent'[b][i].source].answer = "none" /\ src'[sent'[b][i].source].pc # "free"
             /\ sent'[b][i].kind = "begin" => src'[sent'[b][i].source].pc = "beginning"
             /\ sent'[b][i].kind = "tab" =>
                  src'[sent'[b][i].source].pc = "sending" /\ sent'[b][i].tab = src'[sent'[b][i].source].tab
  <2>1. PICK j \in 1..Len(sent[b]) : Since(sent'[b][i], sent[b][j], w)
    BY <1>1, <1>2
  <2>2. sent[b][j].waited /\ Awaits(sent[b][j].source, sent[b][j])
    BY <1>2, <2>1 DEF Since, Awaited
  <2>3. sent'[b][i].source = sent[b][j].source /\ sent[b][j].source \in Window
    BY <2>1, MessageIs DEF Since, Message
  <2>4. /\ src'[sent[b][j].source].pc = src[sent[b][j].source].pc
        /\ src'[sent[b][j].source].tab = src[sent[b][j].source].tab
        /\ src'[sent[b][j].source].answer = src[sent[b][j].source].answer
    BY <1>2, <2>3
  <2>5. QED
    BY <2>1, <2>2, <2>3, <2>4 DEF Since, Awaits
<1>3. Awaited'
  BY <1>2 DEF Awaited, Awaits
<1>4. ASSUME NEW b \in Window, NEW c \in Window, NEW i \in 1..Len(sent'[b]), NEW j \in 1..Len(sent'[c]),
             sent'[b][i].waited, sent'[c][j].waited, sent'[b][i].source = sent'[c][j].source
      PROVE  b = c /\ i = j
  <2>1. PICK k \in 1..Len(sent[b]) : k = i + gone[b] /\ Since(sent'[b][i], sent[b][k], w)
    BY <1>1
  <2>2. PICK l \in 1..Len(sent[c]) : l = j + gone[c] /\ Since(sent'[c][j], sent[c][l], w)
    BY <1>1
  <2>3. sent[b][k].waited /\ sent[c][l].waited /\ sent[b][k].source = sent[c][l].source
    BY <1>4, <2>1, <2>2 DEF Since
  <2>4. b = c /\ k = l
    BY <2>3 DEF AwaitedOnce
  <2>5. gone[b] \in {0, 1} /\ gone[c] = gone[b]
    BY <2>4
  <2>6. QED
    BY <2>1, <2>2, <2>4, <2>5
<1>5. AwaitedOnce'
  BY <1>4 DEF AwaitedOnce
<1>6. QED
  BY <1>3, <1>5

\* A message is sent by a source that had none.
LEMMA SendsAwaited ==
  ASSUME TypeOK, MessagesTyped, Awaited, AwaitedOnce, NEW w \in Window, NEW b \in Window,
         NEW m \in Message, Sends(b, m), m.waited, m.source = w, src[w].pc = "free",
         \A v \in Window \ {w} : src'[v] = src[v],
         src'[w].answer = "none", src'[w].pc # "free",
         m.kind = "begin" => src'[w].pc = "beginning",
         m.kind = "tab" => src'[w].pc = "sending" /\ m.tab = src'[w].tab
  PROVE  Awaited' /\ AwaitedOnce'
<1>1. \A c \in Window : \A i \in 1..Len(sent[c]) :
        sent[c][i].waited => sent[c][i].source \in Window \ {w} /\ Awaits(sent[c][i].source, sent[c][i])
  BY MessageIs DEF Awaited, Awaits, Message
<1>2. \A c \in Window : \A i \in 1..Len(sent'[c]) :
        \/ i \in 1..Len(sent[c]) /\ sent'[c][i] = sent[c][i]
        \/ c = b /\ i = Len(sent[b]) + 1 /\ sent'[c][i] = m
  <2>1. Len(sent[b]) \in Nat
    BY MessageIs
  <2>2. QED
    BY <2>1 DEF Sends
<1>3. ASSUME NEW c \in Window, NEW i \in 1..Len(sent'[c]), sent'[c][i].waited
      PROVE  /\ src'[sent'[c][i].source].answer = "none" /\ src'[sent'[c][i].source].pc # "free"
             /\ sent'[c][i].kind = "begin" => src'[sent'[c][i].source].pc = "beginning"
             /\ sent'[c][i].kind = "tab" =>
                  src'[sent'[c][i].source].pc = "sending" /\ sent'[c][i].tab = src'[sent'[c][i].source].tab
  <2>1. CASE i \in 1..Len(sent[c]) /\ sent'[c][i] = sent[c][i]
    BY <1>1, <1>3, <2>1 DEF Awaits
  <2>2. CASE sent'[c][i] = m
    BY <2>2
  <2>3. QED
    BY <1>2, <2>1, <2>2
<1>4. Awaited'
  BY <1>3 DEF Awaited, Awaits
<1>a. ASSUME NEW c \in Window, NEW i \in 1..Len(sent'[c]), sent'[c][i].waited, sent'[c][i].source = w
      PROVE  c = b /\ i = Len(sent[b]) + 1
  <2>1. ~(i \in 1..Len(sent[c]) /\ sent'[c][i] = sent[c][i])
    BY <1>1, <1>a
  <2>2. QED
    BY <1>2, <1>a, <2>1
<1>5. ASSUME NEW c \in Window, NEW d \in Window, NEW i \in 1..Len(sent'[c]), NEW j \in 1..Len(sent'[d]),
             sent'[c][i].waited, sent'[d][j].waited, sent'[c][i].source = sent'[d][j].source
      PROVE  c = d /\ i = j
  <2>1. CASE sent'[c][i].source = w
    <3>1. c = b /\ i = Len(sent[b]) + 1
      BY <1>a, <1>5, <2>1
    <3>2. d = b /\ j = Len(sent[b]) + 1
      BY <1>a, <1>5, <2>1
    <3>3. QED
      BY <3>1, <3>2
  <2>2. CASE sent'[c][i].source # w
    <3>1. i \in 1..Len(sent[c]) /\ sent'[c][i] = sent[c][i]
      BY <1>2, <2>2
    <3>2. j \in 1..Len(sent[d]) /\ sent'[d][j] = sent[d][j]
      BY <1>2, <1>5, <2>2
    <3>3. QED
      BY <1>5, <3>1, <3>2 DEF AwaitedOnce
  <2>3. QED
    BY <2>1, <2>2
<1>6. AwaitedOnce'
  BY <1>5 DEF AwaitedOnce
<1>7. QED
  BY <1>4, <1>6

LEMMA ThinsOverdue ==
  ASSUME TypeOK, MessagesTyped, Overdue, NEW w, Thins(w),
         up' \subseteq up, history.late \subseteq history'.late,
         w \in up' => \A b \in Window : \A i \in 1..Len(sent[b]) :
           sent[b][i].kind = "tab" /\ sent[b][i].waited /\ sent[b][i].source = w => sent[b][i].tab \in history'.late
  PROVE  Overdue'
<1>1. ASSUME NEW b \in Window, NEW i \in 1..Len(sent'[b]),
             sent'[b][i].kind = "tab", ~sent'[b][i].waited, sent'[b][i].source \in up'
      PROVE  sent'[b][i].tab \in history'.late
  <2>1. PICK j \in 1..Len(sent[b]) : Since(sent'[b][i], sent[b][j], w)
    BY DEF Thins
  <2>2. sent[b][j].kind = "tab" /\ sent[b][j].source \in up /\ sent'[b][i].tab = sent[b][j].tab
    BY <1>1, <2>1 DEF Since
  <2>3. CASE ~sent[b][j].waited
    BY <2>2, <2>3 DEF Overdue
  <2>4. CASE sent[b][j].waited
    <3>1. sent[b][j].source = w /\ w \in up'
      BY <1>1, <2>1, <2>4 DEF Since
    <3>2. QED
      BY <2>2, <2>4, <3>1
  <2>5. QED
    BY <2>3, <2>4
<1>2. QED
  BY <1>1 DEF Overdue

LEMMA SendsOverdue ==
  ASSUME TypeOK, MessagesTyped, Overdue, NEW b \in Window, NEW m \in Message, Sends(b, m), m.waited,
         up' \subseteq up, history.late \subseteq history'.late
  PROVE  Overdue'
<1>1. \A c \in Window : \A i \in 1..Len(sent'[c]) :
        \/ i \in 1..Len(sent[c]) /\ sent'[c][i] = sent[c][i]
        \/ sent'[c][i] = m
  <2>1. Len(sent[b]) \in Nat
    BY MessageIs
  <2>2. QED
    BY <2>1 DEF Sends
<1>2. QED
  BY <1>1 DEF Overdue

LEMMA SendIs ==
  ASSUME TypeOK, MessagesTyped, NEW w \in Window, NEW kind \in {"begin", "tab"},
         NEW session \in 0..MaxSessions, NEW cursor \in Point, Send(w, kind, session, cursor)
  PROVE  \E m \in Message :
           /\ Sends(cursor.window, m) /\ m.kind = kind /\ m.source = w /\ m.waited
           /\ m.session = session /\ (kind = "tab" => m.tab = src[w].tab)
<1> DEFINE m == [kind |-> kind, source |-> w, session |-> session, point |-> cursor,
                 tab |-> IF kind = "tab" THEN src[w].tab ELSE NoTab, waited |-> TRUE]
<1>1. /\ m \in Message /\ m.kind = kind /\ m.source = w /\ m.waited
      /\ m.session = session /\ (kind = "tab" => m.tab = src[w].tab)
  BY SourceIs, Types DEF Message
<1>2. sent' = [sent EXCEPT ![cursor.window] = Append(@, m)] /\ cursor.window \in Window
  BY Points DEF Send
<1> HIDE DEF m
<1>3. sent \in [Window -> Seq(Message)]
  BY DEF MessagesTyped
<1>4. Sends(cursor.window, m)
  BY <1>1, <1>2, <1>3, AppendLists DEF Sends
<1>5. QED
  BY <1>1, <1>4

-----------------------------------------------------------------------------
(***************************************************************************)
(* What keeps the parts of the invariant when one source changes.          *)
(***************************************************************************)
Sound(s) ==
  /\ s.target # NoWindow => s.session # NoSession
  /\ s.pc # "free" => s.point \in Point
  /\ s.pc = "beginning" => s.session # NoSession /\ s.target = NoWindow
  /\ s.pc = "sending" => s.tab \in Tab

LEMMA SoundIs ==
  ASSUME TypeOK, SourcesSound, NEW w \in Window
  PROVE  Sound(src[w])
BY DEF TypeOK, SourcesSound, Sound

CountsTyped == counts' \in [sessions : 0..MaxSessions, drags : Nat]
HistoryTyped == history' \in [copied : SUBSET Tab, late : SUBSET Tab, closed : SUBSET Tab]
PostedSound ==
  NoneArrives \/ \E m \in Posted : Arrives(m) /\ (m.kind = "update" => m.point \in Point)
SentSound ==
  \/ \E w \in Window \cup {NoWindow} : Thins(w)
  \/ \E b \in Window, m \in Message :
       /\ Sends(b, m) /\ (m.kind = "tab" => m.tab \in Tab) /\ (m.kind = "begin" => m.session # NoSession)

LEMMA ThinsTyped ==
  ASSUME MessagesTyped, NEW w, Thins(w), NEW b \in Window, NEW m \in Listed(sent'[b])
  PROVE  (m.kind = "tab" => m.tab \in Tab) /\ (m.kind = "begin" => m.session # NoSession)
<1>1. PICK i \in 1..Len(sent'[b]) : m = sent'[b][i]
  BY DEF Listed
<1>2. PICK j \in 1..Len(sent[b]) : Since(sent'[b][i], sent[b][j], w)
  BY DEF Thins
<1>3. sent[b][j] \in Listed(sent[b])
  BY DEF Listed
<1>4. QED
  BY <1>1, <1>2, <1>3 DEF Since, MessagesTyped

LEMMA SendsTyped ==
  ASSUME MessagesTyped, NEW c \in Window, NEW n \in Message, Sends(c, n),
         (n.kind = "tab" => n.tab \in Tab) /\ (n.kind = "begin" => n.session # NoSession),
         NEW b \in Window, NEW m \in Listed(sent'[b])
  PROVE  (m.kind = "tab" => m.tab \in Tab) /\ (m.kind = "begin" => m.session # NoSession)
<1>1. PICK i \in 1..Len(sent'[b]) : m = sent'[b][i]
  BY DEF Listed
<1>2. Len(sent[c]) \in Nat
  BY MessageIs
<1>3. (i \in 1..Len(sent[b]) /\ m = sent[b][i]) \/ m = n
  BY <1>1, <1>2 DEF Sends
<1>4. i \in 1..Len(sent[b]) => sent[b][i] \in Listed(sent[b])
  BY DEF Listed
<1>5. QED
  BY <1>3, <1>4 DEF MessagesTyped

LEMMA MessagesKept ==
  ASSUME MessagesTyped, PostedSound, SentSound, CountsTyped, HistoryTyped
  PROVE  MessagesTyped'
<1>1. posted' \in [Window -> Seq(Posted)] /\ sent' \in [Window -> Seq(Message)]
  BY DEF PostedSound, Arrives, NoneArrives, SentSound, Thins, Sends
<1>2. \A b \in Window : \A m \in Listed(posted'[b]) : m.kind = "update" => m.point \in Point
  BY DEF MessagesTyped, PostedSound, Arrives, NoneArrives
<1>3. \A b \in Window : \A m \in Listed(sent'[b]) :
        (m.kind = "tab" => m.tab \in Tab) /\ (m.kind = "begin" => m.session # NoSession)
  BY ThinsTyped, SendsTyped DEF SentSound
<1>4. QED
  BY <1>1, <1>2, <1>3 DEF MessagesTyped, CountsTyped, HistoryTyped

LEMMA SourcesKept ==
  ASSUME TypeOK, SourcesSound, NEW w \in Window, Only(w), Sound(src'[w])
  PROVE  /\ SourcesSound' /\ src' \in [Window -> Source]
         /\ \A v \in Window : src'[v].target # NoWindow => src'[v].session # NoSession
<1>1. \A v \in Window : Sound(src'[v])
  BY SoundIs DEF Only
<1>2. QED
  BY <1>1 DEF Only, Sound, SourcesSound

\* The sender does not know, before and after, that its tab arrived.
Told(s) == s.pc = "sending" /\ s.answer = "yes"
LEMMA CalmKeeps ==
  ASSUME TypeOK, Held, CopiesCounted, Somewhere, Once, UNCHANGED <<at, torn, history>>,
         NEW w \in Window, Only(w), Hand(src'[w], src[w]) \/ (~Told(src[w]) /\ ~Told(src'[w])),
         src'[w].tab = NoTab \/ src'[w].tab = src[w].tab \/ Has(w, src'[w].tab),
         src'[w].pc = "sending" /\ src'[w].copying => src'[w].tab \in history.copied
  PROVE  Held' /\ CopiesCounted' /\ Somewhere' /\ Once'
<1>1. \A v \in Window, t \in Tab : Keeps(v, t)' <=> Keeps(v, t)
  BY DEF Keeps, Has, Only, Told, Hand
<1>2. Held'
  BY DEF Held, Has, Only
<1>3. CopiesCounted'
  BY DEF CopiesCounted, Only
<1>4. QED
  BY <1>1, <1>2, <1>3 DEF Somewhere, Once

LEMMA SessionsKept ==
  ASSUME TypeOK, MessagesTyped, SessionsApart, NEW w \in Window, Only(w), CountsTyped,
         \/ src'[w].session \in {src[w].session, NoSession} /\ counts.sessions = counts'.sessions
         \/ src'[w].session = counts'.sessions /\ counts'.sessions = counts.sessions + 1,
         \/ NoneArrives
         \/ \E m \in Posted :
              /\ Arrives(m) /\ m.session <= counts.sessions
              /\ m.kind = "end" =>
                   m.session = src[w].session /\ m.session # NoSession /\ src'[w].session # m.session
  PROVE  SessionsApart'
<1>1. /\ counts.sessions \in Nat /\ counts'.sessions \in Nat /\ counts.sessions <= counts'.sessions
      /\ \A v \in Window : src[v].session \in Nat /\ src[v].session <= counts.sessions
      /\ \A v \in Window : src'[v].session \in Nat
  BY Types, SourceIs, BoundAssumption DEF MessagesTyped, CountsTyped, Only, SessionsApart
<1>2. \A v \in Window : src'[v].session <= counts'.sessions
  BY <1>1 DEF Only, NoSession
<1>3. \A v, u \in Window : src'[v].session = src'[u].session /\ src'[v].session # NoSession => v = u
  <2>1. CASE src'[w].session \in {src[w].session, NoSession}
    BY <2>1 DEF Only, SessionsApart
  <2>2. CASE src'[w].session = counts.sessions + 1
    BY <1>1, <2>2 DEF Only, SessionsApart
  <2>3. QED
    BY <2>1, <2>2
<1>4. ASSUME NEW m \in Posted, m.session <= counts.sessions, m.kind = "end" => m.session # NoSession,
             m.kind = "end" => \A v \in Window \ {w} : src[v].session # m.session,
             m.kind = "end" => src'[w].session # m.session
      PROVE  /\ m.session <= counts'.sessions
             /\ m.kind = "end" => m.session # NoSession /\ \A v \in Window : src'[v].session # m.session
  <2>1. m.session \in Nat
    BY DEF Posted
  <2>2. QED
    BY <1>1, <1>4, <2>1 DEF Only
<1>5. ASSUME NEW b \in Window, NEW m \in Listed(posted[b]), m \in Posted
      PROVE  /\ m.session <= counts'.sessions
             /\ m.kind = "end" => m.session # NoSession /\ \A v \in Window : src'[v].session # m.session
  <2>1. /\ m.session <= counts.sessions /\ m.session \in Nat
        /\ m.kind = "end" => m.session # NoSession /\ \A v \in Window : src[v].session # m.session
    BY <1>5 DEF SessionsApart, Posted
  <2>2. m.kind = "end" => src'[w].session # m.session
    BY <1>1, <2>1
  <2>3. QED
    BY <1>4, <1>5, <2>1, <2>2
<1>6. \A b \in Window : \A m \in Listed(posted'[b]) : m \in Posted
  BY ElementOfSeq DEF Listed, NoneArrives, Arrives
<1>7. ASSUME NEW b \in Window, NEW m \in Listed(posted'[b])
      PROVE  /\ m.session <= counts'.sessions
             /\ m.kind = "end" => m.session # NoSession /\ \A v \in Window : src'[v].session # m.session
  <2>1. CASE m \in Listed(posted[b])
    BY <1>5, <1>6, <2>1
  <2>2. CASE m \notin Listed(posted[b])
    <3>1. /\ m \in Posted /\ m.session <= counts.sessions
          /\ m.kind = "end" =>
               m.session = src[w].session /\ m.session # NoSession /\ src'[w].session # m.session
      BY <1>7, <2>2 DEF Arrives, NoneArrives
    <3>2. m.kind = "end" => \A v \in Window \ {w} : src[v].session # m.session
      BY <3>1 DEF SessionsApart
    <3>3. QED
      BY <1>4, <3>1, <3>2
  <2>3. QED
    BY <2>1, <2>2
<1>8. QED
  BY <1>2, <1>3, <1>7 DEF SessionsApart

-----------------------------------------------------------------------------
(***************************************************************************)
(* Steps that move no tab.                                                 *)
(***************************************************************************)
TransferInv == TabsInv /\ SessionsApart

RemoteSound == remote' \in [Window -> Preview] /\ PreviewsSound'
SessionFor(w) ==
  \/ src'[w].session \in {src[w].session, NoSession} /\ counts.sessions = counts'.sessions
  \/ src'[w].session = counts'.sessions /\ counts'.sessions = counts.sessions + 1
PostedFor(w) ==
  \/ NoneArrives
  \/ \E m \in Posted :
       /\ Arrives(m) /\ (m.kind = "update" => m.point \in Point) /\ m.session <= counts.sessions
       /\ m.kind = "end" =>
            m.session = src[w].session /\ m.session # NoSession /\ src'[w].session # m.session
SentFor == SentSound /\ Awaited' /\ AwaitedOnce' /\ Overdue'

LEMMA Parts ==
  ASSUME TransferInv
  PROVE  /\ TypeOK /\ MessagesTyped /\ SourcesSound /\ PreviewsSound
         /\ Held /\ Awaited /\ AwaitedOnce /\ Overdue /\ CopiesCounted /\ Somewhere /\ Once
         /\ SessionsApart
BY DEF TransferInv, TabsInv, MessagesInv

LEMMA TypesKept ==
  ASSUME TransferInv, NEW w \in Window, Only(w), Sound(src'[w]), up' \subseteq Window,
         at' \in [Window -> [Tab -> Group \cup {NoGroup}]], torn' \subseteq Tab,
         CountsTyped, HistoryTyped, SessionFor(w), PostedFor(w), RemoteSound, SentSound
  PROVE  MessagesInv' /\ SessionsApart'
<1>1. PostedSound
  BY DEF PostedFor, PostedSound
<1>2. MessagesTyped'
  BY <1>1, Parts, MessagesKept
<1>3. SourcesSound' /\ src' \in [Window -> Source]
      /\ \A v \in Window : src'[v].target # NoWindow => src'[v].session # NoSession
  BY Parts, SourcesKept
<1>4. SessionsApart'
  BY Parts, SessionsKept DEF SessionFor, PostedFor
<1>5. TypeOK'
  BY <1>3 DEF TypeOK, RemoteSound
<1>6. QED
  BY <1>2, <1>3, <1>4, <1>5 DEF MessagesInv, RemoteSound

LEMMA CalmStep ==
  ASSUME TransferInv, UNCHANGED <<up, at, torn, history>>, NEW w \in Window, Only(w), Sound(src'[w]),
         Hand(src'[w], src[w]) \/ (~Told(src[w]) /\ ~Told(src'[w])),
         src'[w].tab = NoTab \/ src'[w].tab = src[w].tab \/ Has(w, src'[w].tab),
         src'[w].pc = "sending" /\ src'[w].copying => src'[w].tab \in history.copied,
         CountsTyped, SessionFor(w), PostedFor(w), RemoteSound, SentFor
  PROVE  TransferInv'
<1>1. Held' /\ CopiesCounted' /\ Somewhere' /\ Once'
  BY Parts, CalmKeeps
<1>2. HistoryTyped
  BY Parts DEF MessagesTyped, HistoryTyped
<1>3. MessagesInv' /\ SessionsApart'
  BY <1>2, Parts, Types, TypesKept DEF SentFor
<1>4. QED
  BY <1>1, <1>3 DEF SentFor, TransferInv, TabsInv

\* What keeps the remaining variables.
LEMMA Unsent ==
  ASSUME TransferInv, UNCHANGED <<sent, up, history>>, NEW w \in Window, Only(w),
         \/ src[w].pc = "free" \/ src[w].answer # "none"
         \/ src'[w].pc = src[w].pc /\ src'[w].tab = src[w].tab /\ src'[w].answer = src[w].answer
  PROVE  SentFor
<1>1. Thins(NoWindow) /\ SentSound
  BY Parts, StaysThin DEF SentSound
<1>2. ASSUME src[w].pc = "free" \/ src[w].answer # "none",
             NEW b \in Window, NEW i \in 1..Len(sent'[b])
      PROVE  ~(sent'[b][i].waited /\ sent'[b][i].source = w)
  BY <1>2, Parts DEF Awaited, Awaits
<1>3. Awaited' /\ AwaitedOnce'
  BY <1>1, <1>2, Parts, ThinsAwaited DEF Only
<1>4. Overdue'
  BY <1>1, Parts, Types, ThinsOverdue
<1>5. QED
  BY <1>1, <1>3, <1>4 DEF SentFor

LEMMA Unposted ==
  ASSUME TransferInv, UNCHANGED posted, NEW w
  PROVE  PostedFor(w)
BY Parts DEF MessagesTyped, PostedFor, NoneArrives

LEMMA EndPosted ==
  ASSUME TransferInv, NEW w \in Window, posted' = Ending(w), src'[w].session # src[w].session \/ src[w].session = NoSession
  PROVE  PostedFor(w)
<1>1. CASE NoneArrives
  BY <1>1 DEF PostedFor
<1>2. CASE Arrives(Finish(src[w].session)) /\ src[w].session # NoSession
  <2>1. Finish(src[w].session) \in Posted /\ Finish(src[w].session).kind = "end"
        /\ Finish(src[w].session).session = src[w].session
    BY Parts, Types, SourceIs DEF Finish, Posted
  <2>2. src[w].session <= counts.sessions
    BY Parts DEF SessionsApart
  <2>3. QED
    BY <1>2, <2>1, <2>2 DEF PostedFor
<1>3. QED
  BY <1>1, <1>2, Parts, EndingIs

LEMMA UpdatePosted ==
  ASSUME TransferInv, NEW w \in Window, NEW b, NEW point \in Point,
         posted' = Post(posted, b, Update(src[w].session, point))
  PROVE  PostedFor(w)
<1>1. /\ Update(src[w].session, point) \in Posted /\ Update(src[w].session, point).kind = "update"
      /\ Update(src[w].session, point).session = src[w].session
      /\ Update(src[w].session, point).point = point
  BY Parts, Types, SourceIs DEF Update, Posted
<1>2. src[w].session <= counts.sessions
  BY Parts DEF SessionsApart
<1>3. Arrives(Update(src[w].session, point))
  BY <1>1, Parts, PostIs
<1>4. QED
  BY <1>1, <1>2, <1>3 DEF PostedFor

LEMMA RemoteStays ==
  ASSUME TransferInv, UNCHANGED remote
  PROVE  RemoteSound
BY Parts, Types DEF RemoteSound, PreviewsSound

LEMMA CountsStay ==
  ASSUME TransferInv, UNCHANGED counts
  PROVE  CountsTyped /\ counts'.sessions = counts.sessions
BY Parts DEF MessagesTyped, CountsTyped

LEMMA StartDragStep ==
  ASSUME TransferInv, NEW w \in Window, NEW t \in Tab, StartDrag(w, t)
  PROVE  TransferInv'
<1>1. src[w] \in Source /\ src[w].pc = "free" /\ Has(w, t)
  BY Parts, Types DEF StartDrag, Free
<1>2. [src[w] EXCEPT !.tab = t] \in Source
  BY <1>1 DEF Source
<1>3. Only(w) /\ src'[w] = [src[w] EXCEPT !.tab = t]
  BY <1>2, Parts, PutIs DEF StartDrag
<1>4. Side(src'[w], src[w]) /\ src'[w].pc = "free" /\ src'[w].tab = t
  BY <1>1, <1>3 DEF Source, Side
<1>5. Sound(src'[w]) /\ ~Told(src[w]) /\ ~Told(src'[w])
  BY <1>1, <1>4, Parts, SoundIs DEF Sound, Side, Told
<1>6. CountsTyped /\ SessionFor(w)
  <2>1. counts \in [sessions : 0..MaxSessions, drags : Nat] /\ counts' = [counts EXCEPT !.drags = @ + 1]
    BY Parts DEF MessagesTyped, StartDrag
  <2>2. CountsTyped /\ counts'.sessions = counts.sessions
    BY <2>1 DEF CountsTyped
  <2>3. QED
    BY <1>4, <2>2 DEF SessionFor, Side
<1>7. UNCHANGED <<up, remote, posted, sent, at, torn, history>>
  BY DEF StartDrag
<1>8. SentFor
  BY <1>1, <1>3, <1>7, Unsent
<1>9. QED
  BY <1>1, <1>3, <1>4, <1>5, <1>6, <1>7, <1>8, Unposted, RemoteStays, CalmStep

\* A source changes its side of the preview only.
LEMMA SideStep ==
  ASSUME TransferInv, NEW w \in Window, Only(w), Hand(src'[w], src[w]),
         \/ Side(src'[w], src[w])
         \/ src[w].pc = "free" /\ src'[w].target = NoWindow /\ src'[w].session = NoSession,
         UNCHANGED <<up, sent, at, torn, counts, history>>, PostedFor(w), RemoteSound
  PROVE  TransferInv'
<1>1. Sound(src'[w])
  BY Parts, SoundIs DEF Sound, Side, Hand
<1>2. CountsTyped /\ SessionFor(w)
  BY CountsStay DEF SessionFor, Side
<1>3. SentFor
  BY Unsent DEF Hand
<1>4. src'[w].tab = src[w].tab
  BY DEF Hand
<1>5. src'[w].pc = "sending" /\ src'[w].copying => src'[w].tab \in history.copied
  BY Parts DEF CopiesCounted, Hand
<1>6. UNCHANGED <<up, at, torn, history>>
      /\ (Hand(src'[w], src[w]) \/ (~Told(src[w]) /\ ~Told(src'[w])))
      /\ (src'[w].tab = NoTab \/ src'[w].tab = src[w].tab \/ Has(w, src'[w].tab))
  BY <1>4
<1>7. QED
  BY <1>1, <1>2, <1>3, <1>5, <1>6, CalmStep

LEMMA PulseStep ==
  ASSUME TransferInv, NEW w \in Window, NEW cursor \in Cursor,
         PulseAway(w, cursor) \/ PulseSame(w, cursor) \/ PulseWait(w, cursor)
  PROVE  TransferInv'
<1>1. /\ src[w] \in Source /\ src[w].pc = "free"
      /\ UNCHANGED <<up, remote, sent, at, torn, counts, history>> /\ RemoteSound
  BY Parts, Types, RemoteStays DEF PulseAway, PulseSame, PulseWait, Pulsing, Free
<1>2. ASSUME NEW s \in Source, Put(w, s), Hand(s, Ended(w)), Side(s, Ended(w)), posted' = Ending(w)
      PROVE  TransferInv'
  <2>1. Only(w) /\ src'[w] = s
    BY <1>2, Parts, PutIs
  <2>2. Hand(src'[w], src[w]) /\ src'[w].target = NoWindow /\ src'[w].session = NoSession
    BY <1>2, <2>1, Parts, EndedIs DEF Hand, Side
  <2>3. PostedFor(w)
    BY <1>2, <2>2, EndPosted
  <2>4. QED
    BY <1>1, <2>1, <2>2, <2>3, SideStep
<1>3. CASE PulseAway(w, cursor)
  <2>1. NoWindow \in Window \cup {NoWindow} /\ Ended(w) \in Source
    BY Parts, EndedIs
  <2>2. QED
    BY <1>2, <1>3, <2>1, TimersAre DEF PulseAway
<1>4. CASE PulseWait(w, cursor)
  <2>1. Ended(w) \in Source
    BY Parts, EndedIs
  <2>2. QED
    BY <1>2, <1>4, <2>1, TimersAre DEF PulseWait
<1>5. CASE PulseSame(w, cursor)
  <2>1. [src[w] EXCEPT !.pulsed = TRUE] \in Source
        /\ Hand([src[w] EXCEPT !.pulsed = TRUE], src[w]) /\ Side([src[w] EXCEPT !.pulsed = TRUE], src[w])
    BY <1>1, TimersAre
  <2>2. Only(w) /\ Hand(src'[w], src[w]) /\ Side(src'[w], src[w])
    BY <1>5, <2>1, Parts, PutIs DEF PulseSame
  <2>3. cursor \in Point
    BY <1>5, Parts, Targets DEF PulseSame
  <2>4. PostedFor(w)
    BY <1>5, <2>3, UpdatePosted DEF PulseSame
  <2>5. QED
    BY <1>1, <2>2, <2>4, SideStep
<1>6. QED
  BY <1>3, <1>4, <1>5

LEMMA PulseBeginStep ==
  ASSUME TransferInv, NEW w \in Window, NEW cursor \in Cursor, PulseBegin(w, cursor)
  PROVE  TransferInv'
<1>1. /\ src[w] \in Source /\ src[w].pc = "free" /\ Has(w, src[w].tab) /\ cursor \in Point
      /\ UNCHANGED <<up, remote, at, torn, history>>
  BY Parts, Types, Targets, SourceIs DEF PulseBegin, Pulsing, Free, Dragging, Held
<1>2. /\ CountsTyped /\ counts'.sessions = counts.sessions + 1 /\ counts'.sessions \in 0..MaxSessions
      /\ counts'.sessions # NoSession /\ counts'.sessions # src[w].session
  <2>1. /\ counts \in [sessions : 0..MaxSessions, drags : Nat] /\ counts.sessions < MaxSessions
        /\ counts' = [counts EXCEPT !.sessions = @ + 1]
        /\ src[w].session <= counts.sessions /\ src[w].session \in 0..MaxSessions
    BY <1>1, Parts, SourceIs DEF MessagesTyped, PulseBegin, SessionsApart
  <2>2. counts.sessions + 1 \in 0..MaxSessions /\ counts.sessions + 1 # 0 /\ counts.sessions + 1 # src[w].session
    BY <2>1, BoundAssumption
  <2>3. QED
    BY <2>1, <2>2 DEF CountsTyped, NoSession
<1> DEFINE s == [Ended(w) EXCEPT !.pulsed = TRUE, !.pc = "beginning", !.answer = "none", !.point = cursor,
                                 !.session = counts'.sessions, !.target = NoWindow]
<1>3. /\ s \in Source /\ s.pc = "beginning" /\ s.answer = "none" /\ s.point = cursor
      /\ s.session = counts'.sessions /\ s.target = NoWindow /\ s.tab = src[w].tab
      /\ s.copying = src[w].copying
  BY <1>1, <1>2, Parts, EndedIs DEF Source, Hand
<1>4. Put(w, s)
  BY DEF PulseBegin
<1> HIDE DEF s
<1>5. Only(w) /\ src'[w] = s
  BY <1>3, <1>4, Parts, PutIs
<1>6. PostedFor(w)
  BY <1>2, <1>3, <1>5, EndPosted DEF PulseBegin
<1>7. PICK m \in Message : /\ Sends(cursor.window, m) /\ m.kind = "begin" /\ m.source = w /\ m.waited
                           /\ m.session = counts'.sessions
  <2>1. Send(w, "begin", counts'.sessions, cursor)
    BY DEF PulseBegin
  <2>2. \A n \in 0..MaxSessions : Send(w, "begin", n, cursor) =>
          \E m \in Message : /\ Sends(cursor.window, m) /\ m.kind = "begin" /\ m.source = w /\ m.waited
                             /\ m.session = n
    BY <1>1, Parts, SendIs
  <2>3. QED
    BY <1>2, <2>1, <2>2
<1>8. SentFor
  <2>1. cursor.window \in Window
    BY <1>1, Points
  <2>2. SentSound
    BY <1>2, <1>7, <2>1 DEF SentSound
  <2>3. Awaited' /\ AwaitedOnce'
    BY <1>1, <1>3, <1>5, <1>7, <2>1, Parts, SendsAwaited DEF Only
  <2>4. Overdue'
    BY <1>1, <1>7, <2>1, Parts, SendsOverdue
  <2>5. QED
    BY <2>2, <2>3, <2>4 DEF SentFor
<1>9. Sound(src'[w]) /\ ~Told(src[w]) /\ ~Told(src'[w])
  BY <1>1, <1>2, <1>3, <1>5 DEF Sound, Told
<1>10. SessionFor(w)
  BY <1>2, <1>3, <1>5 DEF SessionFor
<1>11. QED
  BY <1>1, <1>2, <1>3, <1>5, <1>6, <1>8, <1>9, <1>10, RemoteStays, CalmStep

LEMMA BeganStep ==
  ASSUME TransferInv, NEW w \in Window, Began(w)
  PROVE  TransferInv'
<1> DEFINE b == src[w].point.window
<1>1. /\ src[w] \in Source /\ src[w].pc = "beginning" /\ src[w].answer = "yes"
      /\ src[w].point \in Point /\ src[w].session # NoSession /\ b \in Window
      /\ UNCHANGED <<up, remote, sent, at, torn, counts, history>>
      /\ posted' = Post(posted, b, Update(src[w].session, src[w].point))
  BY Parts, Types, Points DEF Began, SourcesSound
<1> DEFINE s == [src[w] EXCEPT !.pc = "free", !.answer = "none", !.point = Nowhere,
                               !.target = b, !.rejected = NoWindow, !.due = FALSE]
<1>2. /\ s \in Source /\ s.pc = "free" /\ s.session = src[w].session /\ s.tab = src[w].tab
  BY <1>1 DEF Source
<1>3. Put(w, s)
  BY DEF Began
<1> HIDE DEF s, b
<1>4. Only(w) /\ src'[w] = s
  BY <1>2, <1>3, Parts, PutIs
<1>5. PostedFor(w)
  BY <1>1, UpdatePosted
<1>6. Sound(src'[w]) /\ ~Told(src[w]) /\ ~Told(src'[w])
  BY <1>1, <1>2, <1>4 DEF Sound, Told
<1>7. CountsTyped /\ SessionFor(w)
  BY <1>1, <1>2, <1>4, CountsStay DEF SessionFor
<1>8. SentFor
  BY <1>1, <1>4, Unsent
<1>9. QED
  BY <1>1, <1>2, <1>4, <1>5, <1>6, <1>7, <1>8, RemoteStays, CalmStep

LEMMA BeginFailsStep ==
  ASSUME TransferInv, NEW w \in Window, BeginFails(w)
  PROVE  TransferInv'
<1>1. /\ src[w] \in Source /\ src[w].pc = "beginning" /\ w \in up
      /\ src[w].point \in Point /\ src[w].point.window \in Window
      /\ UNCHANGED <<up, remote, posted, at, torn, counts, history>>
  BY Parts, Types, Points DEF BeginFails, SourcesSound
<1> DEFINE s == [src[w] EXCEPT !.pc = "free", !.answer = "none", !.point = Nowhere, !.session = NoSession,
                               !.rejected = src[w].point.window, !.due = FALSE]
<1>2. /\ s \in Source /\ s.pc = "free" /\ s.session = NoSession /\ s.tab = src[w].tab
      /\ s.target = src[w].target
  <2>1. \A v \in Window : LET r == [src[w] EXCEPT !.pc = "free", !.answer = "none", !.point = Nowhere,
                                        !.session = NoSession, !.rejected = v, !.due = FALSE]
                        IN  /\ r \in Source /\ r.pc = "free" /\ r.session = NoSession /\ r.tab = src[w].tab
                            /\ r.target = src[w].target
    <3>1. NoSession \in 0..MaxSessions
      BY BoundAssumption DEF NoSession
    <3>2. QED
      BY <1>1, <3>1 DEF Source
  <2>2. QED
    BY <1>1, <2>1
<1>3. Put(w, s)
  BY DEF BeginFails
<1> HIDE DEF s
<1>4. Only(w) /\ src'[w] = s
  BY <1>2, <1>3, Parts, PutIs
<1>5. Thins(w)
  <2>1. sent' = Forsaken(w)
    BY DEF BeginFails
  <2>2. sent' = [b \in Window |-> IF b \in {} THEN <<>> ELSE Forsaken(w)[b]]
    BY <2>1 DEF Forsaken
  <2>3. {} \in SUBSET Window
    OBVIOUS
  <2>4. QED
    BY <2>2, <2>3, Parts, ForsakenThins
<1>6. SentFor
  <2>1. \A b \in Window : \A i \in 1..Len(sent'[b]) : ~(sent'[b][i].waited /\ sent'[b][i].source = w)
    BY <1>5, ThinsQuiet
  <2>2. Awaited' /\ AwaitedOnce'
    BY <1>4, <1>5, <2>1, Parts, ThinsAwaited DEF Only
  <2>3. \A b \in Window : \A i \in 1..Len(sent[b]) :
          ~(sent[b][i].kind = "tab" /\ sent[b][i].waited /\ sent[b][i].source = w)
    BY <1>1, Parts DEF Awaited, Awaits
  <2>4. Overdue'
    BY <1>1, <1>5, <2>3, Parts, ThinsOverdue
  <2>5. QED
    BY <1>5, <2>2, <2>4 DEF SentFor, SentSound
<1>7. Sound(src'[w]) /\ ~Told(src[w]) /\ ~Told(src'[w])
  BY <1>1, <1>2, <1>4, Parts DEF Sound, Told, SourcesSound
<1>8. CountsTyped /\ SessionFor(w)
  BY <1>1, <1>2, <1>4, CountsStay DEF SessionFor
<1>9. QED
  BY <1>1, <1>2, <1>4, <1>6, <1>7, <1>8, RemoteStays, Unposted, CalmStep

LEMMA ReleaseInsideStep ==
  ASSUME TransferInv, NEW w \in Window, NEW cursor \in Cursor, ReleaseInside(w, cursor)
  PROVE  TransferInv'
<1>1. /\ src[w] \in Source /\ src[w].pc = "free"
      /\ UNCHANGED <<up, remote, posted, sent, at, torn, counts, history>>
  BY Parts, Types DEF ReleaseInside, Free
<1>2. /\ Only(w) /\ Side(src'[w], src[w]) /\ src'[w].pc = "free" /\ src'[w].tab = NoTab
  BY <1>1, Parts, DroppedIs, PutIs DEF ReleaseInside
<1>3. Sound(src'[w]) /\ ~Told(src[w]) /\ ~Told(src'[w])
  BY <1>1, <1>2, Parts, SoundIs DEF Sound, Side, Told
<1>4. CountsTyped /\ SessionFor(w)
  BY <1>1, <1>2, CountsStay DEF SessionFor, Side
<1>5. SentFor
  BY <1>1, <1>2, Unsent
<1>6. QED
  BY <1>1, <1>2, <1>3, <1>4, <1>5, Unposted, RemoteStays, CalmStep

\* A preview that is shown in one window.
Drawn(p) == (p.fresh => p.point \in Point) /\ (p.valid => p.shown \in Point /\ p.group = p.shown.group)

LEMMA PreviewIs ==
  ASSUME TransferInv, NEW b \in Window
  PROVE  remote[b] \in Preview /\ Drawn(remote[b])
BY Parts, Types DEF PreviewsSound, Drawn

LEMMA NoPreviewIs == NoPreview \in Preview /\ Drawn(NoPreview) /\ NoPreview.session = NoSession
BY BoundAssumption DEF NoPreview, Preview, Drawn, NoSession

LEMMA RemoteIs ==
  ASSUME TransferInv, NEW b \in Window, NEW p \in Preview, Drawn(p), remote' = [remote EXCEPT ![b] = p]
  PROVE  RemoteSound
BY Parts, Types DEF RemoteSound, PreviewsSound, Drawn

LEMMA ExpiredIs ==
  ASSUME TransferInv, NEW b \in Window
  PROVE  Expired(b) \in Preview /\ Drawn(Expired(b))
BY PreviewIs, NoPreviewIs DEF Expired

LEMMA ShownIs ==
  ASSUME NEW p \in Preview, p.fresh, Drawn(p)
  PROVE  LET q == [p EXCEPT !.valid = TRUE, !.shown = p.point, !.group = p.point.group]
         IN q \in Preview /\ Drawn(q)
<1>1. p.point \in Point /\ p.point.group \in Group
  BY Points DEF Drawn
<1>2. QED
  BY <1>1 DEF Preview, Drawn

\* Nothing of a source changes.
LEMMA SourceStays ==
  ASSUME TransferInv, UNCHANGED src, NEW w \in Window
  PROVE  Only(w) /\ Hand(src'[w], src[w]) /\ Side(src'[w], src[w])
BY Parts, Types DEF Only, Hand, Side

LEMMA ReceivePostedStep ==
  ASSUME TransferInv, NEW b \in Window, ReceivePosted(b)
  PROVE  TransferInv'
<1> DEFINE m == Head(posted[b])
<1>1. /\ posted[b] # <<>> /\ posted' = [posted EXCEPT ![b] = Tail(@)]
      /\ UNCHANGED <<up, src, sent, at, torn, counts, history>>
      /\ remote' = IF m.session # remote[b].session THEN remote
                   ELSE IF m.kind = "end" THEN [remote EXCEPT ![b] = NoPreview]
                   ELSE [remote EXCEPT ![b].point = m.point, ![b].fresh = TRUE, ![b].valid = FALSE]
  BY DEF ReceivePosted
<1>2. NoneArrives /\ m \in Posted /\ m \in Listed(posted[b])
  BY <1>1, Parts, TailIs
<1>3. m.kind # "end" => m.point \in Point
  BY <1>2, Parts DEF MessagesTyped, Posted
<1> HIDE DEF m
<1>4. RemoteSound
  <2>1. CASE remote' = remote
    BY <2>1, RemoteStays
  <2>2. CASE remote' = [remote EXCEPT ![b] = NoPreview]
    BY <2>2, NoPreviewIs, RemoteIs
  <2>3. CASE /\ m.kind # "end"
             /\ remote' = [remote EXCEPT ![b].point = m.point, ![b].fresh = TRUE, ![b].valid = FALSE]
    <3>1. remote' = [remote EXCEPT ![b] = [remote[b] EXCEPT !.point = m.point, !.fresh = TRUE, !.valid = FALSE]]
      BY <2>3, Parts, Types
    <3>2. LET p == [remote[b] EXCEPT !.point = m.point, !.fresh = TRUE, !.valid = FALSE]
          IN p \in Preview /\ Drawn(p)
      <4>1. m.point \in Point
        BY <1>3, <2>3
      <4>2. QED
        BY <4>1, PreviewIs DEF Preview, Drawn
    <3>3. QED
      BY <3>1, <3>2, RemoteIs
  <2>4. QED
    BY <1>1, <2>1, <2>2, <2>3
<1>5. QED
  BY <1>1, <1>2, <1>4, SourceStays, SideStep DEF PostedFor

LEMMA FrameStep ==
  ASSUME TransferInv, NEW b \in Window, Frame(b)
  PROVE  TransferInv'
<1>1. src[b] \in Source /\ src[b].pc = "free" /\ UNCHANGED <<up, sent, at, torn, counts, history>>
  BY Parts, Types DEF Frame, Free
<1>2. RemoteSound
  <2>1. CASE remote' = [remote EXCEPT ![b] = Expired(b)]
    BY <2>1, ExpiredIs, RemoteIs
  <2>2. CASE /\ remote[b].fresh
             /\ remote' = [remote EXCEPT ![b].valid = TRUE, ![b].shown = remote[b].point,
                                         ![b].group = remote[b].point.group]
    <3>1. remote' = [remote EXCEPT ![b] = [remote[b] EXCEPT !.valid = TRUE, !.shown = remote[b].point,
                                                            !.group = remote[b].point.group]]
      BY <2>2, Parts, Types
    <3>2. QED
      BY <2>2, <3>1, PreviewIs, ShownIs, RemoteIs
  <2>3. QED
    BY <2>1, <2>2 DEF Frame
<1>3. CASE posted' = Ending(b) /\ Put(b, Ended(b))
  <2>1. /\ Only(b) /\ Hand(src'[b], src[b]) /\ src'[b].target = NoWindow /\ src'[b].session = NoSession
    BY <1>3, Parts, EndedIs, PutIs
  <2>2. PostedFor(b)
    BY <1>3, <2>1, EndPosted
  <2>3. QED
    BY <1>1, <1>2, <2>1, <2>2, SideStep
<1>4. CASE UNCHANGED <<posted, src>>
  BY <1>1, <1>2, <1>4, SourceStays, Unposted, SideStep
<1>5. QED
  BY <1>3, <1>4 DEF Frame

LEMMA ElapseStep ==
  ASSUME TransferInv, NEW w \in Window, Elapse(w)
  PROVE  TransferInv'
<1>1. src[w] \in Source /\ UNCHANGED <<up, posted, sent, at, torn, counts, history>> /\ PostedFor(w)
  BY Parts, Types, Unposted DEF Elapse
<1>2. CASE remote' = [remote EXCEPT ![w].fresh = FALSE] /\ UNCHANGED src
  <2>1. RemoteSound
    <3>1. remote' = [remote EXCEPT ![w] = [remote[w] EXCEPT !.fresh = FALSE]]
      BY <1>2, Parts, Types
    <3>2. [remote[w] EXCEPT !.fresh = FALSE] \in Preview /\ Drawn([remote[w] EXCEPT !.fresh = FALSE])
      BY PreviewIs DEF Preview, Drawn
    <3>3. QED
      BY <3>1, <3>2, RemoteIs
  <2>2. QED
    BY <1>1, <1>2, <2>1, SourceStays, SideStep
<1>3. ASSUME NEW s \in Source, Put(w, s), Hand(s, src[w]), Side(s, src[w]), UNCHANGED remote
      PROVE  TransferInv'
  <2>1. Only(w) /\ src'[w] = s
    BY <1>3, Parts, PutIs
  <2>2. QED
    BY <1>1, <1>3, <2>1, RemoteStays, SideStep
<1>4. CASE Put(w, [src[w] EXCEPT !.pulsed = FALSE]) /\ UNCHANGED remote
  BY <1>1, <1>3, <1>4, TimersAre
<1>5. CASE Put(w, [src[w] EXCEPT !.due = TRUE]) /\ UNCHANGED remote
  BY <1>1, <1>3, <1>5, TimersAre
<1>6. QED
  BY <1>2, <1>4, <1>5 DEF Elapse

\* The first message of b is answered, and its source only hears the answer.
Hears(w, answer) ==
  /\ Only(w) /\ Side(src'[w], src[w])
  /\ src'[w].pc = src[w].pc /\ src'[w].tab = src[w].tab /\ src'[w].point = src[w].point
  /\ src'[w].copying = src[w].copying
  /\ src'[w].answer = src[w].answer \/ (src[w].answer = "none" /\ src'[w].answer = answer)

LEMMA ReplyIs ==
  ASSUME TransferInv, NEW b \in Window, Receives(b), Received(b), UNCHANGED <<up, history>>,
         NEW answer \in {"yes", "no"}, Reply(Head(sent[b]), answer)
  PROVE  LET m == Head(sent[b]) IN
         /\ m \in Message /\ m.source \in Window /\ Hears(m.source, answer) /\ SentFor
         /\ m.kind = "tab" => m.tab \in Tab
         /\ m.waited => Awaits(m.source, m) /\ src'[m.source].answer = answer
         /\ ~m.waited => src' = src
         /\ m.kind = "tab" /\ ~m.waited /\ m.source \in up => m.tab \in history.late
<1> DEFINE m == Head(sent[b])
<1>1. /\ Thins(NoWindow) /\ m \in Message /\ m \in Listed(sent[b])
      /\ m.waited => \A c \in Window : \A i \in 1..Len(sent'[c]) :
                       sent'[c][i].waited => sent'[c][i].source # m.source
  BY Parts, ReceivedThins DEF Receives
<1>2. m.source \in Window /\ (m.kind = "tab" => m.tab \in Tab)
  BY <1>1, Parts DEF Message, MessagesTyped
<1>3. PICK i \in 1..Len(sent[b]) : m = sent[b][i]
  BY <1>1, Parts, MessageIs
<1>4. /\ m.waited => Awaits(m.source, m)
      /\ m.kind = "tab" /\ ~m.waited /\ m.source \in up => m.tab \in history.late
  BY <1>3, Parts DEF Awaited, Overdue
<1>5. src' = IF m.waited THEN [src EXCEPT ![m.source].answer = answer] ELSE src
  BY DEF Reply
<1> HIDE DEF m
<1>6. /\ Hears(m.source, answer) /\ (m.waited => src'[m.source].answer = answer)
  <2>1. src[m.source] \in Source /\ src \in [Window -> Source]
    BY <1>2, Parts, Types
  <2>2. [src[m.source] EXCEPT !.answer = answer] \in Source
    BY <2>1 DEF Source
  <2>3. CASE m.waited
    <3>1. src' = [src EXCEPT ![m.source] = [src[m.source] EXCEPT !.answer = answer]]
      BY <1>2, <1>5, <2>1, <2>3
    <3>2. Only(m.source) /\ src'[m.source] = [src[m.source] EXCEPT !.answer = answer]
      BY <1>2, <2>1, <2>2, <3>1 DEF Only
    <3>3. QED
      BY <1>4, <2>1, <2>3, <3>2 DEF Hears, Side, Source, Awaits
  <2>4. CASE ~m.waited
    BY <1>5, <2>1, <2>4 DEF Hears, Side, Only
  <2>5. QED
    BY <2>3, <2>4
<1>7. Awaited' /\ AwaitedOnce'
  <2>1. \A v \in Window :
          \/ src'[v].pc = src[v].pc /\ src'[v].tab = src[v].tab /\ src'[v].answer = src[v].answer
          \/ \A c \in Window : \A j \in 1..Len(sent'[c]) : ~(sent'[c][j].waited /\ sent'[c][j].source = v)
    BY <1>1, <1>5, <1>6 DEF Hears, Only
  <2>2. QED
    BY <1>1, <2>1, Parts, ThinsAwaited
<1>8. Overdue'
  BY <1>1, Parts, Types, ThinsOverdue
<1>9. SentFor
  BY <1>1, <1>7, <1>8 DEF SentFor, SentSound
<1>10. ~m.waited => src' = src
  BY <1>5
<1>11. QED
  BY <1>1, <1>2, <1>4, <1>6, <1>9, <1>10 DEF m

\* A source that hears has the side of the preview that it had.
LEMMA HearsSound ==
  ASSUME TransferInv, NEW w \in Window, NEW answer, Hears(w, answer), UNCHANGED counts
  PROVE  Sound(src'[w]) /\ CountsTyped /\ SessionFor(w)
<1>1. Sound(src'[w])
  BY Parts, SoundIs DEF Sound, Hears, Side
<1>2. QED
  BY <1>1, CountsStay DEF SessionFor, Hears, Side

LEMMA AnswerStep ==
  ASSUME TransferInv, NEW b \in Window, Receives(b), Received(b), NEW answer \in {"yes", "no"},
         Reply(Head(sent[b]), answer), UNCHANGED <<up, posted, at, torn, counts, history>>, RemoteSound,
         answer = "yes" => Head(sent[b]).kind = "begin"
  PROVE  TransferInv'
<1> DEFINE m == Head(sent[b])
<1>1. /\ m.source \in Window /\ Hears(m.source, answer) /\ SentFor
      /\ m.waited => Awaits(m.source, m) /\ src'[m.source].answer = answer
      /\ ~m.waited => src' = src
  BY ReplyIs
<1>2. answer = "yes" => m.kind = "begin"
  OBVIOUS
<1> HIDE DEF m
<1> DEFINE w == m.source
<1>3. Sound(src'[w]) /\ CountsTyped /\ SessionFor(w)
  BY <1>1, HearsSound
<1>4. Hand(src'[w], src[w]) \/ (~Told(src[w]) /\ ~Told(src'[w]))
  <2>1. CASE m.waited
    BY <1>1, <1>2, <2>1 DEF Told, Awaits, Hears
  <2>2. CASE ~m.waited
    BY <1>1, <2>2 DEF Hand
  <2>3. QED
    BY <2>1, <2>2
<1>5. src'[w].tab = src[w].tab /\ (src'[w].pc = "sending" /\ src'[w].copying => src'[w].tab \in history.copied)
  BY <1>1, Parts DEF Hears, CopiesCounted
<1>6. Only(w) /\ w \in Window /\ PostedFor(w)
  BY <1>1, Unposted DEF Hears
<1> HIDE DEF w
<1>7. QED
  BY <1>1, <1>3, <1>4, <1>5, <1>6, CalmStep

LEMMA ReceiveBeginStep ==
  ASSUME TransferInv, NEW b \in Window, ReceiveBegin(b)
  PROVE  TransferInv'
<1> DEFINE m == Head(sent[b])
<1>1. /\ Receives(b) /\ Received(b) /\ m.kind = "begin" /\ Reply(m, "yes")
      /\ UNCHANGED <<up, posted, at, torn, counts, history>>
      /\ remote' = [remote EXCEPT ![b] = [NoPreview EXCEPT
           !.source = m.source, !.session = m.session, !.point = m.point, !.fresh = TRUE]]
  BY DEF ReceiveBegin, Genuine
<1>2. m \in Message
  BY <1>1, Parts, ReceivedThins DEF Receives
<1> HIDE DEF m
<1>3. RemoteSound
  <2> DEFINE p == [NoPreview EXCEPT !.source = m.source, !.session = m.session, !.point = m.point,
                                    !.fresh = TRUE]
  <2>1. p \in Preview /\ Drawn(p)
    BY <1>2, NoPreviewIs DEF Preview, Message, Drawn, NoPreview
  <2>2. remote' = [remote EXCEPT ![b] = p]
    BY <1>1
  <2> HIDE DEF p
  <2>3. QED
    BY <2>1, <2>2, RemoteIs
<1>4. QED
  BY <1>1, <1>3, AnswerStep DEF m

LEMMA DeclineStep ==
  ASSUME TransferInv, NEW b \in Window, Decline(b)
  PROVE  TransferInv'
<1>1. RemoteSound
  BY RemoteStays, ExpiredIs, RemoteIs DEF Decline
<1>2. QED
  BY <1>1, AnswerStep DEF Decline

-----------------------------------------------------------------------------
(***************************************************************************)
(* Steps that move a tab.                                                  *)
(***************************************************************************)
LEMMA ReleaseOverStep ==
  ASSUME TransferInv, NEW w \in Window, NEW cursor \in Cursor, ReleaseOver(w, cursor)
  PROVE  TransferInv'
<1>1. /\ src[w] \in Source /\ src[w].pc = "free" /\ src[w].tab \in Tab /\ Has(w, src[w].tab)
      /\ cursor \in Point /\ cursor.window \in Window
      /\ UNCHANGED <<up, remote, posted, at, torn, counts>>
  BY Parts, Types, Targets, SourceIs DEF ReleaseOver, Free, Dragging, Held
<1>2. PICK copying \in BOOLEAN :
        /\ Put(w, [src[w] EXCEPT !.pc = "sending", !.answer = "none", !.point = cursor, !.copying = copying])
        /\ history' = Copied(copying, src[w].tab)
  BY DEF ReleaseOver
<1>3. /\ Only(w) /\ Side(src'[w], src[w]) /\ src'[w].pc = "sending" /\ src'[w].answer = "none"
      /\ src'[w].point = cursor /\ src'[w].tab = src[w].tab /\ src'[w].copying = copying
  <2> DEFINE s == [src[w] EXCEPT !.pc = "sending", !.answer = "none", !.point = cursor, !.copying = copying]
  <2>1. /\ s \in Source /\ Side(s, src[w]) /\ s.pc = "sending" /\ s.answer = "none"
        /\ s.point = cursor /\ s.tab = src[w].tab /\ s.copying = copying
    BY <1>1 DEF Source, Side
  <2>2. Put(w, s)
    BY <1>2
  <2> HIDE DEF s
  <2>3. QED
    BY <2>1, <2>2, Parts, PutIs
<1>4. /\ HistoryTyped /\ history'.copied = (IF copying THEN history.copied \cup {src[w].tab} ELSE history.copied)
      /\ history'.late = history.late /\ history'.closed = history.closed
  <2>1. history \in [copied : SUBSET Tab, late : SUBSET Tab, closed : SUBSET Tab]
    BY Parts DEF MessagesTyped
  <2>2. QED
    BY <1>1, <1>2, <2>1 DEF Copied, HistoryTyped
<1>5. PICK m \in Message : /\ Sends(cursor.window, m) /\ m.kind = "tab" /\ m.source = w /\ m.waited
                           /\ m.tab = src[w].tab
  <2>1. \E n \in 0..MaxSessions : Send(w, "tab", n, cursor)
    <3>1. src[w].session \in 0..MaxSessions /\ NoSession \in 0..MaxSessions
      BY <1>1, SourceIs, BoundAssumption DEF NoSession
    <3>2. QED
      BY <3>1 DEF ReleaseOver
  <2>2. QED
    BY <1>1, <2>1, Parts, SendIs
<1>6. SentFor
  <2>1. SentSound
    BY <1>1, <1>5 DEF SentSound
  <2>2. Awaited' /\ AwaitedOnce'
    BY <1>1, <1>3, <1>5, Parts, SendsAwaited DEF Only
  <2>3. Overdue'
    BY <1>1, <1>4, <1>5, Parts, SendsOverdue
  <2>4. QED
    BY <2>1, <2>2, <2>3 DEF SentFor
<1>7. Sound(src'[w])
  BY <1>1, <1>3, Parts, SoundIs DEF Sound, Side
<1>8. MessagesInv' /\ SessionsApart'
  <2>1. CountsTyped /\ SessionFor(w)
    BY <1>1, <1>3, CountsStay DEF SessionFor, Side
  <2>2. QED
    BY <1>1, <1>3, <1>4, <1>6, <1>7, <2>1, Parts, Types, Unposted, RemoteStays, TypesKept DEF SentFor
<1>9. \A v \in Window, t \in Tab : Keeps(v, t)' <=> Keeps(v, t)
  BY <1>1, <1>3 DEF Keeps, Has, Only
<1>10. Held' /\ CopiesCounted'
  BY <1>1, <1>3, <1>4, Parts DEF Held, Has, Only, CopiesCounted
<1>11. Somewhere' /\ Once'
  <2>1. history.copied \subseteq history'.copied
    BY <1>4
  <2>2. QED
    BY <1>1, <1>4, <1>9, <2>1, Parts DEF Somewhere, Once
<1>12. QED
  BY <1>6, <1>8, <1>10, <1>11 DEF SentFor, TransferInv, TabsInv

\* The drag of w ends, and the tab leaves its window unless it is copied.
LEMMA LeaveKeeps ==
  ASSUME TypeOK, Held, CopiesCounted, Somewhere, Once, NEW w \in Window, Only(w),
         src[w].tab \in Tab, src'[w].pc = "free", src'[w].tab = NoTab,
         NEW copying \in BOOLEAN, at' = Remaining(w, copying), copying => src[w].tab \in history'.copied,
         history.copied \subseteq history'.copied, history.late \subseteq history'.late,
         history'.closed = history.closed,
         \/ ~Told(src[w]) /\ torn' = torn \cup {src[w].tab}
         \/ Told(src[w]) /\ torn' = torn
  PROVE  /\ Held' /\ CopiesCounted' /\ Somewhere' /\ Once' /\ torn' \subseteq Tab
         /\ at' \in [Window -> [Tab -> Group \cup {NoGroup}]]
<1> PICK t \in Tab : t = src[w].tab
  OBVIOUS
<1>1. /\ at' \in [Window -> [Tab -> Group \cup {NoGroup}]]
      /\ ~copying => ~Has(w, t)'
      /\ \A v \in Window, u \in Tab : (v # w \/ u # t) => at'[v][u] = at[v][u]
      /\ copying => at' = at
  <2>1. at \in [Window -> [Tab -> Group \cup {NoGroup}]]
    BY Types
  <2>2. CASE copying
    BY <2>1, <2>2 DEF Remaining
  <2>3. CASE ~copying
    <3>1. at' = [at EXCEPT ![w][t] = NoGroup]
      BY <2>3 DEF Remaining
    <3>2. QED
      BY <2>1, <2>3, <3>1 DEF Has
  <2>4. QED
    BY <2>2, <2>3
<1>2. /\ Has(w, t) /\ (Keeps(w, t) <=> ~Told(src[w]))
  BY Types DEF Held, Keeps, Told
<1>3. \A v \in Window, u \in Tab : (v # w \/ u # t) => (Keeps(v, u)' <=> Keeps(v, u))
  <2>1. ASSUME NEW v \in Window, NEW u \in Tab, v # w \/ u # t
        PROVE  Keeps(v, u)' <=> Keeps(v, u)
    <3>1. at'[v][u] = at[v][u]
      BY <1>1, <2>1
    <3>2. CASE v # w
      BY <3>1, <3>2 DEF Keeps, Has, Only
    <3>3. CASE v = w /\ u # t
      BY <3>1, <3>3 DEF Keeps, Has
    <3>4. QED
      BY <2>1, <3>2, <3>3
  <2>2. QED
    BY <2>1
<1>4. ~copying => ~Keeps(w, t)'
  BY <1>1 DEF Keeps
<1>5. copying => Keeps(w, t)'
  BY <1>1, <1>2 DEF Keeps, Has
<1>6. Held'
  <2>1. ASSUME NEW v \in Window, src'[v].tab # NoTab PROVE at'[v][src'[v].tab] # NoGroup
    <3>1. v # w /\ src'[v] = src[v]
      BY <2>1 DEF Only
    <3>2. src[v].tab \in Tab
      BY <2>1, <3>1, SourceIs, Types
    <3>3. QED
      BY <1>1, <2>1, <3>1, <3>2 DEF Held, Has
  <2>2. QED
    BY <2>1 DEF Held, Has
<1>7. CopiesCounted'
  BY DEF CopiesCounted, Only
<1>8. ASSUME NEW u \in Tab PROVE u \in torn' \cup history'.closed \/ \E v \in Window : Keeps(v, u)'
  <2>1. CASE u # t
    <3>1. u \in torn \cup history.closed \/ \E v \in Window : Keeps(v, u)
      BY DEF Somewhere
    <3>2. QED
      BY <1>3, <2>1, <3>1
  <2>2. CASE u = t /\ ~Told(src[w])
    BY <2>2
  <2>3. CASE u = t /\ Told(src[w])
    <3>1. u \in torn \cup history.closed \/ \E v \in Window \ {w} : Keeps(v, u)
      BY <1>2, <2>3 DEF Somewhere
    <3>2. QED
      BY <1>3, <2>3, <3>1
  <2>4. QED
    BY <2>1, <2>2, <2>3
<1>9. ASSUME NEW u \in Tab \ (history'.copied \cup history'.late)
      PROVE  /\ \A v, x \in Window : Keeps(v, u)' /\ Keeps(x, u)' => v = x
             /\ u \in torn' => \A v \in Window : ~Keeps(v, u)'
  <2>1. /\ \A v, x \in Window : Keeps(v, u) /\ Keeps(x, u) => v = x
        /\ u \in torn => \A v \in Window : ~Keeps(v, u)
    BY DEF Once
  <2>2. CASE u # t
    BY <1>3, <2>1, <2>2
  <2>3. CASE u = t
    <3>1. ~copying /\ ~Keeps(w, t)'
      BY <1>4, <1>9, <2>3
    <3>2. ~Told(src[w]) => \A v \in Window : ~Keeps(v, u)'
      BY <1>2, <1>3, <2>1, <2>3, <3>1
    <3>3. QED
      BY <1>3, <2>1, <2>3, <3>1, <3>2
  <2>4. QED
    BY <2>2, <2>3
<1>10. Somewhere' /\ Once'
  <2>1. Somewhere'
    BY <1>8 DEF Somewhere
  <2>2. Once'
    BY <1>9 DEF Once
  <2>3. QED
    BY <2>1, <2>2
<1>11. torn' \subseteq Tab
  BY Types
<1>12. QED
  BY <1>1, <1>6, <1>7, <1>10, <1>11

LEMMA LeaveStep ==
  ASSUME TransferInv, NEW w \in Window, UNCHANGED <<up, remote, counts>>,
         \/ Put(w, Dropped(Ended(w))) /\ posted' = Ending(w)
         \/ src[w].pc = "free" /\ Put(w, Dropped(src[w])) /\ posted' = posted,
         src[w].tab \in Tab, src[w].pc # "beginning",
         NEW copying \in BOOLEAN, at' = Remaining(w, copying), copying => src[w].tab \in history'.copied,
         HistoryTyped, history.copied \subseteq history'.copied, history.late \subseteq history'.late,
         history'.closed = history.closed,
         \/ ~Told(src[w]) /\ torn' = torn \cup {src[w].tab}
         \/ Told(src[w]) /\ torn' = torn,
         Only(w) => SentFor
  PROVE  TransferInv'
<1>1. src[w] \in Source /\ Ended(w) \in Source
  BY Parts, Types, EndedIs
<1>2. /\ Only(w) /\ src'[w].pc = "free" /\ src'[w].tab = NoTab /\ Sound(src'[w])
      /\ src'[w].session \in {src[w].session, NoSession} /\ PostedFor(w)
  <2>1. CASE Put(w, Dropped(Ended(w))) /\ posted' = Ending(w)
    <3>1. /\ Only(w) /\ src'[w].pc = "free" /\ src'[w].tab = NoTab
          /\ src'[w].session = NoSession /\ src'[w].target = NoWindow
      BY <1>1, <2>1, Parts, EndedIs, DroppedIs, PutIs DEF Side
    <3>2. PostedFor(w)
      BY <2>1, <3>1, EndPosted
    <3>3. QED
      BY <3>1, <3>2 DEF Sound
  <2>2. CASE Put(w, Dropped(src[w])) /\ posted' = posted
    <3>1. Only(w) /\ src'[w].pc = "free" /\ src'[w].tab = NoTab /\ Side(src'[w], src[w])
      BY <1>1, <2>2, Parts, DroppedIs, PutIs
    <3>2. Sound(src'[w])
      BY <3>1, Parts, SoundIs DEF Sound, Side
    <3>3. QED
      BY <2>2, <3>1, <3>2, Unposted DEF Side
  <2>3. QED
    BY <2>1, <2>2
<1>3. /\ Held' /\ CopiesCounted' /\ Somewhere' /\ Once' /\ torn' \subseteq Tab
      /\ at' \in [Window -> [Tab -> Group \cup {NoGroup}]]
  BY <1>2, Parts, LeaveKeeps
<1>4. CountsTyped /\ SessionFor(w)
  BY <1>2, CountsStay DEF SessionFor
<1>5. SentFor
  BY <1>2
<1>6. MessagesInv' /\ SessionsApart'
  BY <1>2, <1>3, <1>4, <1>5, Parts, Types, RemoteStays, TypesKept DEF SentFor
<1>7. QED
  BY <1>3, <1>5, <1>6 DEF SentFor, TransferInv, TabsInv

LEMMA ReleaseOutsideStep ==
  ASSUME TransferInv, NEW w \in Window, NEW cursor \in Cursor, ReleaseOutside(w, cursor)
  PROVE  TransferInv'
<1>1. /\ src[w] \in Source /\ src[w].pc = "free" /\ src[w].tab \in Tab
      /\ UNCHANGED <<up, remote, sent, counts>> /\ torn' = torn \cup {src[w].tab}
  BY Parts, Types, SourceIs DEF ReleaseOutside, Free, Dragging
<1>2. PICK copying \in BOOLEAN : at' = Remaining(w, copying) /\ history' = Copied(copying, src[w].tab)
  BY DEF ReleaseOutside
<1>3. /\ HistoryTyped /\ history.copied \subseteq history'.copied /\ history.late = history'.late
      /\ history.closed = history'.closed /\ (copying => src[w].tab \in history'.copied)
  <2>1. history \in [copied : SUBSET Tab, late : SUBSET Tab, closed : SUBSET Tab]
    BY Parts DEF MessagesTyped
  <2>2. QED
    BY <1>1, <1>2, <2>1 DEF Copied, HistoryTyped
<1>4. ASSUME Only(w) PROVE SentFor
  <2>1. Thins(NoWindow) /\ SentSound
    BY <1>1, Parts, StaysThin DEF SentSound
  <2>2. \A b \in Window : \A i \in 1..Len(sent'[b]) : ~(sent'[b][i].waited /\ sent'[b][i].source = w)
    BY <1>1, Parts DEF Awaited, Awaits
  <2>3. Awaited' /\ AwaitedOnce'
    BY <1>4, <2>1, <2>2, Parts, ThinsAwaited DEF Only
  <2>4. Overdue'
    BY <1>1, <1>3, <2>1, Parts, Types, ThinsOverdue
  <2>5. QED
    BY <2>1, <2>3, <2>4 DEF SentFor
<1>5. \/ Put(w, Dropped(Ended(w))) /\ posted' = Ending(w)
      \/ src[w].pc = "free" /\ Put(w, Dropped(src[w])) /\ posted' = posted
  BY <1>1 DEF ReleaseOutside
<1>6. ~Told(src[w])
  BY <1>1 DEF Told
<1>7. QED
  BY <1>1, <1>2, <1>3, <1>4, <1>5, <1>6, LeaveStep

LEMMA TransferredStep ==
  ASSUME TransferInv, NEW w \in Window, Transferred(w)
  PROVE  TransferInv'
<1>1. /\ src[w] \in Source /\ src[w].pc = "sending" /\ src[w].tab \in Tab /\ Told(src[w])
      /\ src[w].copying \in BOOLEAN /\ src[w].answer # "none"
      /\ UNCHANGED <<up, remote, sent, torn, counts, history>>
      /\ at' = Remaining(w, src[w].copying)
  BY Parts, Types, SourceIs DEF Transferred, SourcesSound, Taken, Told
<1>2. HistoryTyped /\ (src[w].copying => src[w].tab \in history'.copied)
  BY <1>1, Parts DEF MessagesTyped, HistoryTyped, CopiesCounted
<1>3. Only(w) => SentFor
  BY <1>1, Unsent
<1>4. Put(w, Dropped(Ended(w))) /\ posted' = Ending(w)
  BY DEF Transferred
<1>5. QED
  BY <1>1, <1>2, <1>3, <1>4, LeaveStep

LEMMA TornOffStep ==
  ASSUME TransferInv, NEW w \in Window, TornOff(w)
  PROVE  TransferInv'
<1>1. /\ src[w] \in Source /\ src[w].pc = "sending" /\ src[w].tab \in Tab /\ ~Told(src[w])
      /\ src[w].copying \in BOOLEAN /\ UNCHANGED <<up, remote, counts>>
      /\ at' = Remaining(w, src[w].copying) /\ torn' = torn \cup {src[w].tab}
      /\ Put(w, Dropped(Ended(w))) /\ posted' = Ending(w)
  BY Parts, Types, SourceIs DEF TornOff, SourcesSound, Taken, Told
<1>2. /\ HistoryTyped /\ history'.copied = history.copied /\ history.late \subseteq history'.late
      /\ history.closed = history'.closed /\ (src[w].answer = "none" => src[w].tab \in history'.late)
  <2>1. history \in [copied : SUBSET Tab, late : SUBSET Tab, closed : SUBSET Tab]
    BY Parts DEF MessagesTyped
  <2>2. history' = [history EXCEPT !.late = IF src[w].answer = "none" THEN @ \cup {src[w].tab} ELSE @]
    BY DEF TornOff
  <2>3. QED
    BY <1>1, <2>1, <2>2 DEF HistoryTyped
<1>3. src[w].copying => src[w].tab \in history'.copied
  BY <1>1, <1>2, Parts DEF CopiesCounted
<1>4. Thins(w)
  <2>1. sent' = Forsaken(w)
    BY DEF TornOff
  <2>2. sent' = [b \in Window |-> IF b \in {} THEN <<>> ELSE Forsaken(w)[b]]
    BY <2>1 DEF Forsaken
  <2>3. {} \in SUBSET Window
    OBVIOUS
  <2>4. QED
    BY <2>2, <2>3, Parts, ForsakenThins
<1>5. ASSUME Only(w) PROVE SentFor
  <2>1. \A b \in Window : \A i \in 1..Len(sent'[b]) : ~(sent'[b][i].waited /\ sent'[b][i].source = w)
    BY <1>4, ThinsQuiet
  <2>2. Awaited' /\ AwaitedOnce'
    BY <1>4, <1>5, <2>1, Parts, ThinsAwaited DEF Only
  <2>3. \A b \in Window : \A i \in 1..Len(sent[b]) :
          sent[b][i].kind = "tab" /\ sent[b][i].waited /\ sent[b][i].source = w => sent[b][i].tab \in history'.late
    BY <1>2, Parts DEF Awaited, Awaits
  <2>4. Overdue'
    BY <1>1, <1>2, <1>4, <2>3, Parts, ThinsOverdue
  <2>5. QED
    BY <1>4, <2>2, <2>4 DEF SentFor, SentSound
<1>6. history.copied \subseteq history'.copied /\ src[w].pc # "beginning"
  BY <1>1, <1>2
<1>7. QED
  BY <1>1, <1>2, <1>3, <1>5, <1>6, LeaveStep

LEMMA ReceiveTabStep ==
  ASSUME TransferInv, NEW b \in Window, ReceiveTab(b)
  PROVE  TransferInv'
<1> PICK m : m = Head(sent[b])
  OBVIOUS
<1>1. /\ Receives(b) /\ Received(b) /\ m.kind = "tab" /\ m.source \in up /\ Reply(m, "yes")
      /\ UNCHANGED <<up, posted, torn, counts, history>>
      /\ at' = [at EXCEPT ![b][m.tab] = Destination(b, m)] /\ remote' = [remote EXCEPT ![b] = NoPreview]
  BY DEF ReceiveTab, Genuine
<1>2. /\ m \in Message /\ m.source \in Window /\ Hears(m.source, "yes") /\ SentFor
      /\ m.tab \in Tab
      /\ m.waited => Awaits(m.source, m) /\ src'[m.source].answer = "yes"
      /\ ~m.waited => src' = src /\ m.tab \in history.late
  BY <1>1, ReplyIs
<1> PICK w \in Window : w = m.source
  BY <1>2
<1> PICK t \in Tab : t = m.tab
  BY <1>2
<1>3. PICK g \in Group : g = Destination(b, m)
  <2>1. m.point.group \in Group
    BY <1>2, Points DEF Message
  <2>2. Matches(b, m) => remote[b].group \in Group
    BY Parts, Points DEF Matches, PreviewsSound
  <2>3. QED
    BY <2>1, <2>2 DEF Destination
<1>4. /\ at' \in [Window -> [Tab -> Group \cup {NoGroup}]] /\ at'[b][t] = g
      /\ \A v \in Window, u \in Tab : (v # b \/ u # t) => at'[v][u] = at[v][u]
  BY <1>1, <1>3, Parts, Types
<1>5. \A v \in Window, u \in Tab : Has(v, u) => Has(v, u)'
  BY <1>3, <1>4, Types, Parts DEF Has
<1>6. Sound(src'[w]) /\ CountsTyped /\ SessionFor(w)
  BY <1>1, <1>2, HearsSound
<1>7. MessagesInv' /\ SessionsApart'
  <2>1. RemoteSound
    BY <1>1, NoPreviewIs, RemoteIs
  <2>2. HistoryTyped
    BY <1>1, Parts DEF MessagesTyped, HistoryTyped
  <2>3. Only(w) /\ PostedFor(w)
    BY <1>1, <1>2, Unposted DEF Hears
  <2>4. QED
    BY <1>1, <1>2, <1>4, <1>6, <2>1, <2>2, <2>3, Parts, Types, TypesKept DEF SentFor
<1>8. Held' /\ CopiesCounted'
  <2>1. \A v \in Window : src'[v].tab = src[v].tab /\ src'[v].pc = src[v].pc /\ src'[v].copying = src[v].copying
    BY <1>2 DEF Hears, Only
  <2>2. CopiesCounted'
    BY <1>1, <2>1, Parts DEF CopiesCounted
  <2>3. ASSUME NEW v \in Window, src'[v].tab # NoTab PROVE at'[v][src'[v].tab] # NoGroup
    <3>1. src'[v].tab = src[v].tab /\ src[v].tab \in Tab /\ Has(v, src[v].tab)
      BY <2>1, <2>3, Parts, Types, SourceIs DEF Held
    <3>2. QED
      BY <1>5, <3>1 DEF Has
  <2>4. Held'
    BY <2>3 DEF Held, Has
  <2>5. QED
    BY <2>2, <2>4
<1>9. /\ src[b].pc = "free" /\ src'[b].pc = "free"
  BY <1>1, <1>2 DEF Receives, Free, Hears, Only
<1>10. Keeps(b, t)'
  BY <1>3, <1>4, <1>9, Types, Parts DEF Keeps, Has
<1>11. ASSUME m.waited
       PROVE  /\ w # b /\ Keeps(w, t) /\ ~Keeps(w, t)'
              /\ \A v \in Window, u \in Tab : (u # t \/ (v # b /\ v # w)) => (Keeps(v, u)' <=> Keeps(v, u))
  <2>1. src[w].pc = "sending" /\ src[w].tab = t /\ src[w].answer = "none"
        /\ src'[w].pc = "sending" /\ src'[w].tab = t /\ src'[w].answer = "yes"
    BY <1>1, <1>2, <1>11 DEF Awaits, Hears
  <2>2. Has(w, t)
    BY <2>1, Parts, Types DEF Held
  <2>3. \A v \in Window \ {w} : src'[v] = src[v]
    BY <1>2 DEF Hears, Only
  <2>4. ASSUME NEW v \in Window, NEW u \in Tab, u # t \/ (v # b /\ v # w)
        PROVE  Keeps(v, u)' <=> Keeps(v, u)
    <3>1. at'[v][u] = at[v][u]
      BY <1>4, <2>4
    <3>2. CASE v = w
      BY <2>1, <2>4, <3>1, <3>2 DEF Keeps, Has
    <3>3. CASE v # w
      BY <2>3, <3>1, <3>3 DEF Keeps, Has
    <3>4. QED
      BY <3>2, <3>3
  <2>5. w # b
    BY <1>9, <2>1
  <2>6. Keeps(w, t) /\ ~Keeps(w, t)'
    BY <2>1, <2>2 DEF Keeps
  <2>7. QED
    BY <2>4, <2>5, <2>6
<1>12. ASSUME ~m.waited
       PROVE  /\ t \in history.late
              /\ \A v \in Window, u \in Tab : (u # t \/ v # b) => (Keeps(v, u)' <=> Keeps(v, u))
  <2>1. src' = src /\ t \in history.late
    BY <1>2, <1>12
  <2>2. ASSUME NEW v \in Window, NEW u \in Tab, u # t \/ v # b
        PROVE  Keeps(v, u)' <=> Keeps(v, u)
    BY <1>4, <2>1, <2>2 DEF Keeps, Has
  <2>3. QED
    BY <2>1, <2>2
<1>13. Somewhere'
  <2>1. ASSUME NEW u \in Tab PROVE u \in torn \cup history.closed \/ \E v \in Window : Keeps(v, u)'
    <3>1. u \in torn \cup history.closed \/ \E v \in Window : Keeps(v, u)
      BY Parts DEF Somewhere
    <3>2. CASE u = t
      BY <1>10, <3>2
    <3>3. CASE u # t
      BY <1>11, <1>12, <3>1, <3>3
    <3>4. QED
      BY <3>2, <3>3
  <2>2. QED
    BY <1>1, <2>1 DEF Somewhere
<1>14. Once'
  <2>1. ASSUME NEW u \in Tab \ (history.copied \cup history.late)
        PROVE  /\ \A v, x \in Window : Keeps(v, u)' /\ Keeps(x, u)' => v = x
               /\ u \in torn => \A v \in Window : ~Keeps(v, u)'
    <3>1. /\ \A v, x \in Window : Keeps(v, u) /\ Keeps(x, u) => v = x
          /\ u \in torn => \A v \in Window : ~Keeps(v, u)
      BY Parts DEF Once
    <3>2. CASE u # t
      BY <1>11, <1>12, <3>1, <3>2
    <3>3. CASE u = t
      <4>1. m.waited
        BY <1>12, <2>1, <3>3
      <4>2. \A v \in Window : Keeps(v, u)' => v = b
        BY <1>11, <3>1, <3>3, <4>1
      <4>3. QED
        BY <1>11, <3>1, <3>3, <4>1, <4>2
    <3>4. QED
      BY <3>2, <3>3
  <2>2. QED
    BY <1>1, <2>1 DEF Once
<1>15. QED
  BY <1>2, <1>7, <1>8, <1>13, <1>14 DEF SentFor, TransferInv, TabsInv

LEMMA CloseStep ==
  ASSUME TransferInv, NEW w \in Window, Close(w)
  PROVE  TransferInv'
<1>1. /\ w \in up /\ up' = up \ {w} /\ torn' = torn /\ counts' = counts
      /\ history' = [history EXCEPT !.closed = @ \cup {t \in Tab : Has(w, t)}]
      /\ at' = [at EXCEPT ![w] = [t \in Tab |-> NoGroup]]
      /\ remote' = [remote EXCEPT ![w] = NoPreview] /\ posted' = [posted EXCEPT ![w] = <<>>]
      /\ sent' = [b \in Window |-> IF b = w THEN <<>> ELSE Forsaken(w)[b]]
  BY DEF Close
<1>2. /\ src' = [v \in Window |->
           IF v = w THEN NoDrag
           ELSE IF \E i \in 1..Len(sent[w]) : Waiting(v, w, i) THEN [src[v] EXCEPT !.answer = "no"]
           ELSE src[v]]
  BY DEF Close
<1>3. /\ src' \in [Window -> Source] /\ src'[w] = NoDrag /\ Sound(src'[w])
      /\ src'[w].tab = NoTab /\ src'[w].pc = "free" /\ src'[w].session = NoSession
  <2>1. NoDrag \in Source /\ Sound(NoDrag) /\ NoDrag.tab = NoTab /\ NoDrag.pc = "free" /\ NoDrag.session = NoSession
    BY BoundAssumption DEF NoDrag, Source, Sound, NoSession
  <2>2. \A v \in Window : [src[v] EXCEPT !.answer = "no"] \in Source /\ src[v] \in Source
    <3>1. \A r \in Source : [r EXCEPT !.answer = "no"] \in Source
      BY DEF Source
    <3>2. QED
      BY <3>1, Parts, Types
  <2>3. QED
    BY <1>2, <2>1, <2>2
<1>4. ASSUME NEW v \in Window \ {w}
      PROVE  /\ src'[v].pc = src[v].pc /\ src'[v].tab = src[v].tab /\ src'[v].point = src[v].point
             /\ src'[v].copying = src[v].copying /\ Side(src'[v], src[v])
             /\ \/ src'[v].answer = src[v].answer /\ \A i \in 1..Len(sent[w]) : ~Waiting(v, w, i)
                \/ /\ src[v].answer = "none" /\ src'[v].answer = "no"
                   /\ \E i \in 1..Len(sent[w]) : Waiting(v, w, i)
  <2>1. src[v] \in Source
    BY Parts, Types
  <2>2. CASE \E i \in 1..Len(sent[w]) : Waiting(v, w, i)
    <3>1. src[v].answer = "none"
      BY <2>2, Parts DEF Waiting, Awaited, Awaits
    <3>2. src'[v] = [src[v] EXCEPT !.answer = "no"]
      BY <1>2, <2>2
    <3>3. QED
      BY <2>1, <2>2, <3>1, <3>2 DEF Source, Side
  <2>3. CASE \A i \in 1..Len(sent[w]) : ~Waiting(v, w, i)
    <3>1. src'[v] = src[v]
      BY <1>2, <2>3
    <3>2. QED
      BY <2>3, <3>1 DEF Side
  <2>4. QED
    BY <2>2, <2>3
<1>5. Thins(w) /\ sent'[w] = <<>>
  <2>1. {w} \in SUBSET Window /\ sent' = [b \in Window |-> IF b \in {w} THEN <<>> ELSE Forsaken(w)[b]]
    BY <1>1
  <2>2. QED
    BY <1>1, <2>1, Parts, ForsakenThins
<1>6. \A b \in Window : \A i \in 1..Len(sent'[b]) : sent'[b][i].waited =>
        /\ b # w /\ sent'[b][i].source # w
        /\ \E j \in 1..Len(sent[b]) : sent[b][j].waited /\ sent[b][j].source = sent'[b][i].source
  <2>1. PICK gone \in [Window -> {0, 1}] : \A b \in Window : \A i \in 1..Len(sent'[b]) :
          i + gone[b] \in 1..Len(sent[b]) /\ Since(sent'[b][i], sent[b][i + gone[b]], w)
    BY <1>5 DEF Thins
  <2>2. ASSUME NEW b \in Window, NEW i \in 1..Len(sent'[b]), sent'[b][i].waited
        PROVE  /\ b # w /\ sent'[b][i].source # w
               /\ \E j \in 1..Len(sent[b]) : sent[b][j].waited /\ sent[b][j].source = sent'[b][i].source
    <3>1. PICK j \in 1..Len(sent[b]) : Since(sent'[b][i], sent[b][j], w)
      BY <2>1
    <3>2. Len(sent'[w]) = 0
      BY <1>5, EmptySeq
    <3>3. b # w
      BY <3>2
    <3>4. QED
      BY <2>2, <3>1, <3>3 DEF Since
  <2>3. QED
    BY <2>2
<1>7. Awaited' /\ AwaitedOnce'
  <2>1. ASSUME NEW v \in Window
        PROVE  \/ src'[v].pc = src[v].pc /\ src'[v].tab = src[v].tab /\ src'[v].answer = src[v].answer
               \/ \A b \in Window : \A i \in 1..Len(sent'[b]) : ~(sent'[b][i].waited /\ sent'[b][i].source = v)
    <3>1. CASE v = w
      BY <1>6, <3>1
    <3>2. CASE v # w /\ src'[v].answer = src[v].answer
      BY <1>4, <3>2
    <3>3. CASE \E i \in 1..Len(sent[w]) : Waiting(v, w, i)
      <4>1. PICK k \in 1..Len(sent[w]) : sent[w][k].source = v /\ sent[w][k].waited
        BY <3>3 DEF Waiting
      <4>2. \A b \in Window : \A j \in 1..Len(sent[b]) : sent[b][j].waited /\ sent[b][j].source = v => b = w
        BY <4>1, Parts DEF AwaitedOnce
      <4>3. QED
        BY <1>6, <4>2
    <3>4. QED
      BY <1>4, <3>1, <3>2, <3>3
  <2>2. QED
    BY <1>5, <2>1, Parts, ThinsAwaited
<1>8. /\ HistoryTyped /\ history'.copied = history.copied /\ history'.late = history.late
      /\ history'.closed = history.closed \cup {t \in Tab : Has(w, t)}
  <2>1. history \in [copied : SUBSET Tab, late : SUBSET Tab, closed : SUBSET Tab]
    BY Parts DEF MessagesTyped
  <2>2. QED
    BY <1>1, <2>1 DEF HistoryTyped
<1>9. Overdue'
  BY <1>1, <1>5, <1>8, Parts, ThinsOverdue
<1>10. NoneArrives
  <2>1. posted \in [Window -> Seq(Posted)]
    BY Parts DEF MessagesTyped
  <2>2. <<>> \in Seq(Posted) /\ Listed(<<>>) = {}
    BY EmptySeq DEF Listed
  <2>3. QED
    BY <1>1, <2>1, <2>2 DEF NoneArrives
<1>11. MessagesTyped'
  <2>1. CountsTyped /\ PostedSound /\ SentSound
    BY <1>1, <1>5, <1>10, CountsStay DEF PostedSound, SentSound
  <2>2. QED
    BY <1>8, <2>1, Parts, MessagesKept
<1>12. \A v \in Window : Sound(src'[v])
  BY <1>3, <1>4, Parts, SoundIs DEF Sound, Side
<1>13. SourcesSound' /\ \A v \in Window : src'[v].target # NoWindow => src'[v].session # NoSession
  BY <1>12 DEF SourcesSound, Sound
<1>14. RemoteSound
  BY <1>1, NoPreviewIs, RemoteIs
<1>15. at' \in [Window -> [Tab -> Group \cup {NoGroup}]] /\ (\A t \in Tab : at'[w][t] = NoGroup)
       /\ \A v \in Window \ {w} : at'[v] = at[v]
  BY <1>1, Parts, Types
<1>16. TypeOK'
  BY <1>1, <1>3, <1>13, <1>14, <1>15, Parts, Types DEF TypeOK, RemoteSound
<1>17. SessionsApart'
  <2>1. \A v \in Window : src'[v].session \in {src[v].session, NoSession}
    BY <1>3, <1>4 DEF Side
  <2>2. \A v, u \in Window : src'[v].session = src'[u].session /\ src'[v].session # NoSession => v = u
    BY <2>1, Parts DEF SessionsApart
  <2>3. \A v \in Window : src'[v].session <= counts'.sessions
    <3>1. counts.sessions \in Nat /\ NoSession <= counts.sessions
      BY Parts, BoundAssumption DEF MessagesTyped, NoSession
    <3>2. QED
      BY <1>1, <2>1, <3>1, Parts DEF SessionsApart
  <2>4. \A b \in Window : \A m \in Listed(posted'[b]) :
          /\ m.session <= counts'.sessions
          /\ m.kind = "end" => m.session # NoSession /\ \A v \in Window : src'[v].session # m.session
    BY <1>1, <1>10, <2>1, Parts DEF NoneArrives, SessionsApart
  <2>5. QED
    BY <2>2, <2>3, <2>4 DEF SessionsApart
<1>18. \A v \in Window, t \in Tab : /\ v # w => (Keeps(v, t)' <=> Keeps(v, t))
                                    /\ v = w => ~Keeps(v, t)'
  <2>1. ASSUME NEW v \in Window, NEW t \in Tab, v # w PROVE Keeps(v, t)' <=> Keeps(v, t)
    BY <1>4, <1>15, <2>1 DEF Keeps, Has
  <2>2. ASSUME NEW t \in Tab PROVE ~Keeps(w, t)'
    BY <1>15 DEF Keeps, Has
  <2>3. QED
    BY <2>1, <2>2
<1>19. Held' /\ CopiesCounted'
  <2>1. Held'
    BY <1>3, <1>4, <1>15, Parts DEF Held, Has
  <2>2. CopiesCounted'
    BY <1>3, <1>4, <1>8, Parts DEF CopiesCounted
  <2>3. QED
    BY <2>1, <2>2
<1>20. Somewhere'
  <2>1. ASSUME NEW t \in Tab PROVE t \in torn \cup history'.closed \/ \E v \in Window : Keeps(v, t)'
    <3>1. t \in torn \cup history.closed \/ \E v \in Window : Keeps(v, t)
      BY Parts DEF Somewhere
    <3>2. Keeps(w, t) => t \in history'.closed
      BY <1>8 DEF Keeps
    <3>3. QED
      BY <1>8, <1>18, <3>1, <3>2
  <2>2. QED
    BY <1>1, <2>1 DEF Somewhere
<1>21. Once'
  BY <1>1, <1>8, <1>18, Parts DEF Once
<1>22. QED
  BY <1>7, <1>9, <1>11, <1>13, <1>14, <1>16, <1>17, <1>19, <1>20, <1>21
  DEF TransferInv, TabsInv, MessagesInv, RemoteSound

-----------------------------------------------------------------------------
(***************************************************************************)
(* The invariant holds.                                                    *)
(***************************************************************************)
LEMMA TransferInit == Init => TransferInv
<1> SUFFICES ASSUME Init PROVE TransferInv
  OBVIOUS
<1>1. PICK place \in [Tab -> [window : First, group : Group]] :
        at = [w \in Window |-> [t \in Tab |-> IF place[t].window = w THEN place[t].group ELSE NoGroup]]
  BY DEF Init
<1>2. /\ up = Window /\ torn = {} /\ counts = [sessions |-> 0, drags |-> 0]
      /\ history = [copied |-> {}, late |-> {}, closed |-> {}]
      /\ src = [w \in Window |-> NoDrag] /\ remote = [w \in Window |-> NoPreview]
      /\ posted = [w \in Window |-> <<>>] /\ sent = [w \in Window |-> <<>>]
  BY DEF Init
<1>3. NoDrag \in Source /\ NoPreview \in Preview
  BY NoPreviewIs, BoundAssumption DEF NoDrag, Source, NoSession
<1>4. /\ NoDrag.pc = "free" /\ NoDrag.tab = NoTab /\ NoDrag.target = NoWindow /\ NoDrag.session = NoSession
      /\ NoPreview.fresh = FALSE /\ NoPreview.valid = FALSE
  BY DEF NoDrag, NoPreview
<1>5. <<>> \in Seq(Posted) /\ <<>> \in Seq(Message) /\ Listed(<<>>) = {} /\ 1..Len(<<>>) = {}
  BY EmptySeq DEF Listed
<1>6. at \in [Window -> [Tab -> Group \cup {NoGroup}]]
  BY <1>1
<1>7. MessagesInv
  BY <1>2, <1>3, <1>4, <1>5, <1>6, BoundAssumption
  DEF MessagesInv, TypeOK, MessagesTyped, SourcesSound, PreviewsSound
<1>8. Held /\ Awaited /\ AwaitedOnce /\ Overdue /\ CopiesCounted
  BY <1>2, <1>4, <1>5 DEF Held, Awaited, AwaitedOnce, Overdue, CopiesCounted
<1>9. \A w \in Window, t \in Tab : Keeps(w, t) <=> place[t].window = w
  <2>1. \A t \in Tab : place[t].group \in Group
    OBVIOUS
  <2>2. QED
    BY <1>1, <1>2, <1>4, <2>1, AbsentAssumption DEF Keeps, Has
<1>10. Somewhere /\ Once
  <2>1. \A t \in Tab : place[t].window \in Window
    BY FirstAssumption
  <2>2. QED
    BY <1>2, <1>9, <2>1 DEF Somewhere, Once
<1>11. SessionsApart
  BY <1>2, <1>4, <1>5 DEF SessionsApart, NoSession
<1>12. QED
  BY <1>7, <1>8, <1>10, <1>11 DEF TransferInv, TabsInv

LEMMA TransferStep ==
  ASSUME TransferInv, [Next]_vars
  PROVE  TransferInv'
<1>1. CASE UNCHANGED vars
  <2>1. UNCHANGED <<up, src, remote, posted, sent, at, torn, counts, history>>
    BY <1>1 DEF vars
  <2>2. MessagesInv'
    BY <2>1, Parts DEF MessagesInv, TypeOK, MessagesTyped, SourcesSound, PreviewsSound
  <2>3. Held' /\ CopiesCounted' /\ Somewhere' /\ Once'
    BY <2>1, Parts DEF Held, CopiesCounted, Somewhere, Once, Keeps, Has
  <2>4. Awaited' /\ AwaitedOnce' /\ Overdue'
    BY <2>1, Parts DEF Awaited, Awaits, AwaitedOnce, Overdue
  <2>5. SessionsApart'
    BY <2>1, Parts DEF SessionsApart
  <2>6. QED
    BY <2>2, <2>3, <2>4, <2>5 DEF TransferInv, TabsInv
<1>2. CASE Next
  <2>1. ASSUME NEW w \in Window, NEW t \in Tab, StartDrag(w, t) PROVE TransferInv'
    BY <2>1, StartDragStep
  <2>2. ASSUME NEW w \in Window, NEW cursor \in Cursor,
               PulseAway(w, cursor) \/ PulseSame(w, cursor) \/ PulseWait(w, cursor) \/ PulseBegin(w, cursor)
        PROVE  TransferInv'
    BY <2>2, PulseStep, PulseBeginStep
  <2>3. ASSUME NEW w \in Window, NEW cursor \in Cursor,
               ReleaseInside(w, cursor) \/ ReleaseOutside(w, cursor) \/ ReleaseOver(w, cursor)
        PROVE  TransferInv'
    BY <2>3, ReleaseInsideStep, ReleaseOutsideStep, ReleaseOverStep
  <2>4. ASSUME NEW w \in Window, Began(w) \/ BeginFails(w) \/ Transferred(w) \/ TornOff(w)
        PROVE  TransferInv'
    BY <2>4, BeganStep, BeginFailsStep, TransferredStep, TornOffStep
  <2>5. ASSUME NEW w \in Window, ReceiveBegin(w) \/ ReceiveTab(w) \/ Decline(w) \/ ReceivePosted(w)
        PROVE  TransferInv'
    BY <2>5, ReceiveBeginStep, ReceiveTabStep, DeclineStep, ReceivePostedStep
  <2>6. ASSUME NEW w \in Window, Frame(w) \/ Elapse(w) \/ Close(w) PROVE TransferInv'
    BY <2>6, FrameStep, ElapseStep, CloseStep
  <2>7. QED
    BY <1>2, <2>1, <2>2, <2>3, <2>4, <2>5, <2>6 DEF Next
<1>3. QED
  BY <1>1, <1>2

LEMMA TransferHolds == Spec => []TransferInv
BY TransferInit, TransferStep, PTL DEF Spec

-----------------------------------------------------------------------------
(***************************************************************************)
(* The properties.                                                         *)
(***************************************************************************)
\* However many windows exchange tabs, and whichever close or stop waiting, no
\* drag loses a tab, and one that was only moved is in one place
\* (payload.cpp TransferTab, ReceiveTab).
THEOREM TabsStayKept == Spec => []TabsKept
<1>1. TransferInv => TabsKept
  <2> SUFFICES ASSUME TransferInv PROVE TabsKept
    OBVIOUS
  <2>1. NeverLost
    BY Parts DEF Somewhere, NeverLost, Keeps
  <2>2. OneCopy
    BY Parts DEF Once, OneCopy, Keeps, Handing
  <2>3. QED
    BY <2>1, <2>2, Parts DEF TabsKept
<1>2. QED
  BY <1>1, TransferHolds, PTL

\* A tab lands in the group it was released over, for any number of previews
\* and of messages on their way (payload.cpp ReceiveTab).
THEOREM DropsFollowReleases == Spec => DropFollowsRelease
<1>1. TransferInv /\ [Next]_vars => [LandsAtRelease]_vars
  <2> SUFFICES ASSUME TransferInv, [Next]_vars PROVE [LandsAtRelease]_vars
    OBVIOUS
  <2>1. CASE UNCHANGED vars
    BY <2>1
  <2>2. CASE \E b \in Window : ReceiveTab(b)
    <3>1. PICK b \in Window : ReceiveTab(b)
      BY <2>2
    <3>2. at' = [at EXCEPT ![b][Head(sent[b]).tab] = Destination(b, Head(sent[b]))]
      BY <3>1 DEF ReceiveTab
    <3>3. Destination(b, Head(sent[b])) = Head(sent[b]).point.group
      BY Parts DEF Destination, Matches, PreviewsSound
    <3>4. QED
      BY <3>2, <3>3, Parts, Types DEF LandsAtRelease
  <2>3. CASE \A c \in Window, t \in Tab : at'[c][t] \in {at[c][t], NoGroup}
    BY <2>3 DEF LandsAtRelease
  <2>4. \A w \in Window, copying \in BOOLEAN : at' = Remaining(w, copying) =>
          \A c \in Window, t \in Tab : at'[c][t] \in {at[c][t], NoGroup}
    BY Parts, Types DEF Remaining
  <2>5. ASSUME NEW w \in Window, Close(w)
        PROVE  \A c \in Window, t \in Tab : at'[c][t] \in {at[c][t], NoGroup}
    BY <2>5, Parts, Types DEF Close
  <2>6. ASSUME NEW w \in Window, Transferred(w) \/ TornOff(w)
        PROVE  \A c \in Window, t \in Tab : at'[c][t] \in {at[c][t], NoGroup}
    <3>1. at' = Remaining(w, src[w].copying) /\ src[w].copying \in BOOLEAN
      BY <2>6, Parts, Types, SourceIs DEF Transferred, TornOff
    <3>2. QED
      BY <2>4, <3>1
  <2>7. ASSUME NEW w \in Window, NEW cursor, ReleaseOutside(w, cursor)
        PROVE  \A c \in Window, t \in Tab : at'[c][t] \in {at[c][t], NoGroup}
    BY <2>4, <2>7 DEF ReleaseOutside
  <2>8. ASSUME at' = at
        PROVE  \A c \in Window, t \in Tab : at'[c][t] \in {at[c][t], NoGroup}
    BY <2>8
  <2>9. CASE Next
    <3>1. \/ at' = at
          \/ \E w \in Window : \/ Close(w) \/ Transferred(w) \/ TornOff(w) \/ ReceiveTab(w)
                               \/ \E cursor : ReleaseOutside(w, cursor)
      <4>1. \A w \in Window, t \in Tab : StartDrag(w, t) => at' = at
        BY DEF StartDrag
      <4>2. ASSUME NEW w \in Window, NEW cursor \in Cursor,
                   \/ PulseAway(w, cursor) \/ PulseSame(w, cursor) \/ PulseWait(w, cursor)
                   \/ PulseBegin(w, cursor) \/ ReleaseInside(w, cursor) \/ ReleaseOver(w, cursor)
            PROVE  at' = at
        <5>1. CASE PulseAway(w, cursor)
          BY <5>1 DEF PulseAway, Pulsing
        <5>2. CASE PulseSame(w, cursor)
          BY <5>2 DEF PulseSame, Pulsing
        <5>3. CASE PulseWait(w, cursor)
          BY <5>3 DEF PulseWait, Pulsing
        <5>4. CASE PulseBegin(w, cursor)
          BY <5>4 DEF PulseBegin, Pulsing
        <5>5. CASE ReleaseInside(w, cursor)
          BY <5>5 DEF ReleaseInside
        <5>6. CASE ReleaseOver(w, cursor)
          BY <5>6 DEF ReleaseOver
        <5>7. QED
          BY <4>2, <5>1, <5>2, <5>3, <5>4, <5>5, <5>6
      <4>3. \A w \in Window :
              Began(w) \/ BeginFails(w) \/ ReceiveBegin(w) \/ Decline(w) \/ ReceivePosted(w)
              \/ Frame(w) \/ Elapse(w) => at' = at
        BY DEF Began, BeginFails, ReceiveBegin, Decline, ReceivePosted, Frame, Elapse
      <4>4. QED
        BY <2>9, <4>1, <4>2, <4>3 DEF Next
    <3>2. QED
      BY <2>2, <2>3, <2>5, <2>6, <2>7, <2>8, <3>1
  <2>10. QED
    BY <2>1, <2>9
<1>2. QED
  BY <1>1, TransferHolds, PTL DEF Spec, DropFollowsRelease

\* A preview that its source pulses stays with its target, whatever the
\* messages of older sessions do (payload.cpp ReceiveRemotePreviewMessage).
THEOREM PreviewsLast == Spec => PreviewLasts
<1>1. TransferInv /\ [Next]_vars => [KeepsPreview]_vars
  <2> SUFFICES ASSUME TransferInv, [Next]_vars PROVE [KeepsPreview]_vars
    OBVIOUS
  <2>1. CASE UNCHANGED vars
    BY <2>1
  <2>2. ASSUME Next, NEW a \in Window, NEW b \in Window, Previewing(a, b), src'[a].target = b, b \in up'
        PROVE  remote'[b].session # NoSession \/ ReceiveTab(b)
    <3>1. /\ remote[b].session = src[a].session /\ remote[b].session # NoSession /\ remote[b].fresh
          /\ remote[b] \in Preview /\ remote \in [Window -> Preview]
      BY <2>2, Parts, Types DEF Previewing, TypeOK
    <3>2. CASE remote' = remote
      BY <3>1, <3>2
    <3>3. ASSUME NEW c \in Window, ReceiveTab(c) PROVE remote'[b].session # NoSession \/ ReceiveTab(b)
      BY <3>1, <3>3 DEF ReceiveTab
    <3>4. ASSUME NEW c \in Window, ReceiveBegin(c) PROVE remote'[b].session # NoSession
      <4>1. Head(sent[c]).kind = "begin" /\ Head(sent[c]) \in Listed(sent[c]) /\ Head(sent[c]) \in Message
        BY <3>4, Parts, ReceivedThins DEF ReceiveBegin, Receives, Genuine
      <4>2. PICK n \in 0..MaxSessions : n = Head(sent[c]).session /\ n # NoSession
        BY <4>1, Parts DEF MessagesTyped, Message
      <4>3. remote'[c].session = n /\ (c # b => remote'[b] = remote[b])
        BY <3>1, <3>4, <4>2 DEF ReceiveBegin, NoPreview
      <4>4. QED
        BY <3>1, <4>2, <4>3
    <3>5. ASSUME NEW c \in Window, Decline(c) PROVE remote'[b].session # NoSession
      BY <3>1, <3>5 DEF Decline, Expired
    <3>6. ASSUME NEW c \in Window, ReceivePosted(c) PROVE remote'[b].session # NoSession
      <4> PICK m : m = Head(posted[c])
        OBVIOUS
      <4>1. m \in Listed(posted[c])
        BY <3>6, Parts, TailIs DEF ReceivePosted
      <4>2. c = b /\ m.session = remote[b].session => m.kind # "end"
        BY <3>1, <4>1, Parts DEF SessionsApart
      <4>3. remote' = IF m.session # remote[c].session THEN remote
                      ELSE IF m.kind = "end" THEN [remote EXCEPT ![c] = NoPreview]
                      ELSE [remote EXCEPT ![c].point = m.point, ![c].fresh = TRUE, ![c].valid = FALSE]
        BY <3>6 DEF ReceivePosted
      <4>4. CASE c = b /\ m.session = remote[b].session
        <5>1. remote' = [remote EXCEPT ![b].point = m.point, ![b].fresh = TRUE, ![b].valid = FALSE]
          BY <4>2, <4>3, <4>4
        <5>2. remote'[b].session = remote[b].session
          BY <3>1, <5>1 DEF Preview
        <5>3. QED
          BY <3>1, <5>2
      <4>5. CASE ~(c = b /\ m.session = remote[b].session)
        BY <3>1, <4>3, <4>5
      <4>6. QED
        BY <4>4, <4>5
    <3>7. ASSUME NEW c \in Window, Frame(c) PROVE remote'[b].session # NoSession
      <4>1. CASE remote' = [remote EXCEPT ![c] = Expired(c)]
        BY <3>1, <4>1 DEF Expired
      <4>2. CASE remote' = [remote EXCEPT ![c].valid = TRUE, ![c].shown = remote[c].point,
                                          ![c].group = remote[c].point.group]
        BY <3>1, <4>2 DEF Preview
      <4>3. QED
        BY <3>7, <4>1, <4>2 DEF Frame
    <3>8. ASSUME NEW c \in Window, Elapse(c) PROVE remote'[b].session # NoSession
      <4>1. CASE remote' = [remote EXCEPT ![c].fresh = FALSE]
        BY <3>1, <4>1 DEF Preview
      <4>2. QED
        BY <3>1, <3>8, <4>1 DEF Elapse
    <3>9. ASSUME NEW c \in Window, Close(c) PROVE remote'[b].session # NoSession
      BY <2>2, <3>1, <3>9 DEF Close
    <3>10. \/ remote' = remote
           \/ \E c \in Window : \/ ReceiveTab(c) \/ ReceiveBegin(c) \/ Decline(c) \/ ReceivePosted(c)
                                \/ Frame(c) \/ Elapse(c) \/ Close(c)
      <4>1. \A w \in Window, t \in Tab : StartDrag(w, t) => remote' = remote
        BY DEF StartDrag
      <4>2. ASSUME NEW w \in Window, NEW cursor \in Cursor,
                   \/ PulseAway(w, cursor) \/ PulseSame(w, cursor) \/ PulseWait(w, cursor)
                   \/ PulseBegin(w, cursor) \/ ReleaseInside(w, cursor) \/ ReleaseOutside(w, cursor)
                   \/ ReleaseOver(w, cursor)
            PROVE  remote' = remote
        <5>1. CASE PulseAway(w, cursor)
          BY <5>1 DEF PulseAway, Pulsing
        <5>2. CASE PulseSame(w, cursor)
          BY <5>2 DEF PulseSame, Pulsing
        <5>3. CASE PulseWait(w, cursor)
          BY <5>3 DEF PulseWait, Pulsing
        <5>4. CASE PulseBegin(w, cursor)
          BY <5>4 DEF PulseBegin, Pulsing
        <5>5. CASE ReleaseInside(w, cursor)
          BY <5>5 DEF ReleaseInside
        <5>6. CASE ReleaseOutside(w, cursor)
          BY <5>6 DEF ReleaseOutside
        <5>7. CASE ReleaseOver(w, cursor)
          BY <5>7 DEF ReleaseOver
        <5>8. QED
          BY <4>2, <5>1, <5>2, <5>3, <5>4, <5>5, <5>6, <5>7
      <4>3. \A w \in Window :
              Began(w) \/ BeginFails(w) \/ Transferred(w) \/ TornOff(w) => remote' = remote
        BY DEF Began, BeginFails, Transferred, TornOff
      <4>4. QED
        BY <2>2, <4>1, <4>2, <4>3 DEF Next
    <3>11. QED
      BY <3>2, <3>3, <3>4, <3>5, <3>6, <3>7, <3>8, <3>9, <3>10
  <2>3. CASE Next
    BY <2>2, <2>3 DEF KeepsPreview
  <2>4. QED
    BY <2>1, <2>3
<1>2. QED
  BY <1>1, TransferHolds, PTL DEF Spec, PreviewLasts
=============================================================================
