---------------------------- MODULE SessionsProofs ----------------------------
(***************************************************************************)
(* Proofs about the file dialogs of MCSessions: the session of a picker,   *)
(* for any selections and number of sessions, and the watcher of other     *)
(* applications' dialogs, for any number of dialogs, workers, jobs at a    *)
(* time and starts of the watcher.                                         *)
(***************************************************************************)
EXTENDS MCSessions, SequenceTheorems, TLAPS

-----------------------------------------------------------------------------
(***************************************************************************)
(* The inductive invariant of a picker's session.                          *)
(***************************************************************************)
Code == {"none", "ok", "veto", "cancelled", "failed", "notimpl"}
Client ==
  [pc : {"free", "waiting", "calling", "reaping", "native", "dead"}, shown : BOOLEAN,
   current : Picker!Packet, hr : Code, closing : BOOLEAN, closed : {"ok", "cancelled"},
   fallback : BOOLEAN, expired : BOOLEAN]
Pending == {<<>>} \cup {<<p>> : p \in Picker!Packet}
Helper ==
  [pc : {"gone", "starting", "ready", "up"}, choice : Choice \cup {NoChoice}, pending : Pending,
   hung : BOOLEAN]
Wire ==
  [ready : BOOLEAN, event : BOOLEAN, decision : BOOLEAN, cancel : BOOLEAN, packet : Picker!Packet,
   reply : {"none"} \cup Picker!Verdict, replyTo : Picker!Packet]

PickerTyped == pickerClient \in Client /\ helper \in Helper /\ wire \in Wire /\ early \in BOOLEAN

\* A notification is on its way to the application, with it, or answered.
Asked == wire.event \/ pickerClient.pc = "calling"
Exchange ==
  /\ Picker!Gone => ~Picker!Busy
  /\ Asked => ~wire.decision /\ (Picker!Gone \/ Picker!Busy)
  /\ ~(wire.event /\ pickerClient.pc = "calling")
  /\ \A p \in Picker!Packet : helper.pending = <<p>> =>
       /\ wire.event => wire.packet = p
       /\ pickerClient.pc = "calling" => pickerClient.current = p
       /\ wire.decision => wire.replyTo = p

\* No helper is there but in a session.
Alone == pickerClient.pc \in {"free", "native"} => Picker!Gone

\* How a session that its user cancelled early may end.
Endings ==
  /\ early => wire.cancel
  /\ pickerClient.pc = "reaping" =>
       /\ early => pickerClient.hr # "ok" /\ (pickerClient.hr = "notimpl" => pickerClient.expired)
       /\ pickerClient.hr = "notimpl" => ~pickerClient.shown
  /\ pickerClient.pc = "native" =>
       pickerClient.fallback /\ ~pickerClient.shown /\ (early => pickerClient.expired)
  /\ pickerClient.pc = "free" /\ early =>
       pickerClient.hr # "ok" \/ pickerClient.closing \/ pickerClient.fallback

NeverClosedOk == pickerClient.closed = "cancelled"

ExchangeInv == PickerTyped /\ Exchange
EndingsInv == Alone /\ Endings /\ NeverClosedOk

-----------------------------------------------------------------------------
LEMMA PacketIs ==
  /\ Picker!NoPacket \in Picker!Packet
  /\ \A kind \in {"Selection", "Folder", "Type", "Accept"}, choice \in Choice \cup {NoChoice} :
       [kind |-> kind, choice |-> choice] \in Picker!Packet
BY DEF Picker!NoPacket, Picker!Packet

LEMMA PendingIs ==
  /\ <<>> \in Pending
  /\ \A p \in Picker!Packet :
       /\ <<p>> \in Pending /\ <<p>> # <<>> /\ Append(<<>>, p) = <<p>> /\ Len(<<p>>) = 1 /\ <<p>>[1] = p
       /\ SubSeq(<<p>>, 1, Len(<<p>>) - 1) = <<>>
       /\ \A q \in Picker!Packet : <<p>> = <<q>> => p = q
  /\ \A s \in Pending : s # <<>> => \E p \in Picker!Packet : s = <<p>>
<1>1. \A p \in Picker!Packet : SubSeq(<<p>>, 1, Len(<<p>>) - 1) = <<>>
  <2>1. SUFFICES ASSUME NEW p \in Picker!Packet PROVE SubSeq(<<p>>, 1, 0) = <<>>
    OBVIOUS
  <2>2. QED
    BY SubSeqProperties, EmptySeq
<1>2. QED
  BY <1>1 DEF Pending

LEMMA PickerIs ==
  /\ Picker!NoHelper \in Helper /\ Picker!NoHelper.pc = "gone" /\ Picker!NoHelper.pending = <<>>
  /\ Picker!FreshWire \in Wire
  /\ ~Picker!FreshWire.event /\ ~Picker!FreshWire.decision /\ ~Picker!FreshWire.cancel
BY PacketIs, PendingIs DEF Picker!NoHelper, Picker!FreshWire, Helper, Wire, Picker!Verdict

-----------------------------------------------------------------------------
(***************************************************************************)
(* The steps of the application.                                           *)
(***************************************************************************)
\* What a step of its thread leaves of the client, and signals.
Steps(pc, hr) ==
  /\ pickerClient' \in Client /\ pickerClient'.pc = pc /\ pickerClient'.hr = hr
  /\ pickerClient'.current = pickerClient.current
  /\ pickerClient'.closed = pickerClient.closed /\ pickerClient'.closing = pickerClient.closing
  /\ pickerClient'.fallback = pickerClient.fallback
Signals ==
  /\ wire' \in Wire /\ wire'.event = wire.event /\ wire'.decision = wire.decision
  /\ wire'.packet = wire.packet /\ wire'.replyTo = wire.replyTo

LEMMA LeaveIs ==
  ASSUME PickerTyped, NEW hr \in Code, Picker!Leave(hr)
  PROVE  /\ Steps("reaping", hr) /\ Signals /\ wire'.cancel
         /\ pickerClient'.shown = Picker!Seen /\ pickerClient'.expired = pickerClient.expired
BY DEF PickerTyped, Picker!Leave, Picker!Leaving, Picker!Cancelled, Picker!Seen, Client, Wire, Steps, Signals

LEMMA TakeEventStep ==
  ASSUME ExchangeInv, Picker!TakeEvent
  PROVE  ExchangeInv'
<1>1. /\ pickerClient' \in Client /\ pickerClient'.pc = "calling" /\ pickerClient'.current = wire.packet
      /\ wire' \in Wire /\ ~wire'.event /\ wire'.decision = wire.decision /\ wire'.packet = wire.packet
      /\ wire'.replyTo = wire.replyTo /\ UNCHANGED <<helper, early>>
  BY DEF ExchangeInv, PickerTyped, Picker!TakeEvent, Picker!Seen, Client, Wire
<1>2. wire.event
  BY DEF Picker!TakeEvent
<1>3. QED
  BY <1>1, <1>2 DEF ExchangeInv, PickerTyped, Exchange, Asked, Picker!Gone, Picker!Busy

\* The thread leaves the session, or looks again.
LEMMA LookStep ==
  ASSUME ExchangeInv, Picker!SeeCancel \/ Picker!SeeExit \/ Picker!SeeReady \/ Picker!Expire \/ Picker!Stop
                      \/ Picker!Throw
  PROVE  ExchangeInv'
<1>1. PickerTyped /\ UNCHANGED <<helper, early>>
  BY DEF ExchangeInv, Picker!SeeCancel, Picker!SeeExit, Picker!SeeReady, Picker!Expire, Picker!Stop, Picker!Throw
<1>2. /\ pickerClient' \in Client /\ pickerClient'.current = pickerClient.current
      /\ pickerClient'.pc # "calling" /\ Signals
  <2>1. CASE Picker!SeeCancel \/ Picker!SeeExit \/ Picker!Stop \/ Picker!Throw
    <3>1. \E hr \in Code : Picker!Leave(hr)
      BY <2>1 DEF Picker!SeeCancel, Picker!SeeExit, Picker!Stop, Picker!Throw, Code
    <3>2. QED
      BY <1>1, <3>1, LeaveIs DEF Steps
  <2>2. CASE Picker!Expire
    BY <1>1, <2>2 DEF PickerTyped, Picker!Expire, Picker!Cancelled, Client, Wire, Code, Signals
  <2>3. CASE Picker!SeeReady
    BY <1>1, <2>3 DEF PickerTyped, Picker!SeeReady, Client, Wire, Signals
  <2>4. QED
    BY <2>1, <2>2, <2>3
<1>3. QED
  BY <1>1, <1>2 DEF ExchangeInv, PickerTyped, Exchange, Asked, Picker!Gone, Picker!Busy, Signals

LEMMA AnswerStep ==
  ASSUME ExchangeInv, NEW hr \in Picker!Verdict, Picker!Answer(hr)
  PROVE  ExchangeInv'
<1>1. /\ PickerTyped /\ UNCHANGED <<helper, early>>
      /\ pickerClient.pc = "calling" /\ hr \in Code
  BY DEF ExchangeInv, Picker!Answer, Picker!Verdict, Code
<1>2. /\ pickerClient' \in Client /\ pickerClient'.pc # "calling"
      /\ wire' \in Wire /\ wire'.event = wire.event /\ wire'.decision /\ wire'.packet = wire.packet
      /\ wire'.replyTo = pickerClient.current
  BY <1>1 DEF PickerTyped, Picker!Answer, Picker!Final, Picker!Proposal, Client, Wire
<1>3. QED
  BY <1>1, <1>2 DEF ExchangeInv, PickerTyped, Exchange, Asked, Picker!Gone, Picker!Busy

\* Nothing that the helper hears of changes.
LEMMA QuietStep ==
  ASSUME ExchangeInv,
         \/ \E hr \in CloseResult : Picker!Close(hr)
         \/ Picker!NativeReturns("ok") \/ Picker!NativeReturns("cancelled") \/ Picker!Die
  PROVE  ExchangeInv'
<1>1. PickerTyped /\ UNCHANGED <<helper, early>>
  BY DEF ExchangeInv, Picker!Close, Picker!NativeReturns, Picker!Die
<1>2. /\ pickerClient' \in Client /\ pickerClient'.current = pickerClient.current
      /\ pickerClient'.pc = "calling" => pickerClient.pc = "calling"
      /\ Signals
  <2>1. ASSUME NEW hr \in CloseResult, Picker!Close(hr)
        PROVE  /\ pickerClient' \in Client /\ pickerClient'.current = pickerClient.current
               /\ pickerClient'.pc = "calling" => pickerClient.pc = "calling"
               /\ Signals
    <3>1. hr \in {"ok", "cancelled"}
      BY Instances DEF Picker!CloseAssumption
    <3>2. QED
      BY <1>1, <2>1, <3>1 DEF PickerTyped, Picker!Close, Picker!Cancelled, Picker!InPicker, Client, Wire, Signals
  <2>2. CASE Picker!NativeReturns("ok") \/ Picker!NativeReturns("cancelled")
    BY <1>1, <2>2 DEF PickerTyped, Picker!NativeReturns, Picker!Returned, Client, Wire, Code, Signals
  <2>3. CASE Picker!Die
    BY <1>1, <2>3 DEF PickerTyped, Picker!Die, Client, Wire, Signals
  <2>4. QED
    BY <2>1, <2>2, <2>3
<1>3. QED
  BY <1>1, <1>2 DEF ExchangeInv, PickerTyped, Exchange, Asked, Picker!Gone, Picker!Busy, Signals

LEMMA ShowStep ==
  ASSUME ExchangeInv, Picker!Show
  PROVE  ExchangeInv'
<1>1. /\ pickerClient' \in Client /\ pickerClient'.pc = "waiting"
      /\ helper' \in Helper /\ helper'.pc = "starting" /\ helper'.pending = <<>>
      /\ wire' = Picker!FreshWire /\ early' = FALSE
  BY PickerIs DEF ExchangeInv, PickerTyped, Picker!Show, Client, Helper, Code
<1>2. QED
  BY <1>1, PickerIs, PendingIs DEF ExchangeInv, PickerTyped, Exchange, Asked, Picker!Gone, Picker!Busy

LEMMA ReapStep ==
  ASSUME ExchangeInv, Picker!Reap
  PROVE  ExchangeInv'
<1>1. /\ pickerClient' \in Client /\ pickerClient'.pc # "calling"
      /\ helper' = Picker!NoHelper /\ UNCHANGED <<wire, early>>
  BY DEF ExchangeInv, PickerTyped, Picker!Reap, Picker!Returned, Client, Code
<1>2. QED
  BY <1>1, PickerIs, PendingIs DEF ExchangeInv, PickerTyped, Exchange, Asked, Picker!Gone, Picker!Busy

-----------------------------------------------------------------------------
(***************************************************************************)
(* The steps of the helper.                                                *)
(***************************************************************************)
\* It ends, and perhaps cancels.
LEMMA ExitStep ==
  ASSUME ExchangeInv,
         Picker!SeeCancelled \/ Picker!MissOwner \/ Picker!Cancel \/ Picker!Fail
  PROVE  ExchangeInv'
<1>1. /\ PickerTyped /\ helper' = Picker!NoHelper /\ pickerClient' = pickerClient
      /\ early' \in BOOLEAN /\ (wire' = wire \/ wire' = Picker!Cancelled)
  BY DEF ExchangeInv, PickerTyped, Picker!SeeCancelled, Picker!MissOwner, Picker!Cancel, Picker!Fail, Picker!Exit,
         Picker!InPicker
<1>2. Signals
  BY <1>1 DEF PickerTyped, Picker!Cancelled, Wire, Signals
<1>3. QED
  BY <1>1, <1>2, PickerIs, PendingIs
  DEF ExchangeInv, PickerTyped, Exchange, Asked, Picker!Gone, Picker!Busy, Signals

LEMMA HelperStep ==
  ASSUME ExchangeInv,
         Picker!Appear \/ Picker!Hang \/ \E choice \in Choice : Picker!Select(choice)
  PROVE  ExchangeInv'
<1>1. /\ PickerTyped /\ UNCHANGED <<pickerClient, early>>
      /\ helper' \in Helper /\ helper'.pending = helper.pending /\ helper.pc # "gone" /\ helper'.pc # "gone"
      /\ Signals
  <2>a. PickerTyped
    BY DEF ExchangeInv
  <2>1. CASE Picker!Appear
    BY <2>a, <2>1 DEF PickerTyped, Picker!Appear, Helper, Wire, Signals
  <2>2. CASE Picker!Hang
    BY <2>a, <2>2 DEF PickerTyped, Picker!Hang, Picker!Gone, Helper, Signals
  <2>3. ASSUME NEW choice \in Choice, Picker!Select(choice)
        PROVE  /\ PickerTyped /\ UNCHANGED <<pickerClient, early>>
               /\ helper' \in Helper /\ helper'.pending = helper.pending
               /\ helper.pc # "gone" /\ helper'.pc # "gone" /\ Signals
    BY <2>a, <2>3 DEF PickerTyped, Picker!Select, Picker!Responsive, Picker!Gone, Helper, Signals
  <2>4. QED
    BY <2>1, <2>2, <2>3
<1>2. QED
  BY <1>1 DEF ExchangeInv, PickerTyped, Exchange, Asked, Picker!Gone, Picker!Busy, Signals

LEMMA NotifyStep ==
  ASSUME ExchangeInv, NEW kind \in {"Selection", "Folder", "Type", "Accept"}, Picker!Notify(kind)
  PROVE  ExchangeInv'
<1>1. PickerTyped /\ helper.pending = <<>> /\ helper.pc # "gone" /\ UNCHANGED <<pickerClient, early>>
  BY DEF ExchangeInv, Picker!Notify, Picker!Responsive, Picker!Gone, Picker!Notifiable, Picker!Busy
<1>2. PICK p \in Picker!Packet :
        /\ wire' = [wire EXCEPT !.decision = FALSE, !.packet = p, !.event = TRUE]
        /\ helper' = [helper EXCEPT !.pc = IF @ = "ready" THEN "up" ELSE @, !.pending = Append(@, p)]
  BY <1>1, PacketIs DEF Picker!Notify, PickerTyped, Helper
<1>3. /\ wire' \in Wire /\ wire'.event /\ ~wire'.decision /\ wire'.packet = p
  BY <1>1, <1>2 DEF PickerTyped, Wire
<1>4. /\ helper' \in Helper /\ helper'.pc # "gone" /\ helper'.pending = <<p>>
  <2>1. helper' = [helper EXCEPT !.pc = IF @ = "ready" THEN "up" ELSE @, !.pending = <<p>>]
    BY <1>1, <1>2, PendingIs
  <2>2. QED
    BY <1>1, <2>1, PendingIs DEF PickerTyped, Helper
<1>5. pickerClient.pc # "calling"
  BY <1>1 DEF ExchangeInv, Exchange, Asked, Picker!Gone, Picker!Busy
<1>6. QED
  BY <1>1, <1>3, <1>4, <1>5, PendingIs DEF ExchangeInv, PickerTyped, Exchange, Asked, Picker!Gone, Picker!Busy

LEMMA DecideStep ==
  ASSUME ExchangeInv, Picker!Decide
  PROVE  ExchangeInv'
<1>1. /\ PickerTyped /\ helper.pending # <<>> /\ helper.pc # "gone" /\ wire.decision
      /\ UNCHANGED <<pickerClient, early>>
      /\ \/ helper' = Picker!NoHelper
         \/ helper' = [helper EXCEPT !.pending = SubSeq(@, 1, Len(@) - 1)]
  BY DEF ExchangeInv, Picker!Decide, Picker!Responsive, Picker!Gone, Picker!Busy, Picker!Exit
<1>2. helper' \in Helper /\ helper'.pending = <<>>
  <2>1. PICK p \in Picker!Packet : helper.pending = <<p>>
    BY <1>1, PendingIs DEF PickerTyped, Helper
  <2>2. helper' = Picker!NoHelper \/ helper' = [helper EXCEPT !.pending = <<>>]
    BY <1>1, <2>1, PendingIs
  <2>3. QED
    BY <1>1, <2>2, PickerIs, PendingIs DEF PickerTyped, Helper
<1>3. wire' \in Wire /\ ~wire'.decision /\ wire'.event = wire.event
  BY <1>1 DEF PickerTyped, Picker!Decide, Wire
<1>4. ~Asked
  BY <1>1 DEF ExchangeInv, Exchange
<1>5. QED
  BY <1>1, <1>2, <1>3, <1>4, PendingIs DEF ExchangeInv, PickerTyped, Exchange, Asked, Picker!Gone, Picker!Busy

LEMMA ExchangeStep ==
  ASSUME ExchangeInv, Picker!Next
  PROVE  ExchangeInv'
<1>1. \A hr \in Picker!Verdict : Picker!Answer(hr) => ExchangeInv'
  BY AnswerStep
<1>2. \A kind \in {"Selection", "Folder", "Type", "Accept"} : Picker!Notify(kind) => ExchangeInv'
  BY NotifyStep
<1>3. QED
  BY <1>1, <1>2, QuietStep, TakeEventStep, LookStep, ShowStep, ReapStep, ExitStep, HelperStep, DecideStep
  DEF Picker!Next, Picker!Attend, Picker!Reply, Picker!Finish

-----------------------------------------------------------------------------
(***************************************************************************)
(* How sessions end.                                                       *)
(***************************************************************************)
LEMMA ThreadEnds ==
  ASSUME PickerTyped, EndingsInv,
         \/ Picker!TakeEvent \/ Picker!SeeCancel \/ Picker!SeeExit \/ Picker!SeeReady \/ Picker!Expire
         \/ Picker!Stop \/ Picker!Throw
  PROVE  EndingsInv'
<1>1. UNCHANGED <<helper, early>> /\ pickerClient.pc \in {"waiting", "calling"}
  BY DEF Picker!TakeEvent, Picker!SeeCancel, Picker!SeeExit, Picker!SeeReady, Picker!Expire, Picker!Stop,
         Picker!Throw
<1>2. ASSUME NEW hr \in Code, Picker!Leave(hr), hr # "ok", hr = "notimpl" => ~early /\ ~Picker!Seen
      PROVE  EndingsInv'
  <2>1. /\ Steps("reaping", hr) /\ Signals /\ wire'.cancel
        /\ pickerClient'.shown = Picker!Seen /\ pickerClient'.expired = pickerClient.expired
    BY <1>2, LeaveIs
  <2>2. QED
    BY <1>1, <1>2, <2>1 DEF EndingsInv, Alone, Endings, NeverClosedOk, Steps
<1>3. CASE Picker!TakeEvent
  <2>1. /\ pickerClient'.pc = "calling" /\ pickerClient'.closed = pickerClient.closed /\ wire'.cancel = wire.cancel
    BY <1>3 DEF PickerTyped, Picker!TakeEvent, Client, Wire
  <2>2. QED
    BY <1>1, <2>1 DEF EndingsInv, Alone, Endings, NeverClosedOk
<1>4. CASE Picker!SeeCancel \/ Picker!Stop \/ Picker!Throw
  <2>1. Picker!Leave("cancelled") \/ Picker!Leave("failed")
    BY <1>4 DEF Picker!SeeCancel, Picker!Stop, Picker!Throw
  <2>2. QED
    BY <1>2, <2>1 DEF Code
<1>5. CASE Picker!SeeExit
  <2>1. ~early
    BY <1>5 DEF Picker!SeeExit, EndingsInv, Endings
  <2>2. Picker!Leave(IF Picker!Seen THEN "failed" ELSE "notimpl")
    BY <1>5 DEF Picker!SeeExit
  <2>3. CASE Picker!Seen
    BY <1>2, <2>2, <2>3 DEF Code
  <2>4. CASE ~Picker!Seen
    BY <1>2, <2>1, <2>2, <2>4 DEF Code
  <2>5. QED
    BY <2>3, <2>4
<1>6. CASE Picker!SeeReady
  <2>1. /\ pickerClient'.pc = "waiting" /\ pickerClient'.closed = pickerClient.closed /\ wire' = wire
    BY <1>6 DEF PickerTyped, Picker!SeeReady, Client
  <2>2. QED
    BY <1>1, <2>1 DEF EndingsInv, Alone, Endings, NeverClosedOk
<1>7. CASE Picker!Expire
  <2>1. /\ pickerClient'.pc = "reaping" /\ pickerClient'.closed = pickerClient.closed /\ pickerClient'.expired
        /\ pickerClient'.hr = "notimpl" /\ ~pickerClient'.shown /\ wire'.cancel
    BY <1>7 DEF PickerTyped, Picker!Expire, Picker!Cancelled, Client, Wire
  <2>2. QED
    BY <1>1, <2>1 DEF EndingsInv, Alone, Endings, NeverClosedOk
<1>8. QED
  BY <1>3, <1>4, <1>5, <1>6, <1>7

LEMMA AnswerEnds ==
  ASSUME PickerTyped, EndingsInv, NEW hr \in Picker!Verdict, Picker!Answer(hr)
  PROVE  EndingsInv'
<1>1. UNCHANGED <<helper, early>> /\ pickerClient.pc = "calling"
  BY DEF Picker!Answer
<1>2. /\ pickerClient'.pc = IF Picker!Final(hr) THEN "reaping" ELSE "waiting"
      /\ pickerClient'.hr = hr /\ pickerClient'.closed = pickerClient.closed
      /\ wire'.cancel = (wire.cancel \/ Picker!Final(hr))
  BY DEF PickerTyped, Picker!Answer, Client, Wire
<1>3. hr # "notimpl"
  BY DEF Picker!Verdict
<1>4. Picker!Final(hr) /\ early => hr # "ok"
  BY DEF Picker!Final, Picker!Proposal, Picker!Answer, Picker!Verdicts, EndingsInv, Endings, NeverClosedOk
<1>5. early' => wire'.cancel
  BY <1>1, <1>2 DEF EndingsInv, Endings
<1>6. QED
  BY <1>1, <1>2, <1>3, <1>4, <1>5 DEF EndingsInv, Alone, Endings, NeverClosedOk

LEMMA QuietEnds ==
  ASSUME "ok" \notin CloseResult, PickerTyped, EndingsInv,
         \/ \E hr \in CloseResult : Picker!Close(hr)
         \/ Picker!NativeReturns("ok") \/ Picker!NativeReturns("cancelled") \/ Picker!Die
  PROVE  EndingsInv'
<1>1. UNCHANGED <<helper, early>>
  BY DEF Picker!Close, Picker!NativeReturns, Picker!Die
<1>2. ASSUME NEW hr \in CloseResult, Picker!Close(hr) PROVE EndingsInv'
  <2>1. hr = "cancelled"
    BY Instances DEF Picker!CloseAssumption
  <2>2. /\ pickerClient'.pc = pickerClient.pc /\ pickerClient'.hr = pickerClient.hr
        /\ pickerClient'.closed = "cancelled" /\ (pickerClient.closing => pickerClient'.closing)
        /\ pickerClient'.shown = pickerClient.shown /\ pickerClient'.expired = pickerClient.expired
        /\ pickerClient'.fallback = pickerClient.fallback /\ (wire.cancel => wire'.cancel)
    BY <1>2, <2>1 DEF PickerTyped, Picker!Close, Picker!Cancelled, Client, Wire
  <2>3. helper' = helper /\ early' = early /\ (early => wire'.cancel)
    BY <1>1, <2>2 DEF EndingsInv, Endings
  <2>4. QED
    BY <2>2, <2>3 DEF EndingsInv, Alone, Endings, NeverClosedOk, Picker!Gone
<1>3. CASE Picker!NativeReturns("ok") \/ Picker!NativeReturns("cancelled")
  <2>1. /\ pickerClient.pc = "native" /\ pickerClient'.pc = "free" /\ wire' = wire
        /\ pickerClient'.closed = pickerClient.closed /\ pickerClient'.fallback = pickerClient.fallback
    BY <1>3 DEF PickerTyped, Picker!NativeReturns, Picker!Returned, Client
  <2>2. helper' = helper /\ early' = early
    BY <1>1
  <2>3. Picker!Gone'
    BY <2>1, <2>2 DEF EndingsInv, Alone, Picker!Gone
  <2>4. early' => wire'.cancel
    BY <2>1, <2>2 DEF EndingsInv, Endings
  <2>5. pickerClient'.fallback
    BY <2>1 DEF EndingsInv, Endings
  <2>6. QED
    BY <2>1, <2>3, <2>4, <2>5 DEF EndingsInv, Alone, Endings, NeverClosedOk
<1>4. CASE Picker!Die
  <2>1. pickerClient'.pc = "dead" /\ pickerClient'.closed = pickerClient.closed /\ wire' = wire
    BY <1>4 DEF PickerTyped, Picker!Die, Client
  <2>2. wire'.cancel = wire.cancel /\ early' = early
    BY <1>1, <2>1
  <2>3. QED
    BY <2>1, <2>2 DEF EndingsInv, Alone, Endings, NeverClosedOk
<1>5. QED
  BY <1>2, <1>3, <1>4

LEMMA ShowEnds ==
  ASSUME PickerTyped, EndingsInv, Picker!Show
  PROVE  EndingsInv'
<1>1. pickerClient'.pc = "waiting" /\ pickerClient'.closed = pickerClient.closed /\ early' = FALSE
  BY DEF PickerTyped, Picker!Show, Client
<1>2. QED
  BY <1>1 DEF EndingsInv, Alone, Endings, NeverClosedOk

LEMMA ReapEnds ==
  ASSUME PickerTyped, EndingsInv, Picker!Reap
  PROVE  EndingsInv'
<1>1. helper'.pc = "gone" /\ UNCHANGED <<wire, early>> /\ pickerClient.pc = "reaping"
  BY PickerIs DEF Picker!Reap
<1>2. CASE pickerClient.hr = "notimpl"
  <2>1. /\ pickerClient'.pc = "native" /\ pickerClient'.fallback /\ pickerClient'.closed = pickerClient.closed
        /\ pickerClient'.shown = pickerClient.shown /\ pickerClient'.expired = pickerClient.expired
    BY <1>2 DEF PickerTyped, Picker!Reap, Client
  <2>2. QED
    BY <1>1, <1>2, <2>1 DEF EndingsInv, Alone, Endings, NeverClosedOk, Picker!Gone
<1>3. CASE pickerClient.hr # "notimpl"
  <2>1. /\ pickerClient'.pc = "free" /\ pickerClient'.closed = pickerClient.closed
        /\ pickerClient'.hr = (IF pickerClient.closing THEN pickerClient.closed ELSE pickerClient.hr)
    BY <1>3 DEF PickerTyped, Picker!Reap, Picker!Returned, Client
  <2>2. QED
    BY <1>1, <2>1 DEF EndingsInv, Alone, Endings, NeverClosedOk, Picker!Gone
<1>4. QED
  BY <1>2, <1>3

LEMMA HelperEndings ==
  ASSUME PickerTyped, EndingsInv,
         \/ Picker!Appear \/ Picker!Decide \/ Picker!SeeCancelled \/ Picker!MissOwner \/ Picker!Cancel
         \/ Picker!Fail \/ Picker!Hang
         \/ \E kind \in {"Selection", "Folder", "Type", "Accept"} : Picker!Notify(kind)
         \/ \E choice \in Choice : Picker!Select(choice)
  PROVE  EndingsInv'
<1>1. pickerClient' = pickerClient /\ ~Picker!Gone
  BY DEF Picker!Appear, Picker!Decide, Picker!SeeCancelled, Picker!MissOwner, Picker!Cancel, Picker!Fail,
         Picker!Hang, Picker!Notify, Picker!Select, Picker!Responsive
<1>2. pickerClient.pc \notin {"free", "native"}
  BY <1>1 DEF EndingsInv, Alone
<1>3. CASE Picker!Cancel
  <2>1. wire'.cancel /\ (early' = (early \/ pickerClient.pc \in {"waiting", "calling"}))
    BY <1>3 DEF PickerTyped, Picker!Cancel, Picker!Cancelled, Picker!InPicker, Wire
  <2>2. QED
    BY <1>1, <1>2, <2>1 DEF EndingsInv, Alone, Endings, NeverClosedOk
<1>4. CASE ~Picker!Cancel
  <2>1. early' = early /\ (wire.cancel => wire'.cancel)
    BY <1>4 DEF PickerTyped, Picker!Appear, Picker!Decide, Picker!SeeCancelled, Picker!MissOwner, Picker!Fail,
         Picker!Hang, Picker!Notify, Picker!Select, Picker!Cancelled, Wire
  <2>2. QED
    BY <1>1, <1>2, <2>1 DEF EndingsInv, Alone, Endings, NeverClosedOk
<1>5. QED
  BY <1>3, <1>4

LEMMA EndingsStep ==
  ASSUME "ok" \notin CloseResult, PickerTyped, EndingsInv, Picker!Next
  PROVE  EndingsInv'
BY ThreadEnds, AnswerEnds, QuietEnds, ShowEnds, ReapEnds, HelperEndings
DEF Picker!Next, Picker!Attend, Picker!Reply, Picker!Finish

-----------------------------------------------------------------------------
LEMMA ExchangeHolds == Spec => [](On("picker") => ExchangeInv)
<1>1. Init => (On("picker") => ExchangeInv)
  <2> SUFFICES ASSUME Init, On("picker") PROVE ExchangeInv
    OBVIOUS
  <2>1. /\ pickerClient = [pc |-> "free", shown |-> FALSE, current |-> Picker!NoPacket, hr |-> "none",
                           closing |-> FALSE, closed |-> "cancelled", fallback |-> FALSE, expired |-> FALSE]
        /\ helper = Picker!NoHelper /\ wire = Picker!FreshWire /\ early = FALSE
    BY DEF Init, PickerInit, Picker!Init
  <2>2. QED
    BY <2>1, PacketIs, PickerIs, PendingIs
    DEF ExchangeInv, PickerTyped, Client, Code, Exchange, Asked, Picker!Gone, Picker!Busy
<1>2. (On("picker") => ExchangeInv) /\ [Next]_vars => (On("picker") => ExchangeInv)'
  <2> SUFFICES ASSUME On("picker") => ExchangeInv, [Next]_vars, On("picker")' PROVE ExchangeInv'
    OBVIOUS
  <2>1. CASE UNCHANGED vars
    <3>1. UNCHANGED <<moving, pickerClient, helper, wire, early>>
      BY <2>1 DEF vars, PickerVars
    <3>2. QED
      BY <3>1 DEF On, ExchangeInv, PickerTyped, Exchange, Asked, Picker!Gone, Picker!Busy
  <2>2. CASE Next
    BY <2>2, ExchangeStep DEF Next, PickerNext, On
  <2>3. QED
    BY <2>1, <2>2
<1>3. QED
  BY <1>1, <1>2, PTL DEF Spec

\* Whatever the user does while the helper waits, the answer that it finds is to
\* what it asked, and the application decides on what it asked (picker_runtime.cpp
\* notify, modern_dialog.cpp runPicker).
THEOREM AnswersAreRight == Spec => []RightAnswer
<1>1. (On("picker") => ExchangeInv) => RightAnswer
  <2> SUFFICES ASSUME On("picker"), ExchangeInv PROVE Picker!TypeOK /\ Picker!RightAnswer
    BY DEF RightAnswer
  <2>1. helper.pending \in Seq(Picker!Packet) /\ Len(helper.pending) <= 1
    <3>1. \A p \in Picker!Packet : <<p>> \in Seq(Picker!Packet) /\ Len(<<p>>) = 1
      OBVIOUS
    <3>2. <<>> \in Seq(Picker!Packet) /\ Len(<<>>) = 0
      OBVIOUS
    <3>3. helper.pending \in Pending
      BY DEF ExchangeInv, PickerTyped, Helper
    <3>4. CASE helper.pending = <<>>
      BY <3>2, <3>4
    <3>5. ASSUME NEW p \in Picker!Packet, helper.pending = <<p>>
          PROVE  helper.pending \in Seq(Picker!Packet) /\ Len(helper.pending) <= 1
      BY <3>1, <3>5
    <3>6. QED
      BY <3>3, <3>4, <3>5 DEF Pending
  <2>2. Picker!TypeOK
    BY <2>1 DEF ExchangeInv, PickerTyped, Client, Code, Helper, Wire, Picker!TypeOK
  <2>3. ASSUME NEW p \in Picker!Packet, helper.pending = <<p>> PROVE Picker!RightAnswer
    <3>1. helper.pending[Len(helper.pending)] = p
      BY <2>3, PendingIs
    <3>2. QED
      BY <2>3, <3>1 DEF ExchangeInv, Exchange, Picker!RightAnswer
  <2>4. QED
    BY <2>2, <2>3, PendingIs DEF ExchangeInv, PickerTyped, Helper, Picker!RightAnswer, Picker!Busy
<1>2. QED
  BY <1>1, ExchangeHolds, PTL

\* The user's cancellation remains one through whatever the application does, unless it
\* closes the dialog with success, and the native dialog opens only after a picker that
\* never came up, and after its end (modern_dialog.cpp runPicker, callbacks, Show).
THEOREM CancelsRemain == "ok" \notin CloseResult => (Spec => []CancelRemains)
<1> SUFFICES ASSUME "ok" \notin CloseResult PROVE Spec => []CancelRemains
  OBVIOUS
<1>1. Init => (On("picker") => EndingsInv)
  BY PickerIs DEF Init, PickerInit, Picker!Init, On, EndingsInv, Alone, Endings, NeverClosedOk, Picker!Gone
<1>2. (On("picker") => ExchangeInv) /\ (On("picker") => EndingsInv) /\ [Next]_vars
        => (On("picker") => EndingsInv)'
  <2> SUFFICES ASSUME On("picker") => PickerTyped /\ EndingsInv, [Next]_vars, On("picker")' PROVE EndingsInv'
    BY DEF ExchangeInv
  <2>1. CASE UNCHANGED vars
    <3>1. UNCHANGED <<moving, pickerClient, helper, wire, early>>
      BY <2>1 DEF vars, PickerVars
    <3>2. QED
      BY <3>1 DEF On, EndingsInv, Alone, Endings, NeverClosedOk, Picker!Gone
  <2>2. CASE Next
    BY <2>2, EndingsStep DEF Next, PickerNext, On
  <2>3. QED
    BY <2>1, <2>2
<1>3. (On("picker") => EndingsInv) => CancelRemains
  BY DEF CancelRemains, EndingsInv, Alone, Endings, Picker!CancelRemains, Picker!OneDialog
<1>4. QED
  BY <1>1, <1>2, <1>3, ExchangeHolds, PTL DEF Spec

-----------------------------------------------------------------------------
(***************************************************************************)
(* The inductive invariant of the watcher.                                 *)
(***************************************************************************)
NativeDialog ==
  [is : {"none", "closed"} \cup Watcher!Kind, visible : BOOLEAN, claim : JobWorker \cup {NoWorker},
   pressed : {"none", "asked", "unasked"}]
Running ==
  [gen : 0..MaxStarts, alive : BOOLEAN, enabled : BOOLEAN, closing : BOOLEAN,
   killing : JobWorker \cup {NoWorker}]
Job ==
  [window : SUBSET Window, by : 0..MaxStarts, stop : BOOLEAN, hidden : BOOLEAN, fresh : BOOLEAN,
   known : BOOLEAN, finished : BOOLEAN]
Process ==
  [at : {"none", "inspecting", "ready", "marked", "picking", "picked", "settling", "submitting",
         "lingering", "leaving", "restored", "gone"},
   interrupted : BOOLEAN, hiding : BOOLEAN, hr : {"none", "ok", "cancelled", "failed"},
   asked : {"none", "ok", "cancel"}, helper : {"none", "up", "gone"}]

WatcherTyped ==
  /\ native \in [Window -> NativeDialog] /\ watcherWatcher \in Running
  /\ job \in [JobWorker -> Job] /\ watcherWorker \in [JobWorker -> Process] /\ late \subseteq Window

\* The jobs of this watcher that it has still to look after.
Minded(k) == watcherWatcher.alive /\ job[k].by = watcherWatcher.gen /\ ~job[k].finished

\* A hidden dialog has a keeper, and a worker that was told to stop is none.
Hidden(k, w) == Watcher!Claims(k, w) /\ w \notin late /\ ~native[w].visible
JobSound(k) ==
  /\ job[k].by <= watcherWatcher.gen
  /\ watcherWorker[k].at = "none" => job[k] = Watcher!NoJob
  /\ job[k].finished => ~Watcher!Live(k)
  /\ \A w \in Window : w \in job[k].window =>
       native[w].is # "none" /\ (Watcher!Open(w) /\ Watcher!Live(k) => native[w].claim = k)
  /\ watcherWatcher.killing = k => job[k].stop /\ watcherWorker[k].at # "none"
  /\ \A w \in Window : Hidden(k, w) => ~job[k].stop /\ job[k].hidden /\ (Watcher!Live(k) \/ Minded(k))
  /\ watcherWorker[k].at = "marked" \/ watcherWorker[k].hiding =>
       Watcher!Live(k) /\ (job[k].hidden \/ job[k].stop)
  /\ watcherWorker[k].at = "restored" => ~job[k].hidden

\* What the worker makes of the picker's end, and what is left of its helper.
PickSound(k) ==
  /\ watcherWorker[k].at \in {"picked", "settling", "submitting"} /\ watcherWorker[k].hr = "ok" =>
       watcherWorker[k].asked = "ok"
  /\ watcherWorker[k].at = "submitting" => watcherWorker[k].hr = "ok"
  /\ watcherWorker[k].at \in {"picked", "settling"} /\ watcherWorker[k].hr = "cancelled" =>
       \/ watcherWorker[k].asked = "cancel" \/ watcherWorker[k].interrupted
       \/ watcherWorker[k].at = "picked" /\ job[k].stop
  /\ job[k].finished /\ job[k].known => watcherWorker[k].helper # "up"

ClaimSound(w) ==
  /\ native[w].claim # NoWorker => w \in job[native[w].claim].window
  /\ Watcher!Open(w) /\ native[w].claim = NoWorker /\ w \notin late => native[w].visible
  /\ native[w].pressed # "unasked"

Started == watcherWatcher.alive => watcherWatcher.gen >= 1
WatcherInv ==
  /\ WatcherTyped /\ Started
  /\ \A k \in JobWorker : JobSound(k) /\ PickSound(k)
  /\ \A w \in Window : ClaimSound(w)
WatcherMoves == UNCHANGED <<native, watcherWatcher, job, watcherWorker, late>>

-----------------------------------------------------------------------------
(***************************************************************************)
(* What a step leaves of a worker that it is not about: the native dialogs *)
(* may close, be shown or be given up, but not be hidden.                  *)
(***************************************************************************)
Spares(k) ==
  \A w \in Window :
    /\ native[w].is # "none" => native'[w].is # "none"
    /\ w \in job[k].window /\ Watcher!Open(w)' =>
         /\ Watcher!Open(w) /\ (native'[w].claim = k <=> native[w].claim = k)
         /\ native[w].claim = k /\ native[w].visible => native'[w].visible \/ w \in late'

LEMMA SparedSound ==
  ASSUME NEW k \in JobWorker, WatcherTyped, JobSound(k), PickSound(k), Spares(k), late \subseteq late',
         job'[k] = job[k], watcherWorker'[k] = watcherWorker[k],
         watcherWatcher'.alive = watcherWatcher.alive, watcherWatcher'.gen = watcherWatcher.gen,
         watcherWatcher'.killing = k => watcherWatcher.killing = k
  PROVE  JobSound(k)' /\ PickSound(k)'
<1>1. PickSound(k)'
  BY DEF PickSound
<1>2. Watcher!Live(k)' = Watcher!Live(k) /\ Minded(k)' = Minded(k)
  BY DEF Watcher!Live, Minded
<1>3. ASSUME NEW w \in Window, w \in job[k].window
      PROVE  native'[w].is # "none" /\ (Watcher!Open(w)' /\ Watcher!Live(k) => native'[w].claim = k)
  BY <1>3 DEF JobSound, Spares
<1>4. ASSUME NEW w \in Window, Hidden(k, w)' PROVE Hidden(k, w)
  BY <1>4 DEF Hidden, Watcher!Claims, Spares
<1>5. QED
  BY <1>1, <1>2, <1>3, <1>4 DEF JobSound

\* A step of or about one worker.
About(k) ==
  /\ WatcherTyped' /\ late \subseteq late'
  /\ \A o \in JobWorker \ {k} : job'[o] = job[o] /\ watcherWorker'[o] = watcherWorker[o] /\ Spares(o)
  /\ watcherWatcher'.alive = watcherWatcher.alive /\ watcherWatcher'.gen = watcherWatcher.gen
  /\ watcherWatcher'.killing \in {k, NoWorker, watcherWatcher.killing}
LEMMA AboutOne ==
  ASSUME WatcherInv, NEW k \in JobWorker, About(k), JobSound(k)', PickSound(k)',
         \A w \in Window : ClaimSound(w)'
  PROVE  WatcherInv'
<1>1. ASSUME NEW o \in JobWorker, o # k PROVE JobSound(o)' /\ PickSound(o)'
  BY <1>1, SparedSound, Instances DEF WatcherInv, About, Watcher!WorkerAssumption
<1>2. Started'
  BY DEF WatcherInv, Started, About
<1>3. QED
  BY <1>1, <1>2 DEF WatcherInv, About

\* Steps that leave the native dialogs alone.
LEMMA StillSpares ==
  ASSUME native' = native, NEW k \in JobWorker
  PROVE  Spares(k)
BY DEF Spares, Watcher!Open

LEMMA StillClaims ==
  ASSUME WatcherInv, native' = native, late \subseteq late',
         \A k \in JobWorker : job'[k].window = job[k].window, NEW w \in Window
  PROVE  ClaimSound(w)'
<1>1. native[w].claim \in JobWorker \cup {NoWorker}
  BY DEF WatcherInv, WatcherTyped, NativeDialog
<1>2. QED
  BY <1>1 DEF WatcherInv, ClaimSound, Watcher!Open

(***************************************************************************)
(* The steps of a worker between those that touch the native dialog.       *)
(***************************************************************************)
Inside(k) ==
  /\ UNCHANGED <<native, watcherWatcher, late>>
  /\ job' \in [JobWorker -> Job] /\ watcherWorker' \in [JobWorker -> Process]
  /\ \A o \in JobWorker \ {k} : job'[o] = job[o] /\ watcherWorker'[o] = watcherWorker[o]
  /\ job'[k].window = job[k].window /\ job'[k].by = job[k].by /\ job'[k].stop = job[k].stop
  /\ job'[k].finished = job[k].finished /\ (job[k].hidden => job'[k].hidden)
LEMMA InsideStep ==
  ASSUME WatcherInv, NEW k \in JobWorker, Inside(k), PickSound(k)',
         watcherWorker[k].at # "none" /\ watcherWorker'[k].at # "none",
         Watcher!Live(k)' => Watcher!Live(k),
         Watcher!Live(k) => Watcher!Live(k)' \/ Minded(k) \/ ~job[k].hidden,
         watcherWorker'[k].at = "marked" \/ watcherWorker'[k].hiding =>
           Watcher!Live(k)' /\ (job'[k].hidden \/ job'[k].stop),
         watcherWorker'[k].at = "restored" => ~job'[k].hidden
  PROVE  WatcherInv'
<1>1. About(k)
  BY StillSpares DEF WatcherInv, WatcherTyped, About, Inside
<1>2. \A w \in Window : ClaimSound(w)'
  BY StillClaims DEF Inside
<1>3. Minded(k)' = Minded(k) /\ \A w \in Window : Hidden(k, w)' = Hidden(k, w) /\ Watcher!Open(w)' = Watcher!Open(w)
  BY DEF Inside, Minded, Hidden, Watcher!Claims, Watcher!Open
<1>4. JobSound(k)
  BY DEF WatcherInv
<1>5. ASSUME NEW w \in Window, Hidden(k, w)
      PROVE  ~job'[k].stop /\ job'[k].hidden /\ (Watcher!Live(k)' \/ Minded(k)')
  BY <1>3, <1>4, <1>5 DEF JobSound, Inside
<1>6. JobSound(k)'
  BY <1>3, <1>4, <1>5 DEF JobSound, Inside
<1>7. QED
  BY <1>1, <1>2, <1>6, AboutOne

LEMMA FinishIs ==
  ASSUME WatcherTyped, NEW k \in JobWorker, Watcher!Finish(k)
  PROVE  /\ watcherWorker' \in [JobWorker -> Process]
         /\ \A o \in JobWorker \ {k} : watcherWorker'[o] = watcherWorker[o]
         /\ watcherWorker'[k].at = "leaving" /\ ~watcherWorker'[k].hiding
         /\ watcherWorker'[k].helper = watcherWorker[k].helper
BY DEF WatcherTyped, Watcher!Finish, Watcher!NotStarted, Process

LEMMA FinishStep ==
  ASSUME WatcherInv, NEW k \in JobWorker, Watcher!Finish(k), Watcher!Live(k),
         UNCHANGED <<native, watcherWatcher, job, late>>
  PROVE  WatcherInv'
<1>1. Inside(k)
  BY FinishIs DEF WatcherInv, WatcherTyped, Inside
<1>2. PickSound(k)'
  BY FinishIs DEF WatcherInv, PickSound
<1>3. Watcher!Live(k)' /\ watcherWorker[k].at # "none"
  BY FinishIs DEF WatcherInv, Watcher!Live
<1>4. QED
  BY <1>1, <1>2, <1>3, FinishIs, InsideStep DEF WatcherInv

LEMMA EndsWorking ==
  ASSUME WatcherInv, NEW k \in JobWorker,
         \/ Watcher!GiveUp(k) \/ Watcher!Retain(k) \/ Watcher!SubmitFails(k) \/ Watcher!Lingered(k)
  PROVE  WatcherInv'
BY FinishStep
DEF Watcher!GiveUp, Watcher!Retain, Watcher!SubmitFails, Watcher!Lingered, Watcher!At, Watcher!Live

\* Steps of a worker that change its own record only, and leave it at work.
LEMMA WorkingStep ==
  ASSUME WatcherInv, NEW k \in JobWorker, UNCHANGED <<native, watcherWatcher, job, late>>,
         NEW p \in Process, watcherWorker' = [watcherWorker EXCEPT ![k] = p],
         Watcher!Live(k), ~watcherWorker[k].hiding, ~p.hiding, p.at \in {"picking", "picked", "submitting"},
         p.at # "picking" /\ p.hr = "ok" => p.asked = "ok",
         p.at = "submitting" => p.hr = "ok",
         p.at = "picked" /\ p.hr = "cancelled" => p.asked = "cancel" \/ p.interrupted \/ job[k].stop
  PROVE  WatcherInv'
<1>1. /\ watcherWorker' \in [JobWorker -> Process] /\ watcherWorker'[k] = p
      /\ \A o \in JobWorker \ {k} : watcherWorker'[o] = watcherWorker[o]
  BY DEF WatcherInv, WatcherTyped
<1>2. Inside(k)
  BY <1>1 DEF WatcherInv, WatcherTyped, Inside
<1>3. ~job[k].finished
  BY DEF WatcherInv, JobSound
<1>4. PickSound(k)'
  BY <1>1, <1>3 DEF PickSound
<1>5. Watcher!Live(k)' /\ watcherWorker[k].at # "none"
  BY <1>1 DEF Watcher!Live
<1>6. QED
  BY <1>1, <1>2, <1>4, <1>5, InsideStep

LEMMA PicksStep ==
  ASSUME WatcherInv, NEW k \in JobWorker,
         Watcher!Picks(k) \/ Watcher!Abandons(k) \/ Watcher!Submitting(k)
  PROVE  WatcherInv'
<1> DEFINE r == watcherWorker[k]
<1>1. r \in Process /\ watcherWorker \in [JobWorker -> Process]
  BY DEF WatcherInv, WatcherTyped
<1>2. ASSUME NEW hr \in {"ok", "cancelled", "failed"}, NEW asked \in {"none", "ok", "cancel"},
             Watcher!Picked(k, hr, asked), hr = "ok" => asked = "ok",
             hr = "cancelled" => asked = "cancel" \/ r.interrupted \/ job[k].stop
      PROVE  WatcherInv'
  <2> DEFINE p == [r EXCEPT !.at = "picked", !.hr = hr, !.asked = asked,
                            !.helper = IF @ = "none" THEN "none" ELSE "gone"]
  <2>1. /\ p \in Process /\ ~p.hiding /\ p.at = "picked" /\ p.hr = hr /\ p.asked = asked
        /\ p.interrupted = r.interrupted /\ ~r.hiding /\ r.at = "picking"
    BY <1>1, <1>2 DEF Process, Watcher!Picked, Watcher!At
  <2>2. watcherWorker' = [watcherWorker EXCEPT ![k] = p] /\ UNCHANGED <<native, watcherWatcher, job, late>>
    BY <1>1, <1>2 DEF Watcher!Picked
  <2>3. Watcher!Live(k)
    BY <2>1 DEF Watcher!Live
  <2> HIDE DEF p, r
  <2>4. QED
    BY <1>2, <2>1, <2>2, <2>3, WorkingStep DEF r
<1>3. CASE Watcher!HelperStarts(k)
  <2> DEFINE p == [r EXCEPT !.helper = "up"]
  <2>1. /\ p \in Process /\ ~p.hiding /\ p.at = "picking" /\ ~r.hiding /\ r.at = "picking"
    BY <1>1, <1>3 DEF Process, Watcher!HelperStarts, Watcher!At
  <2>2. watcherWorker' = [watcherWorker EXCEPT ![k] = p] /\ UNCHANGED <<native, watcherWatcher, job, late>>
    BY <1>1, <1>3 DEF Watcher!HelperStarts
  <2>3. Watcher!Live(k)
    BY <2>1 DEF Watcher!Live
  <2> HIDE DEF p, r
  <2>4. QED
    BY <2>1, <2>2, <2>3, WorkingStep DEF r
<1>4. CASE Watcher!Submitting(k)
  <2> DEFINE p == [r EXCEPT !.at = "submitting"]
  <2>1. /\ p \in Process /\ ~p.hiding /\ p.at = "submitting" /\ ~r.hiding /\ r.at = "settling"
        /\ p.hr = "ok" /\ r.hr = "ok" /\ p.asked = r.asked
    BY <1>1, <1>4 DEF Process, Watcher!Submitting, Watcher!At
  <2>2. watcherWorker' = [watcherWorker EXCEPT ![k] = p] /\ UNCHANGED <<native, watcherWatcher, job, late>>
    BY <1>1, <1>4 DEF Watcher!Submitting, Watcher!Step
  <2>3. Watcher!Live(k) /\ r.asked = "ok"
    BY <2>1 DEF Watcher!Live, WatcherInv, PickSound
  <2> HIDE DEF p, r
  <2>4. QED
    BY <2>1, <2>2, <2>3, WorkingStep DEF r
<1>5. QED
  BY <1>2, <1>3, <1>4
  DEF Watcher!Picks, Watcher!Accepts, Watcher!Cancels, Watcher!Fails, Watcher!Abandons

\* A worker crashes, or the helper that it started ends.
LEMMA EndsStep ==
  ASSUME WatcherInv, NEW k \in JobWorker, Watcher!Crashes(k) \/ Watcher!HelperEnds(k)
  PROVE  WatcherInv'
<1>1. watcherWorker \in [JobWorker -> Process] /\ JobSound(k) /\ PickSound(k)
  BY DEF WatcherInv, WatcherTyped
<1>2. UNCHANGED <<native, watcherWatcher, job, late>>
  BY DEF Watcher!Crashes, Watcher!HelperEnds
<1>3. CASE Watcher!Crashes(k)
  <2>1. /\ watcherWorker' \in [JobWorker -> Process] /\ watcherWorker'[k].at = "gone" /\ ~watcherWorker'[k].hiding
        /\ watcherWorker'[k].helper = watcherWorker[k].helper
        /\ \A o \in JobWorker \ {k} : watcherWorker'[o] = watcherWorker[o]
    BY <1>1, <1>3 DEF Watcher!Crashes, Watcher!Ended, Watcher!NotStarted, Process
  <2>2. Inside(k) /\ PickSound(k)'
    BY <1>1, <1>2, <2>1 DEF WatcherInv, WatcherTyped, Inside, PickSound
  <2>3. Watcher!Live(k) /\ ~Watcher!Live(k)' /\ watcherWorker[k].at # "none"
    BY <1>3, <2>1 DEF Watcher!Crashes, Watcher!Live
  <2>4. Minded(k)
    BY <1>1, <1>3, <2>3 DEF Minded, Watcher!Crashes, Watcher!Orphan, Watcher!Ours, JobSound
  <2>5. QED
    BY <2>1, <2>2, <2>3, <2>4, InsideStep
<1>4. CASE Watcher!HelperEnds(k)
  <2>1. /\ watcherWorker' \in [JobWorker -> Process] /\ watcherWorker'[k].at = watcherWorker[k].at
        /\ watcherWorker'[k].hiding = watcherWorker[k].hiding /\ watcherWorker'[k].helper = "gone"
        /\ watcherWorker'[k].hr = watcherWorker[k].hr /\ watcherWorker'[k].asked = watcherWorker[k].asked
        /\ watcherWorker'[k].interrupted = watcherWorker[k].interrupted
        /\ \A o \in JobWorker \ {k} : watcherWorker'[o] = watcherWorker[o]
    BY <1>1, <1>4 DEF Watcher!HelperEnds, Process
  <2>2. Inside(k) /\ PickSound(k)' /\ Watcher!Live(k)' = Watcher!Live(k)
    BY <1>1, <1>2, <2>1 DEF WatcherInv, WatcherTyped, Inside, PickSound, Watcher!Live
  <2>3. CASE watcherWorker[k].at = "none"
    <3>1. About(k)
      BY <1>2, <2>1, <2>2, StillSpares DEF WatcherInv, WatcherTyped, About
    <3>2. \A w \in Window : ClaimSound(w)'
      BY <1>2, StillClaims
    <3>3. JobSound(k)'
      BY <1>1, <1>2, <2>1, <2>2 DEF JobSound, Hidden, Minded, Watcher!Claims, Watcher!Open
    <3>4. QED
      BY <2>2, <3>1, <3>2, <3>3, AboutOne
  <2>4. CASE watcherWorker[k].at # "none"
    BY <1>1, <1>2, <2>1, <2>2, <2>4, InsideStep DEF JobSound
  <2>5. QED
    BY <2>3, <2>4
<1>5. QED
  BY <1>3, <1>4

LEMMA PulseIs ==
  ASSUME WatcherTyped, NEW k \in JobWorker,
         NEW pc \in {"inspecting", "ready", "picking", "settling", "lingering"}, Watcher!Pulse(k, pc)
  PROVE  /\ job' \in [JobWorker -> Job] /\ watcherWorker' \in [JobWorker -> Process]
         /\ \A o \in JobWorker \ {k} : job'[o] = job[o] /\ watcherWorker'[o] = watcherWorker[o]
         /\ job'[k].window = job[k].window /\ job'[k].by = job[k].by /\ job'[k].stop = job[k].stop
         /\ job'[k].finished = job[k].finished /\ job'[k].hidden = job[k].hidden
         /\ watcherWorker'[k].at = pc /\ watcherWorker'[k].hr = watcherWorker[k].hr
         /\ watcherWorker'[k].asked = watcherWorker[k].asked
         /\ watcherWorker'[k].interrupted = Watcher!Interrupted(k)
         /\ watcherWorker'[k].hiding => job[k].hidden
<1>1. Watcher!Interrupted(k) \in BOOLEAN
  BY DEF WatcherTyped, Process, Job, Watcher!Interrupted, Watcher!Orphan
<1> DEFINE p == Watcher!Looked(k, pc)
           j == [job[k] EXCEPT !.fresh = TRUE, !.known = @ \/ watcherWorker[k].helper = "up"]
<1>2. /\ p \in Process /\ p.at = pc /\ p.hr = watcherWorker[k].hr /\ p.asked = watcherWorker[k].asked
      /\ p.interrupted = Watcher!Interrupted(k) /\ (p.hiding => job[k].hidden)
  BY <1>1 DEF WatcherTyped, Process, Watcher!Looked
<1>3. /\ j \in Job /\ j.window = job[k].window /\ j.by = job[k].by /\ j.stop = job[k].stop
      /\ j.finished = job[k].finished /\ j.hidden = job[k].hidden
  BY DEF WatcherTyped, Job
<1>4. watcherWorker' = [watcherWorker EXCEPT ![k] = p] /\ job' = [job EXCEPT ![k] = j]
  BY DEF Watcher!Pulse, Watcher!Reported, WatcherTyped
<1> HIDE DEF p, j
<1>5. QED
  BY <1>2, <1>3, <1>4 DEF WatcherTyped

LEMMA PulseStep ==
  ASSUME WatcherInv, NEW k \in JobWorker,
         Watcher!PulseLook(k) \/ Watcher!Proceed(k) \/ Watcher!LastPulse(k)
  PROVE  WatcherInv'
<1> DEFINE pc == IF Watcher!PulseLook(k) THEN watcherWorker[k].at
                 ELSE IF Watcher!Proceed(k) THEN "ready" ELSE "settling"
<1>1. /\ Watcher!Pulse(k, pc) /\ UNCHANGED <<native, watcherWatcher, late>>
      /\ pc \in {"inspecting", "ready", "picking", "settling", "lingering"}
      /\ Watcher!Live(k) /\ (pc = "settling" => watcherWorker[k].at = "picked")
  BY DEF Watcher!PulseLook, Watcher!Proceed, Watcher!LastPulse, Watcher!At, Watcher!Live
<1>2. WatcherTyped /\ JobSound(k) /\ PickSound(k)
  BY DEF WatcherInv
<1>3. PICK at \in {"inspecting", "ready", "picking", "settling", "lingering"} : at = pc
  BY <1>1
<1> HIDE DEF pc
<1>4. /\ job' \in [JobWorker -> Job] /\ watcherWorker' \in [JobWorker -> Process]
      /\ \A o \in JobWorker \ {k} : job'[o] = job[o] /\ watcherWorker'[o] = watcherWorker[o]
      /\ job'[k].window = job[k].window /\ job'[k].by = job[k].by /\ job'[k].stop = job[k].stop
      /\ job'[k].finished = job[k].finished /\ job'[k].hidden = job[k].hidden
      /\ watcherWorker'[k].at = at /\ watcherWorker'[k].hr = watcherWorker[k].hr
      /\ watcherWorker'[k].asked = watcherWorker[k].asked
      /\ watcherWorker'[k].interrupted = Watcher!Interrupted(k)
      /\ watcherWorker'[k].hiding => job[k].hidden
  BY <1>1, <1>2, <1>3, PulseIs
<1>5. Inside(k)
  BY <1>1, <1>4 DEF Inside
<1>6. ~job[k].finished
  BY <1>1, <1>2 DEF JobSound
<1>7. watcherWorker[k].interrupted \/ job[k].stop => Watcher!Interrupted(k)
  BY DEF Watcher!Interrupted
<1>8. PickSound(k)'
  BY <1>1, <1>2, <1>3, <1>4, <1>6, <1>7 DEF PickSound
<1>9. Watcher!Live(k)' /\ watcherWorker[k].at # "none"
  BY <1>1, <1>4 DEF Watcher!Live
<1>10. QED
  BY <1>1, <1>4, <1>5, <1>8, <1>9, InsideStep

LEMMA MarkStep ==
  ASSUME WatcherInv, NEW k \in JobWorker, Watcher!Mark(k)
  PROVE  WatcherInv'
<1>1. WatcherTyped /\ JobSound(k) /\ PickSound(k) /\ UNCHANGED <<native, watcherWatcher, late>>
  BY DEF WatcherInv, Watcher!Mark
<1>2. /\ job' \in [JobWorker -> Job] /\ job'[k].hidden /\ job'[k].window = job[k].window /\ job'[k].by = job[k].by
      /\ job'[k].stop = job[k].stop /\ job'[k].finished = job[k].finished
      /\ \A o \in JobWorker \ {k} : job'[o] = job[o]
  BY <1>1 DEF WatcherTyped, Job, Watcher!Mark
<1>3. /\ watcherWorker' \in [JobWorker -> Process] /\ watcherWorker'[k].at = "marked"
      /\ ~watcherWorker'[k].hiding
      /\ \A o \in JobWorker \ {k} : watcherWorker'[o] = watcherWorker[o]
  BY <1>1 DEF WatcherTyped, Process, Watcher!Mark, Watcher!Step, Watcher!At
<1>4. watcherWorker[k].at = "ready"
  BY DEF Watcher!Mark, Watcher!At
<1>5. Watcher!Live(k) /\ Watcher!Live(k)' /\ ~job[k].finished
  BY <1>1, <1>3, <1>4 DEF Watcher!Live, JobSound
<1>6. Inside(k) /\ PickSound(k)'
  BY <1>1, <1>2, <1>3, <1>5 DEF Inside, PickSound
<1>7. QED
  BY <1>2, <1>3, <1>4, <1>5, <1>6, InsideStep

-----------------------------------------------------------------------------
(***************************************************************************)
(* The steps that touch the native dialog.                                 *)
(***************************************************************************)
\* They change at most what is visible, and whether the worker's button was pressed.
LEMMA HideStep ==
  ASSUME WatcherInv, NEW k \in JobWorker, Watcher!PulseHide(k) \/ Watcher!HideFirst(k)
  PROVE  WatcherInv'
<1>1. /\ WatcherTyped /\ JobSound(k) /\ PickSound(k) /\ UNCHANGED <<watcherWatcher, job>>
      /\ Watcher!Hide(k) /\ (watcherWorker[k].hiding \/ watcherWorker[k].at = "marked")
  BY DEF WatcherInv, Watcher!PulseHide, Watcher!HideFirst, Watcher!At
<1>2. Watcher!Live(k) /\ (job[k].hidden \/ job[k].stop) /\ ~job[k].finished
  BY <1>1 DEF JobSound
<1>3. /\ watcherWorker' \in [JobWorker -> Process] /\ ~watcherWorker'[k].hiding
      /\ \A o \in JobWorker \ {k} : watcherWorker'[o] = watcherWorker[o]
      /\ watcherWorker'[k].hr = watcherWorker[k].hr /\ watcherWorker'[k].asked = watcherWorker[k].asked
      /\ watcherWorker'[k].interrupted = watcherWorker[k].interrupted
      /\ \/ watcherWorker'[k].at = "picking"
         \/ watcherWorker'[k].at = watcherWorker[k].at /\ watcherWorker[k].hiding
  <2>1. CASE Watcher!PulseHide(k)
    BY <1>1, <2>1 DEF WatcherTyped, Process, Watcher!PulseHide
  <2>2. CASE Watcher!HideFirst(k)
    BY <1>1, <2>2 DEF WatcherTyped, Process, Watcher!HideFirst, Watcher!Step, Watcher!At
  <2>3. QED
    BY <2>1, <2>2
<1>4. ASSUME NEW w \in Window
      PROVE  /\ native'[w] \in NativeDialog /\ native'[w].is = native[w].is
             /\ native'[w].claim = native[w].claim /\ native'[w].pressed = native[w].pressed
             /\ w \notin job[k].window => native'[w].visible = native[w].visible
  BY <1>1 DEF WatcherTyped, NativeDialog, Watcher!Hide
<1>5. native' \in [Window -> NativeDialog] /\ late' \subseteq Window /\ late \subseteq late'
  BY <1>1, <1>4 DEF WatcherTyped, Watcher!Hide, Job
<1>6. job[k].stop => job[k].window \subseteq late'
  BY <1>1 DEF Watcher!Hide
<1>7. ASSUME NEW w \in Window, w \in job[k].window, Watcher!Open(w) PROVE native[w].claim = k
  BY <1>1, <1>2, <1>7 DEF JobSound
<1>8. ASSUME NEW o \in JobWorker \ {k} PROVE Spares(o)
  BY <1>4, <1>7 DEF Spares, Watcher!Open
<1>9. About(k)
  BY <1>1, <1>3, <1>5, <1>8 DEF About, WatcherTyped
<1>10. Watcher!Live(k)' /\ watcherWorker[k].at # "none"
  BY <1>2, <1>3 DEF Watcher!Live
<1>11. PickSound(k)'
  BY <1>1, <1>2, <1>3 DEF PickSound
<1>12. ASSUME NEW w \in Window, Hidden(k, w)'
       PROVE  ~job'[k].stop /\ job'[k].hidden /\ (Watcher!Live(k)' \/ Minded(k)')
  BY <1>1, <1>2, <1>6, <1>10, <1>12 DEF Hidden, Watcher!Claims
<1>13. JobSound(k)'
  BY <1>1, <1>2, <1>3, <1>4, <1>7, <1>10, <1>12 DEF JobSound, Watcher!Open
<1>14. ASSUME NEW w \in Window PROVE ClaimSound(w)'
  <2>1. ClaimSound(w) /\ native[w].claim \in JobWorker \cup {NoWorker}
    BY <1>1 DEF WatcherInv, WatcherTyped, NativeDialog
  <2>2. Watcher!Open(w)' = Watcher!Open(w)
    BY <1>4 DEF Watcher!Open
  <2>3. native[w].claim = NoWorker /\ Watcher!Open(w) => w \notin job[k].window
    BY <1>7, Instances DEF Watcher!WorkerAssumption
  <2>4. QED
    BY <1>1, <1>4, <1>5, <2>1, <2>2, <2>3 DEF ClaimSound
<1>15. QED
  BY <1>9, <1>11, <1>13, <1>14, AboutOne

LEMMA PressStep ==
  ASSUME WatcherInv, NEW k \in JobWorker, Watcher!Dismiss(k) \/ Watcher!Submit(k)
  PROVE  WatcherInv'
<1>1. WatcherTyped /\ JobSound(k) /\ PickSound(k) /\ UNCHANGED <<watcherWatcher, job, late>>
  BY DEF WatcherInv, Watcher!Dismiss, Watcher!Submit
<1>2. PICK button \in {"ok", "cancel"} : Watcher!Press(k, button) /\ watcherWorker[k].asked = button
  BY <1>1 DEF PickSound, Watcher!Dismiss, Watcher!Submit, Watcher!At
<1>3. /\ watcherWorker' \in [JobWorker -> Process] /\ ~watcherWorker'[k].hiding
      /\ watcherWorker'[k].helper = watcherWorker[k].helper
      /\ watcherWorker'[k].at \in {"leaving", "lingering"}
      /\ \A o \in JobWorker \ {k} : watcherWorker'[o] = watcherWorker[o]
  BY <1>1, FinishIs DEF WatcherTyped, Process, Watcher!Dismiss, Watcher!Submit, Watcher!Step, Watcher!At
<1>4. ASSUME NEW w \in Window
      PROVE  /\ native'[w] \in NativeDialog /\ native'[w].is = native[w].is
             /\ native'[w].claim = native[w].claim /\ native'[w].visible = native[w].visible
             /\ native'[w].pressed \in {native[w].pressed, "asked"}
  BY <1>1, <1>2 DEF WatcherTyped, NativeDialog, Watcher!Press
<1>5. native' \in [Window -> NativeDialog]
  BY <1>1, <1>2, <1>4 DEF Watcher!Press
<1>6. ASSUME NEW w \in Window, NEW o \in JobWorker
      PROVE  Watcher!Open(w)' = Watcher!Open(w) /\ Hidden(o, w)' = Hidden(o, w)
  BY <1>1, <1>4 DEF Hidden, Watcher!Claims, Watcher!Open
<1>7. ASSUME NEW o \in JobWorker \ {k} PROVE Spares(o)
  BY <1>4, <1>6 DEF Spares
<1>8. About(k)
  BY <1>1, <1>3, <1>5, <1>7 DEF About, WatcherTyped
<1>9. Watcher!Live(k) /\ Watcher!Live(k)' /\ watcherWorker[k].at # "none"
  BY <1>3 DEF Watcher!Live, Watcher!Dismiss, Watcher!Submit, Watcher!At
<1>10. PickSound(k)'
  BY <1>1, <1>3 DEF PickSound
<1>11. JobSound(k)'
  BY <1>1, <1>3, <1>4, <1>6, <1>9 DEF JobSound
<1>12. ASSUME NEW w \in Window PROVE ClaimSound(w)'
  BY <1>1, <1>4, <1>6 DEF ClaimSound, WatcherInv
<1>13. QED
  BY <1>8, <1>10, <1>11, <1>12, AboutOne

-----------------------------------------------------------------------------
(***************************************************************************)
(* The steps that show it again, or give it up.                            *)
(***************************************************************************)
LEMMA RestoredIs ==
  ASSUME WatcherTyped, NEW K \in SUBSET JobWorker, NEW w \in Window
  PROVE  LET restored == Watcher!Restored(K)[w] IN
           /\ restored \in NativeDialog /\ restored.is = native[w].is
           /\ restored.claim = native[w].claim /\ restored.pressed = native[w].pressed
           /\ native[w].visible => restored.visible
           /\ \A k \in K : job[k].hidden /\ Watcher!Claims(k, w) => restored.visible
BY DEF WatcherTyped, NativeDialog, Watcher!Restored

\* What showing dialogs means for the worker k, and for another one.
LEMMA ShownSpares ==
  ASSUME WatcherTyped, NEW K \in SUBSET JobWorker, native' = Watcher!Restored(K), NEW k \in JobWorker
  PROVE  /\ native' \in [Window -> NativeDialog] /\ Spares(k)
         /\ \A w \in Window : /\ native'[w].is = native[w].is /\ native'[w].claim = native[w].claim
                              /\ native'[w].pressed = native[w].pressed
                              /\ native[w].visible => native'[w].visible
                              /\ k \in K /\ job[k].hidden /\ Watcher!Claims(k, w) => native'[w].visible
<1>1. ASSUME NEW w \in Window
      PROVE  /\ native'[w] \in NativeDialog /\ native'[w].is = native[w].is
             /\ native'[w].claim = native[w].claim /\ native'[w].pressed = native[w].pressed
             /\ native[w].visible => native'[w].visible
             /\ k \in K /\ job[k].hidden /\ Watcher!Claims(k, w) => native'[w].visible
  BY RestoredIs
<1>2. native' \in [Window -> NativeDialog]
  BY <1>1 DEF Watcher!Restored
<1>3. QED
  BY <1>1, <1>2 DEF Spares, Watcher!Open

LEMMA ShownClaims ==
  ASSUME WatcherInv, NEW w \in Window, \A k \in JobWorker : job'[k].window = job[k].window, late' = late,
         native'[w].is = native[w].is, native'[w].pressed = native[w].pressed,
         native[w].visible => native'[w].visible,
         \/ native'[w].claim = native[w].claim
         \/ native'[w].claim = NoWorker /\ native'[w].visible
         \/ native'[w].claim = NoWorker /\ w \in late
  PROVE  ClaimSound(w)'
<1>1. native[w].claim \in JobWorker \cup {NoWorker} /\ ClaimSound(w)
  BY DEF WatcherInv, WatcherTyped, NativeDialog
<1>2. QED
  BY <1>1 DEF ClaimSound, Watcher!Open

LEMMA LeaveStep ==
  ASSUME WatcherInv, NEW k \in JobWorker, Watcher!Leave(k)
  PROVE  WatcherInv'
<1>1. /\ WatcherTyped /\ JobSound(k) /\ PickSound(k) /\ UNCHANGED <<watcherWatcher, late>>
      /\ native' = Watcher!Restored({k}) /\ watcherWorker[k].at = "leaving"
  BY DEF WatcherInv, Watcher!Leave, Watcher!At
<1>2. /\ job' \in [JobWorker -> Job] /\ ~job'[k].hidden /\ job'[k].window = job[k].window /\ job'[k].by = job[k].by
      /\ job'[k].stop = job[k].stop /\ job'[k].finished = job[k].finished
      /\ \A o \in JobWorker \ {k} : job'[o] = job[o]
  BY <1>1 DEF WatcherTyped, Job, Watcher!Leave
<1>3. /\ watcherWorker' \in [JobWorker -> Process] /\ watcherWorker'[k].at = "restored"
      /\ ~watcherWorker'[k].hiding
      /\ \A o \in JobWorker \ {k} : watcherWorker'[o] = watcherWorker[o]
  BY <1>1 DEF WatcherTyped, Process, Watcher!Leave, Watcher!Step, Watcher!At
<1>4. Watcher!Live(k) /\ Watcher!Live(k)' /\ ~job[k].finished
  BY <1>1, <1>3 DEF Watcher!Live, JobSound
<1>5. About(k)
  BY <1>1, <1>2, <1>3, ShownSpares DEF About, WatcherTyped
<1>6. ASSUME NEW w \in Window
      PROVE  /\ native'[w].is = native[w].is /\ native'[w].claim = native[w].claim
             /\ native'[w].pressed = native[w].pressed /\ (native[w].visible => native'[w].visible)
             /\ job[k].hidden /\ Watcher!Claims(k, w) => native'[w].visible
  BY <1>1, ShownSpares
<1>7. ASSUME NEW w \in Window, Hidden(k, w)' PROVE FALSE
  <2>1. Watcher!Claims(k, w) /\ ~native[w].visible
    BY <1>1, <1>2, <1>6, <1>7 DEF Hidden, Watcher!Claims, Watcher!Open
  <2>2. job[k].hidden
    BY <1>1, <1>7, <2>1 DEF JobSound, Hidden
  <2>3. QED
    BY <1>6, <1>7, <2>1, <2>2 DEF Hidden
<1>8. JobSound(k)' /\ PickSound(k)'
  BY <1>1, <1>2, <1>3, <1>4, <1>6, <1>7 DEF JobSound, PickSound, Watcher!Open
<1>9. ASSUME NEW w \in Window PROVE ClaimSound(w)'
  BY <1>1, <1>2, <1>6, ShownClaims
<1>10. QED
  BY <1>5, <1>8, <1>9, AboutOne

\* Claims of k that are given up, of dialogs that it may have shown.
GivenUp(k, shown) ==
  \A w \in Window :
    /\ native'[w] \in NativeDialog /\ native'[w].is = native[w].is /\ native'[w].pressed = native[w].pressed
    /\ native'[w].claim = (IF Watcher!Claims(k, w) THEN NoWorker ELSE native[w].claim)
    /\ native[w].visible => native'[w].visible
    /\ shown /\ job[k].hidden /\ Watcher!Claims(k, w) => native'[w].visible

LEMMA GivenUpSpares ==
  ASSUME NEW k \in JobWorker, NEW shown \in BOOLEAN, GivenUp(k, shown), NEW o \in JobWorker \ {k}
  PROVE  Spares(o)
BY Instances DEF GivenUp, Spares, Watcher!Claims, Watcher!Open, Watcher!WorkerAssumption

LEMMA GivenUpClaims ==
  ASSUME WatcherInv, NEW k \in JobWorker, NEW shown \in BOOLEAN, GivenUp(k, shown), late' = late,
         \A o \in JobWorker : job'[o].window = job[o].window, job[k].hidden => shown, NEW w \in Window
  PROVE  ClaimSound(w)'
<1>1. JobSound(k) /\ native[w].visible \in BOOLEAN
  BY DEF WatcherInv, WatcherTyped, NativeDialog
<1>2. Watcher!Claims(k, w) => native'[w].visible \/ w \in late
  BY <1>1 DEF JobSound, Hidden, GivenUp
<1>3. QED
  BY <1>2, ShownClaims DEF GivenUp

LEMMA GivenUpSound ==
  ASSUME WatcherInv, NEW k \in JobWorker, NEW shown \in BOOLEAN, GivenUp(k, shown),
         job'[k].window = job[k].window, NEW w \in Window
  PROVE  ~Hidden(k, w)'
BY Instances DEF GivenUp, Hidden, Watcher!Claims, Watcher!Open, Watcher!WorkerAssumption

LEMMA GoneStep ==
  ASSUME WatcherInv, NEW k \in JobWorker, Watcher!Exit(k)
  PROVE  WatcherInv'
<1>1. /\ WatcherTyped /\ JobSound(k) /\ PickSound(k) /\ UNCHANGED <<watcherWatcher, job, late>>
      /\ watcherWorker[k].at = "restored" /\ ~job[k].hidden /\ Watcher!Live(k) /\ ~job[k].finished
  BY DEF WatcherInv, Watcher!Exit, Watcher!At, Watcher!Live, JobSound
<1>2. /\ watcherWorker' \in [JobWorker -> Process] /\ watcherWorker'[k].at = "gone"
      /\ ~watcherWorker'[k].hiding /\ watcherWorker'[k].helper = watcherWorker[k].helper
      /\ \A o \in JobWorker \ {k} : watcherWorker'[o] = watcherWorker[o]
  BY <1>1 DEF WatcherTyped, Process, Watcher!Exit, Watcher!Ended, Watcher!NotStarted
<1>3. CASE ~Watcher!Orphan(k)
  <2>1. native' = native
    BY <1>3 DEF Watcher!Exit
  <2>2. Inside(k) /\ PickSound(k)'
    BY <1>1, <1>2, <2>1 DEF WatcherTyped, Inside, PickSound
  <2>3. ~Watcher!Live(k)' /\ watcherWorker[k].at # "none"
    BY <1>1, <1>2 DEF Watcher!Live
  <2>4. QED
    BY <1>1, <1>2, <2>2, <2>3, InsideStep
<1>4. CASE Watcher!Orphan(k)
  <2>1. native' = Watcher!Unclaimed(native, k)
    BY <1>4 DEF Watcher!Exit
  <2>2. GivenUp(k, FALSE)
    BY <1>1, <2>1 DEF WatcherTyped, NativeDialog, GivenUp, Watcher!Unclaimed
  <2>3. native' \in [Window -> NativeDialog]
    BY <2>1, <2>2 DEF GivenUp, Watcher!Unclaimed
  <2>4. About(k)
    BY <1>1, <1>2, <2>2, <2>3, GivenUpSpares DEF About, WatcherTyped
  <2>5. JobSound(k)' /\ PickSound(k)'
    BY <1>1, <1>2, <2>2, GivenUpSound DEF JobSound, PickSound, GivenUp, Watcher!Live
  <2>6. ASSUME NEW w \in Window PROVE ClaimSound(w)'
    BY <1>1, <2>2, GivenUpClaims
  <2>7. QED
    BY <2>4, <2>5, <2>6, AboutOne
<1>5. QED
  BY <1>3, <1>4

\* The helper that a worker had reported is gone when it is reaped.
LEMMA ReapedIs ==
  ASSUME WatcherTyped, NEW k \in JobWorker
  PROVE  /\ Watcher!HelperReaped(k) \in {"none", "up", "gone"}
         /\ job[k].known => Watcher!HelperReaped(k) # "up"
BY DEF WatcherTyped, Process, Watcher!HelperReaped

LEMMA KilledIs ==
  ASSUME WatcherTyped, NEW k \in JobWorker, Watcher!Killed(k)
  PROVE  /\ watcherWorker' \in [JobWorker -> Process] /\ watcherWorker'[k].at = "gone"
         /\ ~watcherWorker'[k].hiding /\ (job[k].known => watcherWorker'[k].helper # "up")
         /\ \A o \in JobWorker \ {k} : watcherWorker'[o] = watcherWorker[o]
<1> DEFINE p == Watcher!Ended(Watcher!HelperReaped(k))
<1>1. p \in Process /\ p.at = "gone" /\ ~p.hiding /\ (job[k].known => p.helper # "up")
  BY ReapedIs DEF Process, Watcher!Ended, Watcher!NotStarted
<1>2. watcherWorker' = [watcherWorker EXCEPT ![k] = p]
  BY DEF Watcher!Killed
<1> HIDE DEF p
<1>3. QED
  BY <1>1, <1>2 DEF WatcherTyped

LEMMA QuitJobStep ==
  ASSUME WatcherInv, NEW k \in JobWorker, Watcher!QuitJob(k)
  PROVE  WatcherInv'
<1>1. /\ WatcherTyped /\ JobSound(k) /\ PickSound(k) /\ Watcher!Ours(k) /\ UNCHANGED <<watcherWatcher, late>>
      /\ native' = Watcher!Unclaimed(Watcher!Restored({k}), k)
  BY DEF WatcherInv, Watcher!QuitJob
<1>2. watcherWorker[k].at # "none"
  BY <1>1, Instances
  DEF Watcher!Ours, JobSound, Watcher!NoJob, WatcherInv, Started, WatcherTyped, Running, Watcher!BoundAssumption
<1>3. /\ job' \in [JobWorker -> Job] /\ ~job'[k].hidden /\ job'[k].finished /\ job'[k].by = 0
      /\ job'[k].window = job[k].window /\ job'[k].stop = job[k].stop /\ job'[k].known = job[k].known
      /\ \A o \in JobWorker \ {k} : job'[o] = job[o]
  <2> DEFINE j == [job[k] EXCEPT !.hidden = FALSE, !.finished = TRUE, !.by = 0]
  <2>1. 0 \in 0..MaxStarts
    BY Instances DEF Watcher!BoundAssumption
  <2>2. /\ j \in Job /\ ~j.hidden /\ j.finished /\ j.by = 0
        /\ j.window = job[k].window /\ j.stop = job[k].stop /\ j.known = job[k].known
    BY <1>1, <2>1 DEF WatcherTyped, Job
  <2>3. job' = [job EXCEPT ![k] = j]
    BY <1>1 DEF WatcherTyped, Watcher!QuitJob
  <2> HIDE DEF j
  <2>4. QED
    BY <1>1, <2>2, <2>3 DEF WatcherTyped
<1>4. /\ watcherWorker' \in [JobWorker -> Process] /\ ~Watcher!Live(k)' /\ watcherWorker'[k].at # "none"
      /\ ~watcherWorker'[k].hiding /\ (job[k].known => watcherWorker'[k].helper # "up")
      /\ \A o \in JobWorker \ {k} : watcherWorker'[o] = watcherWorker[o]
  <2>1. CASE job[k].finished
    <3>1. watcherWorker' = watcherWorker
      BY <2>1 DEF Watcher!QuitJob
    <3>2. ~watcherWorker[k].hiding /\ ~Watcher!Live(k) /\ (job[k].known => watcherWorker[k].helper # "up")
      BY <1>1, <2>1 DEF JobSound, PickSound
    <3>3. QED
      BY <1>1, <1>2, <3>1, <3>2 DEF WatcherTyped, Watcher!Live
  <2>2. CASE ~job[k].finished
    <3>1. Watcher!Killed(k)
      BY <2>2 DEF Watcher!QuitJob
    <3>2. QED
      BY <1>1, <3>1, KilledIs DEF Watcher!Live
  <2>3. QED
    BY <2>1, <2>2
<1>5. GivenUp(k, TRUE)
  <2>1. ASSUME NEW w \in Window
        PROVE  LET r == Watcher!Restored({k})[w] IN
                 /\ r \in NativeDialog /\ r.is = native[w].is /\ r.claim = native[w].claim
                 /\ r.pressed = native[w].pressed /\ (native[w].visible => r.visible)
                 /\ job[k].hidden /\ Watcher!Claims(k, w) => r.visible
    BY <1>1, RestoredIs
  <2>2. ASSUME NEW w \in Window
        PROVE  native'[w] = LET r == Watcher!Restored({k})[w] IN
                              IF Watcher!Claims(k, w) THEN [r EXCEPT !.claim = NoWorker] ELSE r
    BY <1>1 DEF Watcher!Unclaimed
  <2>3. QED
    BY <2>1, <2>2 DEF GivenUp, NativeDialog
<1>6. native' \in [Window -> NativeDialog]
  BY <1>1, <1>5 DEF GivenUp, Watcher!Unclaimed
<1>7. About(k)
  BY <1>1, <1>3, <1>4, <1>5, <1>6, GivenUpSpares DEF About, WatcherTyped
<1>8. 0 <= watcherWatcher.gen
  BY <1>1, Instances DEF WatcherTyped, Running, Watcher!BoundAssumption
<1>9. ~(watcherWorker'[k].at \in {"marked", "restored", "picked", "settling", "submitting"})
  BY <1>4 DEF Watcher!Live
<1>10. \A w \in Window : ~Hidden(k, w)' /\ native'[w].is = native[w].is
  BY <1>3, <1>5, GivenUpSound DEF GivenUp
<1>11. JobSound(k)' /\ PickSound(k)'
  BY <1>1, <1>2, <1>3, <1>4, <1>8, <1>9, <1>10 DEF JobSound, PickSound
<1>12. ASSUME NEW w \in Window PROVE ClaimSound(w)'
  BY <1>1, <1>3, <1>5, GivenUpClaims
<1>13. QED
  BY <1>7, <1>11, <1>12, AboutOne

LEMMA MindedIs ==
  ASSUME WatcherInv, NEW k \in Watcher!Active
  PROVE  k \in JobWorker /\ Minded(k) /\ watcherWorker[k].at # "none"
BY Instances
DEF Watcher!Active, Watcher!Ours, Minded, WatcherInv, JobSound, Watcher!NoJob, Started, WatcherTyped, Running,
    Watcher!BoundAssumption

LEMMA TickExitedStep ==
  ASSUME WatcherInv, NEW k \in JobWorker, Watcher!TickExited(k)
  PROVE  WatcherInv'
<1>1. /\ WatcherTyped /\ JobSound(k) /\ PickSound(k) /\ UNCHANGED <<watcherWatcher, late>>
      /\ native' = Watcher!Restored({k}) /\ ~Watcher!Live(k) /\ k \in Watcher!Active
  BY DEF WatcherInv, Watcher!TickExited
<1>2. watcherWorker[k].at = "gone"
  BY <1>1, MindedIs DEF Watcher!Live
<1>3. /\ job' \in [JobWorker -> Job] /\ ~job'[k].hidden /\ job'[k].finished /\ job'[k].by = job[k].by
      /\ job'[k].window = job[k].window /\ job'[k].stop = job[k].stop /\ job'[k].known = job[k].known
      /\ \A o \in JobWorker \ {k} : job'[o] = job[o]
  BY <1>1 DEF WatcherTyped, Job, Watcher!TickExited
<1>4. /\ watcherWorker' \in [JobWorker -> Process] /\ watcherWorker'[k].at = "gone"
      /\ watcherWorker'[k].hiding = watcherWorker[k].hiding
      /\ (job[k].known => watcherWorker'[k].helper # "up")
      /\ \A o \in JobWorker \ {k} : watcherWorker'[o] = watcherWorker[o]
  BY <1>1, <1>2, ReapedIs DEF WatcherTyped, Process, Watcher!TickExited
<1>5. About(k)
  BY <1>1, <1>3, <1>4, ShownSpares DEF About, WatcherTyped
<1>6. ASSUME NEW w \in Window
      PROVE  /\ native'[w].is = native[w].is /\ native'[w].claim = native[w].claim
             /\ native'[w].pressed = native[w].pressed /\ (native[w].visible => native'[w].visible)
             /\ job[k].hidden /\ Watcher!Claims(k, w) => native'[w].visible
  BY <1>1, ShownSpares
<1>7. ASSUME NEW w \in Window, Hidden(k, w)' PROVE FALSE
  <2>1. Watcher!Claims(k, w) /\ ~native[w].visible
    BY <1>1, <1>3, <1>6, <1>7 DEF Hidden, Watcher!Claims, Watcher!Open
  <2>2. job[k].hidden
    BY <1>1, <1>7, <2>1 DEF JobSound, Hidden
  <2>3. QED
    BY <1>6, <1>7, <2>1, <2>2 DEF Hidden
<1>8. ~Watcher!Live(k)'
  BY <1>4 DEF Watcher!Live
<1>9. JobSound(k)' /\ PickSound(k)'
  BY <1>1, <1>2, <1>3, <1>4, <1>6, <1>7, <1>8 DEF JobSound, PickSound
<1>10. ASSUME NEW w \in Window PROVE ClaimSound(w)'
  BY <1>1, <1>3, <1>6, ShownClaims
<1>11. QED
  BY <1>5, <1>9, <1>10, AboutOne

LEMMA TerminateStep ==
  ASSUME WatcherInv, NEW k \in JobWorker, Watcher!Terminate(k)
  PROVE  WatcherInv'
<1>1. /\ WatcherTyped /\ JobSound(k) /\ PickSound(k) /\ UNCHANGED <<native, late>>
      /\ Watcher!Killed(k) /\ job[k].stop
  BY DEF WatcherInv, Watcher!Terminate, JobSound
<1>2. /\ watcherWatcher' \in Running /\ watcherWatcher'.killing = NoWorker
      /\ watcherWatcher'.alive = watcherWatcher.alive /\ watcherWatcher'.gen = watcherWatcher.gen
  BY <1>1 DEF WatcherTyped, Running, Watcher!Terminate
<1>3. /\ job' \in [JobWorker -> Job] /\ job'[k].hidden = job[k].hidden /\ job'[k].finished /\ job'[k].by = job[k].by
      /\ job'[k].window = job[k].window /\ job'[k].stop = job[k].stop /\ job'[k].known = job[k].known
      /\ \A o \in JobWorker \ {k} : job'[o] = job[o]
  BY <1>1 DEF WatcherTyped, Job, Watcher!Terminate
<1>4. /\ watcherWorker' \in [JobWorker -> Process] /\ watcherWorker'[k].at = "gone"
      /\ ~watcherWorker'[k].hiding /\ (job[k].known => watcherWorker'[k].helper # "up")
      /\ \A o \in JobWorker \ {k} : watcherWorker'[o] = watcherWorker[o]
  BY <1>1, KilledIs
<1>5. About(k)
  BY <1>1, <1>2, <1>3, <1>4, StillSpares DEF About, WatcherTyped
<1>6. \A w \in Window : ~Hidden(k, w)' /\ native'[w].is = native[w].is
  BY <1>1, <1>3 DEF JobSound, Hidden, Watcher!Claims, Watcher!Open
<1>7. ~Watcher!Live(k)' /\ NoWorker # k
  BY <1>4, Instances DEF Watcher!Live, Watcher!WorkerAssumption
<1>8. JobSound(k)' /\ PickSound(k)'
  BY <1>1, <1>2, <1>3, <1>4, <1>6, <1>7 DEF JobSound, PickSound
<1>9. ASSUME NEW w \in Window PROVE ClaimSound(w)'
  BY <1>1, <1>3, StillClaims
<1>10. QED
  BY <1>5, <1>8, <1>9, AboutOne

LEMMA StallsStep ==
  ASSUME WatcherInv, NEW k \in JobWorker, Watcher!Stalls(k)
  PROVE  WatcherInv'
<1>1. WatcherTyped /\ JobSound(k) /\ PickSound(k) /\ UNCHANGED <<native, watcherWatcher, watcherWorker, late>>
  BY DEF WatcherInv, Watcher!Stalls
<1>2. /\ job' \in [JobWorker -> Job] /\ job'[k].hidden = job[k].hidden /\ job'[k].finished = job[k].finished
      /\ job'[k].by = job[k].by /\ job'[k].window = job[k].window /\ job'[k].stop = job[k].stop
      /\ job'[k].known = job[k].known /\ \A o \in JobWorker \ {k} : job'[o] = job[o]
  BY <1>1 DEF WatcherTyped, Job, Watcher!Stalls
<1>3. Watcher!Live(k) /\ watcherWorker[k].at # "none" /\ Watcher!Live(k)' = Watcher!Live(k)
  BY <1>1 DEF Watcher!Stalls, Watcher!Live
<1>4. Inside(k) /\ PickSound(k)'
  BY <1>1, <1>2 DEF WatcherTyped, Inside, PickSound
<1>5. QED
  BY <1>1, <1>2, <1>3, <1>4, InsideStep DEF JobSound

-----------------------------------------------------------------------------
(***************************************************************************)
(* The steps of the watcher and of the applications.                       *)
(***************************************************************************)
LEMMA CandidateStep ==
  ASSUME WatcherInv, NEW k \in JobWorker, NEW w \in Window, Watcher!Candidate(w, k)
  PROVE  WatcherInv'
<1>1. /\ WatcherTyped /\ JobSound(k) /\ UNCHANGED <<watcherWatcher, late>> /\ Watcher!Open(w)
      /\ native[w].visible /\ native[w].claim = NoWorker /\ watcherWorker[k].at = "none"
      /\ watcherWatcher.killing = NoWorker
  BY DEF WatcherInv, Watcher!Candidate, Watcher!Claimable, Watcher!ClaimIgnored, Watcher!Watching
<1>2. job[k].window = {} /\ ~watcherWorker[k].hiding /\ k # NoWorker
  BY <1>1, Instances DEF JobSound, Watcher!NoJob, Watcher!Live, Watcher!WorkerAssumption
<1>3. /\ job' \in [JobWorker -> Job] /\ job'[k].window = {w} /\ job'[k].by = watcherWatcher.gen
      /\ ~job'[k].finished /\ \A o \in JobWorker \ {k} : job'[o] = job[o]
  <2> DEFINE j == [Watcher!NoJob EXCEPT !.window = {w}, !.by = watcherWatcher.gen]
  <2>1. j \in Job /\ j.window = {w} /\ j.by = watcherWatcher.gen /\ ~j.finished
    BY <1>1 DEF WatcherTyped, Running, Job, Watcher!NoJob
  <2>2. job' = [job EXCEPT ![k] = j]
    BY DEF Watcher!Candidate
  <2> HIDE DEF j
  <2>3. QED
    BY <1>1, <2>1, <2>2 DEF WatcherTyped
<1>4. /\ watcherWorker' \in [JobWorker -> Process] /\ watcherWorker'[k].at = "inspecting"
      /\ watcherWorker'[k].hiding = watcherWorker[k].hiding
      /\ \A o \in JobWorker \ {k} : watcherWorker'[o] = watcherWorker[o]
  BY <1>1 DEF WatcherTyped, Process, Watcher!Candidate
<1>5. /\ native' \in [Window -> NativeDialog] /\ native'[w].claim = k /\ native'[w].is = native[w].is
      /\ native'[w].visible /\ native'[w].pressed = native[w].pressed
      /\ \A v \in Window \ {w} : native'[v] = native[v]
  BY <1>1 DEF WatcherTyped, NativeDialog, Watcher!Candidate
<1>6. ASSUME NEW o \in JobWorker \ {k} PROVE Spares(o)
  <2>1. o # NoWorker
    BY Instances DEF Watcher!WorkerAssumption
  <2>2. QED
    BY <1>1, <1>2, <1>5, <2>1 DEF Spares, Watcher!Open
<1>7. About(k)
  BY <1>1, <1>3, <1>4, <1>5, <1>6 DEF About, WatcherTyped
<1>8. JobSound(k)'
  <2>1. ~(watcherWatcher'.killing = k) /\ job'[k].by <= watcherWatcher'.gen
    BY <1>1, <1>2, <1>3, Instances DEF WatcherTyped, Running, Watcher!BoundAssumption
  <2>2. ASSUME NEW v \in Window, v \in job'[k].window
        PROVE  native'[v].is # "none" /\ native'[v].claim = k /\ native'[v].visible
    BY <1>1, <1>3, <1>5, <2>2 DEF Watcher!Open, Watcher!Kind
  <2>3. \A v \in Window : ~Hidden(k, v)'
    BY <2>2 DEF Hidden, Watcher!Claims
  <2>4. QED
    BY <1>2, <1>3, <1>4, <2>1, <2>2, <2>3 DEF JobSound
<1>9. PickSound(k)'
  BY <1>3, <1>4 DEF PickSound
<1>10. ASSUME NEW v \in Window PROVE ClaimSound(v)'
  <2>1. ClaimSound(v) /\ native[v].claim \in JobWorker \cup {NoWorker} /\ native[v].claim # k
    BY <1>1, <1>2 DEF WatcherInv, WatcherTyped, NativeDialog, ClaimSound
  <2>2. CASE v = w
    BY <1>1, <1>2, <1>3, <1>5, <2>1, <2>2 DEF ClaimSound
  <2>3. CASE v # w
    BY <1>1, <1>3, <1>5, <2>1, <2>3 DEF ClaimSound, Watcher!Open
  <2>4. QED
    BY <2>2, <2>3
<1>11. QED
  BY <1>7, <1>8, <1>9, <1>10, AboutOne

LEMMA StoppedIs ==
  ASSUME WatcherTyped, NEW K \in SUBSET JobWorker, job' = Watcher!Stopped(K)
  PROVE  /\ job' \in [JobWorker -> Job]
         /\ \A k \in JobWorker :
              /\ k \in K => job'[k].stop /\ ~job'[k].hidden
              /\ k \notin K => job'[k] = job[k]
              /\ job'[k].window = job[k].window /\ job'[k].by = job[k].by
              /\ job'[k].finished = job[k].finished /\ job'[k].known = job[k].known
BY DEF WatcherTyped, Job, Watcher!Stopped

LEMMA CancelStep ==
  ASSUME WatcherInv, NEW K \in SUBSET JobWorker, \A k \in K : watcherWorker[k].at # "none",
         Watcher!Cancel(K), UNCHANGED <<watcherWorker, late>>, watcherWatcher' \in Running,
         watcherWatcher'.alive = watcherWatcher.alive, watcherWatcher'.gen = watcherWatcher.gen,
         watcherWatcher'.killing = watcherWatcher.killing \/ watcherWatcher'.killing \in K
  PROVE  WatcherInv'
<1>1. WatcherTyped /\ native' = Watcher!Restored(K) /\ job' = Watcher!Stopped(K)
  BY DEF WatcherInv, Watcher!Cancel
<1>2. job' \in [JobWorker -> Job] /\ WatcherTyped'
  <2>1. native' \in [Window -> NativeDialog]
    BY <1>1, RestoredIs DEF Watcher!Restored
  <2>2. QED
    BY <1>1, <2>1, StoppedIs DEF WatcherTyped
<1>3. Started'
  BY DEF WatcherInv, Started
<1>4. ASSUME NEW k \in JobWorker PROVE JobSound(k)' /\ PickSound(k)'
  <2>1. JobSound(k) /\ PickSound(k)
    BY DEF WatcherInv
  <2>2. /\ k \in K => job'[k].stop /\ ~job'[k].hidden
        /\ k \notin K => job'[k] = job[k]
        /\ job'[k].window = job[k].window /\ job'[k].by = job[k].by
        /\ job'[k].finished = job[k].finished /\ job'[k].known = job[k].known
    BY <1>1, StoppedIs
  <2>3. \A w \in Window :
          /\ native'[w].is = native[w].is /\ native'[w].claim = native[w].claim
          /\ native'[w].pressed = native[w].pressed /\ (native[w].visible => native'[w].visible)
          /\ k \in K /\ job[k].hidden /\ Watcher!Claims(k, w) => native'[w].visible
    BY <1>1, ShownSpares
  <2>4. ASSUME NEW w \in Window, Hidden(k, w)' PROVE k \notin K /\ Hidden(k, w)
    <3>1. Hidden(k, w)
      BY <2>2, <2>3, <2>4 DEF Hidden, Watcher!Claims, Watcher!Open
    <3>2. job[k].hidden
      BY <2>1, <3>1 DEF JobSound
    <3>3. QED
      BY <2>3, <2>4, <3>1, <3>2 DEF Hidden
  <2>5. Watcher!Live(k)' = Watcher!Live(k) /\ Minded(k)' = Minded(k)
    BY <2>2 DEF Watcher!Live, Minded
  <2>6. PickSound(k)'
    BY <2>1, <2>2 DEF PickSound
  <2>7. ASSUME NEW w \in Window PROVE native'[w].is = native[w].is /\ Watcher!Open(w)' = Watcher!Open(w)
    BY <2>3 DEF Watcher!Open
  <2>8. watcherWatcher'.killing = k => job'[k].stop /\ watcherWorker[k].at # "none"
    BY <2>1, <2>2 DEF JobSound
  <2>9. QED
    BY <2>1, <2>2, <2>3, <2>4, <2>5, <2>6, <2>7, <2>8 DEF JobSound
<1>5. ASSUME NEW w \in Window PROVE ClaimSound(w)'
  <2>1. /\ native'[w].is = native[w].is /\ native'[w].claim = native[w].claim
        /\ native'[w].pressed = native[w].pressed /\ (native[w].visible => native'[w].visible)
    BY <1>1, RestoredIs
  <2>2. \A k \in JobWorker : job'[k].window = job[k].window
    BY <1>1, StoppedIs
  <2>3. QED
    BY <2>1, <2>2, ShownClaims
<1>6. QED
  BY <1>2, <1>3, <1>4, <1>5 DEF WatcherInv

LEMMA CancelsStep ==
  ASSUME WatcherInv,
         \/ \E k \in JobWorker : Watcher!TickOverdue(k) \/ Watcher!TickPaused(k)
         \/ Watcher!Pause \/ Watcher!Quit
  PROVE  WatcherInv'
<1>1. watcherWatcher \in Running /\ UNCHANGED <<watcherWorker, late>>
  BY DEF WatcherInv, WatcherTyped, Watcher!TickOverdue, Watcher!TickPaused, Watcher!Pause, Watcher!Quit
<1>2. ASSUME NEW k \in JobWorker, Watcher!TickOverdue(k) \/ Watcher!TickPaused(k) PROVE WatcherInv'
  <2>1. k \in Watcher!Active /\ Watcher!Cancel({k})
    BY <1>2 DEF Watcher!TickOverdue, Watcher!TickPaused
  <2>2. /\ watcherWatcher' \in Running
        /\ watcherWatcher'.alive = watcherWatcher.alive /\ watcherWatcher'.gen = watcherWatcher.gen
        /\ watcherWatcher'.killing = watcherWatcher.killing \/ watcherWatcher'.killing \in {k}
    BY <1>1, <1>2 DEF Running, Watcher!TickOverdue, Watcher!TickPaused
  <2>3. \A o \in {k} : watcherWorker[o].at # "none"
    BY <2>1, MindedIs
  <2>4. QED
    BY <1>1, <2>1, <2>2, <2>3, CancelStep
<1>3. CASE Watcher!Pause \/ Watcher!Quit
  <2>1. Watcher!Cancel(Watcher!Active)
    BY <1>3 DEF Watcher!Pause, Watcher!Quit
  <2>2. /\ watcherWatcher' \in Running
        /\ watcherWatcher'.alive = watcherWatcher.alive /\ watcherWatcher'.gen = watcherWatcher.gen
        /\ watcherWatcher'.killing = watcherWatcher.killing
    BY <1>1, <1>3 DEF Running, Watcher!Pause, Watcher!Quit
  <2>3. PICK K : K = Watcher!Active
    OBVIOUS
  <2>4. K \in SUBSET JobWorker /\ \A o \in K : watcherWorker[o].at # "none"
    BY <2>3, MindedIs
  <2>5. QED
    BY <1>1, <2>1, <2>2, <2>3, <2>4, CancelStep
<1>4. QED
  BY <1>2, <1>3

LEMMA AppStep ==
  ASSUME WatcherInv, NEW w \in Window, Watcher!Opens(w) \/ Watcher!Shows(w) \/ Watcher!Closes(w)
  PROVE  WatcherInv'
<1>1. WatcherTyped /\ UNCHANGED <<watcherWatcher, job, watcherWorker, late>>
  BY DEF WatcherInv, Watcher!Opens, Watcher!Shows, Watcher!Closes
<1>2. /\ native' \in [Window -> NativeDialog] /\ \A v \in Window \ {w} : native'[v] = native[v]
      /\ native'[w].is # "none" /\ native'[w].pressed = native[w].pressed
      /\ \/ native'[w].is = "closed" /\ native'[w].claim = NoWorker
         \/ /\ native'[w].visible /\ native'[w].claim = native[w].claim
            /\ native[w].is # "none" => native'[w].is = native[w].is
  <2>1. CASE Watcher!Opens(w)
    BY <1>1, <2>1 DEF WatcherTyped, NativeDialog, Watcher!Opens, Watcher!Kind
  <2>2. CASE Watcher!Shows(w)
    BY <1>1, <2>2 DEF WatcherTyped, NativeDialog, Watcher!Shows, Watcher!Open, Watcher!Kind
  <2>3. CASE Watcher!Closes(w)
    <3> DEFINE closed == [native[w] EXCEPT !.is = "closed", !.visible = FALSE, !.claim = NoWorker]
    <3>1. /\ closed \in NativeDialog /\ closed.is = "closed" /\ closed.claim = NoWorker
          /\ closed.pressed = native[w].pressed
      BY <1>1 DEF WatcherTyped, NativeDialog
    <3>2. native' = [native EXCEPT ![w] = closed]
      BY <1>1, <2>3 DEF WatcherTyped, Watcher!Closes
    <3> HIDE DEF closed
    <3>3. QED
      BY <1>1, <3>1, <3>2 DEF WatcherTyped
  <2>4. QED
    BY <2>1, <2>2, <2>3
<1>3. ASSUME NEW k \in JobWorker PROVE JobSound(k)' /\ PickSound(k)'
  <2>1. JobSound(k) /\ PickSound(k)
    BY DEF WatcherInv
  <2>2. w \in job[k].window => native[w].is # "none"
    BY <2>1 DEF JobSound
  <2>3. Spares(k)
    <3>1. ASSUME NEW v \in Window, v # w
          PROVE  native'[v] = native[v] /\ Watcher!Open(v)' = Watcher!Open(v)
      BY <1>2, <3>1 DEF Watcher!Open
    <3>2. w \in job[k].window /\ Watcher!Open(w)' =>
            Watcher!Open(w) /\ native'[w].claim = native[w].claim /\ native'[w].visible
      BY <1>2, <2>2 DEF Watcher!Open, Watcher!Kind
    <3>3. QED
      BY <1>2, <3>1, <3>2 DEF Spares
  <2>4. QED
    BY <1>1, <2>1, <2>3, SparedSound
<1>4. ASSUME NEW v \in Window PROVE ClaimSound(v)'
  <2>1. ClaimSound(v)
    BY DEF WatcherInv
  <2>2. CASE v = w
    BY <1>1, <1>2, <2>1, <2>2 DEF ClaimSound, Watcher!Open, Watcher!Kind
  <2>3. CASE v # w
    BY <1>1, <1>2, <2>1, <2>3 DEF ClaimSound, Watcher!Open
  <2>4. QED
    BY <2>2, <2>3
<1>5. QED
  BY <1>1, <1>2, <1>3, <1>4 DEF WatcherInv, WatcherTyped, Started

LEMMA WatcherOnly ==
  ASSUME WatcherInv, UNCHANGED <<native, job, watcherWorker, late>>, watcherWatcher' \in Running,
         watcherWatcher.gen <= watcherWatcher'.gen, Started',
         watcherWatcher'.killing \in {NoWorker, watcherWatcher.killing},
         \A k \in JobWorker : Minded(k) => Minded(k)' \/ Watcher!Live(k) \/ ~job[k].hidden
  PROVE  WatcherInv'
<1>1. WatcherTyped'
  BY DEF WatcherInv, WatcherTyped
<1>2. ASSUME NEW k \in JobWorker PROVE JobSound(k)' /\ PickSound(k)'
  <2>1. JobSound(k) /\ PickSound(k) /\ job[k].by \in Nat /\ k # NoWorker
    BY Instances DEF WatcherInv, WatcherTyped, Job, Watcher!WorkerAssumption, Watcher!BoundAssumption
  <2>2. watcherWatcher.gen \in Nat /\ watcherWatcher'.gen \in Nat
    BY Instances DEF WatcherInv, WatcherTyped, Running, Watcher!BoundAssumption
  <2>3. job'[k].by <= watcherWatcher'.gen
    BY <2>1, <2>2 DEF JobSound
  <2>4. /\ Watcher!Live(k)' = Watcher!Live(k)
        /\ \A w \in Window : Hidden(k, w)' = Hidden(k, w) /\ Watcher!Open(w)' = Watcher!Open(w)
    BY DEF Watcher!Live, Hidden, Watcher!Claims, Watcher!Open
  <2>5. PickSound(k)'
    BY <2>1 DEF PickSound
  <2>6. QED
    BY <2>1, <2>3, <2>4, <2>5 DEF JobSound
<1>3. ASSUME NEW w \in Window PROVE ClaimSound(w)'
  BY DEF WatcherInv, ClaimSound, Watcher!Open
<1>4. QED
  BY <1>1, <1>2, <1>3 DEF WatcherInv

LEMMA WatcherOnlyStep ==
  ASSUME WatcherInv, Watcher!Start \/ Watcher!Enable \/ Watcher!QuitEnds \/ Watcher!Dies
  PROVE  WatcherInv'
<1>1. watcherWatcher \in Running /\ UNCHANGED <<native, job, watcherWorker, late>> /\ Started
      /\ watcherWatcher.gen \in Nat
  BY Instances
  DEF WatcherInv, WatcherTyped, Running, Watcher!Start, Watcher!Enable, Watcher!QuitEnds, Watcher!Dies,
      Watcher!BoundAssumption
<1>2. CASE Watcher!Start
  <2>1. /\ watcherWatcher' \in Running /\ watcherWatcher'.gen = watcherWatcher.gen + 1
        /\ watcherWatcher'.killing = NoWorker
    <3>1. watcherWatcher.gen + 1 \in 0..MaxStarts
      BY <1>1, <1>2, Instances DEF Watcher!Start, Watcher!BoundAssumption
    <3>2. QED
      BY <1>1, <1>2, <3>1 DEF Running, Watcher!Start
  <2>2. \A k \in JobWorker : ~Minded(k)
    BY <1>2 DEF Watcher!Start, Minded
  <2>3. Started'
    BY <1>1, <2>1 DEF Started
  <2>4. watcherWatcher.gen <= watcherWatcher'.gen
    BY <1>1, <2>1
  <2>5. QED
    BY <1>1, <2>1, <2>2, <2>3, <2>4, WatcherOnly
<1>3. CASE Watcher!Enable
  <2>1. /\ watcherWatcher' \in Running /\ watcherWatcher'.gen = watcherWatcher.gen
        /\ watcherWatcher'.alive = watcherWatcher.alive
        /\ watcherWatcher'.killing = watcherWatcher.killing
    BY <1>1, <1>3 DEF Running, Watcher!Enable
  <2>2. Started' /\ \A k \in JobWorker : Minded(k)' = Minded(k)
    BY <1>1, <2>1 DEF Started, Minded
  <2>3. QED
    BY <1>1, <2>1, <2>2, WatcherOnly
<1>4. CASE Watcher!QuitEnds \/ Watcher!Dies
  <2>1. /\ watcherWatcher' \in Running /\ watcherWatcher'.gen = watcherWatcher.gen
        /\ ~watcherWatcher'.alive /\ watcherWatcher'.killing \in {NoWorker, watcherWatcher.killing}
    BY <1>1, <1>4 DEF Running, Watcher!QuitEnds, Watcher!Dies
  <2>2. ASSUME NEW k \in JobWorker, Minded(k) PROVE Watcher!Live(k) \/ ~job[k].hidden
    BY <1>4, <2>2 DEF Minded, Watcher!QuitEnds, Watcher!Dies, Watcher!Active, Watcher!Ours
  <2>3. Started'
    BY <2>1 DEF Started
  <2>4. QED
    BY <1>1, <2>1, <2>2, <2>3, WatcherOnly
<1>5. QED
  BY <1>2, <1>3, <1>4

LEMMA WatcherStep ==
  ASSUME WatcherInv, Watcher!Next
  PROVE  WatcherInv'
<1>1. ASSUME NEW k \in JobWorker, Watcher!Tick(k) \/ Watcher!Stopping(k) PROVE WatcherInv'
  BY <1>1, TickExitedStep, CancelsStep, TerminateStep, QuitJobStep DEF Watcher!Tick, Watcher!Stopping
<1>2. ASSUME NEW k \in JobWorker, Watcher!Works(k) \/ Watcher!PulseLook(k) \/ Watcher!Picks(k) PROVE WatcherInv'
  BY <1>2, HideStep, PulseStep, MarkStep, PicksStep, EndsWorking, PressStep, LeaveStep, GoneStep
  DEF Watcher!Works
<1>3. ASSUME NEW k \in JobWorker,
             \/ Watcher!GiveUp(k) \/ Watcher!SubmitFails(k) \/ Watcher!Stalls(k) \/ Watcher!Crashes(k)
             \/ Watcher!HelperEnds(k)
      PROVE  WatcherInv'
  BY <1>3, EndsWorking, EndsStep, StallsStep
<1>4. QED
  BY <1>1, <1>2, <1>3, WatcherOnlyStep, CancelsStep, AppStep, CandidateStep DEF Watcher!Next

LEMMA WatcherStarts ==
  ASSUME Watcher!Init
  PROVE  WatcherInv
<1>1. /\ native = [w \in Window |-> [is |-> "none", visible |-> FALSE, claim |-> NoWorker, pressed |-> "none"]]
      /\ watcherWatcher = [gen |-> 0, alive |-> FALSE, enabled |-> TRUE, closing |-> FALSE,
                           killing |-> NoWorker]
      /\ job = [k \in JobWorker |-> Watcher!NoJob] /\ watcherWorker = [k \in JobWorker |-> Watcher!NotStarted]
      /\ late = {}
  BY DEF Watcher!Init
<1>2. 0 \in 0..MaxStarts /\ NoWorker \notin JobWorker
  BY Instances DEF Watcher!BoundAssumption, Watcher!WorkerAssumption
<1>3. WatcherTyped
  BY <1>1, <1>2
  DEF WatcherTyped, NativeDialog, Running, Job, Process, Watcher!NoJob, Watcher!NotStarted
<1>4. \A k \in JobWorker : JobSound(k) /\ PickSound(k)
  BY <1>1, <1>2
  DEF JobSound, PickSound, Hidden, Watcher!NoJob, Watcher!NotStarted, Watcher!Live, Watcher!Claims
<1>5. \A w \in Window : ClaimSound(w)
  BY <1>1 DEF ClaimSound, Watcher!Open, Watcher!Kind
<1>6. QED
  BY <1>1, <1>3, <1>4, <1>5 DEF WatcherInv, Started

LEMMA WatcherHolds == Spec => [](On("watcher") => WatcherInv)
<1>1. Init => (On("watcher") => WatcherInv)
  BY WatcherStarts DEF Init, WatcherInit
<1>2. (On("watcher") => WatcherInv) /\ [Next]_vars => (On("watcher") => WatcherInv)'
  <2> SUFFICES ASSUME On("watcher") => WatcherInv, [Next]_vars, On("watcher")' PROVE WatcherInv'
    OBVIOUS
  <2>1. CASE UNCHANGED vars
    <3>1. UNCHANGED <<moving, native, watcherWatcher, job, watcherWorker, late>>
      BY <2>1 DEF vars, WatcherVars
    <3>2. WatcherInv
      BY <3>1 DEF On
    <3>3. WatcherTyped' /\ Started'
      BY <3>1, <3>2 DEF WatcherInv, WatcherTyped, Started
    <3>4. ASSUME NEW k \in JobWorker PROVE JobSound(k)' /\ PickSound(k)'
      BY <3>1, <3>2
      DEF WatcherInv, JobSound, PickSound, Hidden, Minded, Watcher!Live, Watcher!Claims, Watcher!Open
    <3>5. ASSUME NEW w \in Window PROVE ClaimSound(w)'
      BY <3>1, <3>2 DEF WatcherInv, ClaimSound, Watcher!Open
    <3>6. QED
      BY <3>3, <3>4, <3>5 DEF WatcherInv
  <2>2. CASE Next
    BY <2>2, WatcherStep DEF Next, WatcherNext, On
  <2>3. QED
    BY <2>1, <2>2
<1>3. QED
  BY <1>1, <1>2, PTL DEF Spec

\* An open dialog is visible, or its worker is alive or still to be looked after and knows
\* that it is hidden, unless it was hidden after its worker had been told to stop, for any
\* interleaving of the watcher, its workers, their deaths and the applications
\* (external_dialog.cpp Worker::restore, external_agent.cpp cancelWorker, tick).
THEOREM DialogsReturned == Spec => []DialogReturned
<1>1. (On("watcher") => WatcherInv) => DialogReturned
  <2> SUFFICES ASSUME On("watcher"), WatcherInv PROVE Watcher!TypeOK /\ Watcher!DialogReturned
    BY DEF DialogReturned
  <2>1. ASSUME NEW w \in Window, Watcher!Open(w), ~native[w].visible, w \notin late
        PROVE  \E k \in JobWorker : Watcher!Keeper(k, w)
    <3>1. native[w].claim \in JobWorker
      BY <2>1 DEF WatcherInv, WatcherTyped, NativeDialog, ClaimSound
    <3>2. PICK k \in JobWorker : k = native[w].claim
      BY <3>1
    <3>3. Hidden(k, w) /\ Watcher!Claims(k, w)
      BY <2>1, <3>2, Instances DEF WatcherInv, ClaimSound, Hidden, Watcher!Claims, Watcher!WorkerAssumption
    <3>4. job[k].hidden /\ (Watcher!Live(k) \/ Minded(k))
      BY <3>3 DEF WatcherInv, JobSound
    <3>5. QED
      BY <3>3, <3>4 DEF Watcher!Keeper, Watcher!Active, Watcher!Ours, Minded
  <2>2. Watcher!DialogReturned
    BY <2>1 DEF Watcher!DialogReturned, Watcher!HasKeeper
  <2>3. ASSUME NEW w \in Window
        PROVE  /\ native[w].is \in {"none", "closed"} \cup Watcher!Kind /\ native[w].visible \in BOOLEAN
               /\ native[w].claim \in JobWorker \cup {NoWorker}
               /\ native[w].claim # NoWorker => w \in job[native[w].claim].window
    BY DEF WatcherInv, WatcherTyped, NativeDialog, ClaimSound
  <2>4. ASSUME NEW k \in JobWorker
        PROVE  job[k].by \in 0..watcherWatcher.gen /\ (job[k].finished => ~Watcher!Live(k))
    BY Instances DEF WatcherInv, WatcherTyped, Running, Job, JobSound, Watcher!BoundAssumption
  <2>5. /\ watcherWatcher.gen \in 0..MaxStarts /\ watcherWatcher.killing \in JobWorker \cup {NoWorker}
        /\ late \subseteq Window
    BY DEF WatcherInv, WatcherTyped, Running
  <2>6. QED
    BY <2>2, <2>3, <2>4, <2>5 DEF Watcher!TypeOK
<1>2. QED
  BY <1>1, WatcherHolds, PTL

\* No button of a dialog is pressed that the user of its picker had not asked for, whoever
\* pauses, quits or dies meanwhile (external_dialog.cpp submit, dismiss).
THEOREM ButtonsAsked == Spec => []PressedByUser
<1>1. (On("watcher") => WatcherInv) => PressedByUser
  BY DEF PressedByUser, Watcher!PressedByUser, WatcherInv, ClaimSound
<1>2. QED
  BY <1>1, WatcherHolds, PTL

\* No job is over with a helper still there that its worker had reported
\* (external_agent.cpp reapHelper, tick, stopWorkers).
THEOREM HelpersReaped == Spec => []NoHelperLeft
<1>1. (On("watcher") => WatcherInv) => NoHelperLeft
  BY DEF NoHelperLeft, Watcher!NoHelperLeft, WatcherInv, PickSound
<1>2. QED
  BY <1>1, WatcherHolds, PTL
=============================================================================
