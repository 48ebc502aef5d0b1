---------------------------- MODULE PickerSession ----------------------------
(***************************************************************************)
(* One file dialog of an application, shown by File Pilot: Dialog::Show    *)
(* starts a helper process and waits in runPicker; the helper reports what *)
(* its user does with notify and waits for each answer.  They share a      *)
(* mapping with one packet each way, and four events.                      *)
(*                                                                         *)
(* Both sides pump messages while they wait, so the user can act on a      *)
(* helper that waits, and the application can close the dialog from a      *)
(* callback.  Either process may die, and the helper may stop responding.  *)
(*                                                                         *)
(* Next does not use TakeEventAgain, ExitFirst, ExitUnshown,               *)
(* VerdictsUnwatched, NotifiableAlways and MissOwnerUncancelled (wrong     *)
(* variants of the definitions they precede, to test properties).          *)
(***************************************************************************)
EXTENDS Naturals, Sequences

CONSTANTS
  Choice,      \* what the user can have selected
  NoChoice,    \* nothing yet
  Closes,      \* what the application passes to IFileDialog::Close
  MaxShows     \* bound: calls of Show

\* What every instance assumes of its constants.
ChoiceAssumption == NoChoice \notin Choice
CloseAssumption == Closes \subseteq {"ok", "cancelled"}
BoundAssumption == MaxShows \in Nat

VARIABLES
  client,   \* the Dialog and its thread in Show and runPicker
  helper,   \* the helper process
  wire,     \* struct Shared and the events
  shows,    \* auxiliary: calls of Show so far
  early     \* auxiliary: the user cancelled a session that had not accepted

vars == <<client, helper, wire, shows, early>>

Packet == [kind : {"Selection", "Folder", "Type", "Accept"}, choice : Choice \cup {NoChoice}]
NoPacket == [kind |-> "Type", choice |-> NoChoice]

NoHelper == [pc |-> "gone", choice |-> NoChoice, pending |-> <<>>, hung |-> FALSE]
FreshWire == [ready |-> FALSE, event |-> FALSE, decision |-> FALSE, cancel |-> FALSE,
              packet |-> NoPacket, reply |-> "none", replyTo |-> NoPacket]

Init ==
  /\ client = [pc |-> "free", shown |-> FALSE, current |-> NoPacket, hr |-> "none",
               closing |-> FALSE, closed |-> "cancelled", fallback |-> FALSE, expired |-> FALSE]
  /\ helper = NoHelper /\ wire = FreshWire
  /\ shows = 0 /\ early = FALSE

-----------------------------------------------------------------------------
InPicker == client.pc \in {"waiting", "calling"}
Gone == helper.pc = "gone"
Busy == helper.pending # <<>>
Responsive == ~Gone /\ ~helper.hung

Show ==
  /\ client.pc = "free" /\ ~client.fallback /\ shows < MaxShows
  /\ client' = [client EXCEPT !.pc = "waiting", !.shown = FALSE, !.hr = "none",
                              !.closing = FALSE, !.expired = FALSE]
  /\ helper' = [NoHelper EXCEPT !.pc = "starting"]
  /\ wire' = FreshWire /\ shows' = shows + 1 /\ early' = FALSE

-----------------------------------------------------------------------------
(***************************************************************************)
(* runPicker's loop: of what is signalled, the notification comes first,   *)
(* then the cancellation, then the helper's exit.                          *)
(***************************************************************************)
Seen == client.shown \/ wire.ready

\* Any way out of the loop signals cancel; what follows is Reap.
Leaving(hr) == [client EXCEPT !.pc = "reaping", !.hr = hr, !.shown = Seen]
Cancelled == [wire EXCEPT !.cancel = TRUE]
Leave(hr) == client' = Leaving(hr) /\ wire' = Cancelled

TakeEventAgain ==
  /\ client.pc = "waiting" /\ wire.event
  /\ client' = [client EXCEPT !.pc = "calling", !.current = wire.packet, !.shown = Seen]
  /\ UNCHANGED <<helper, wire, shows, early>>

TakeEvent ==
  /\ client.pc = "waiting" /\ wire.event
  /\ client' = [client EXCEPT !.pc = "calling", !.current = wire.packet, !.shown = Seen]
  /\ wire' = [wire EXCEPT !.event = FALSE]
  /\ UNCHANGED <<helper, shows, early>>

SeeCancel ==
  /\ client.pc = "waiting" /\ ~wire.event /\ wire.cancel
  /\ Leave("cancelled")
  /\ UNCHANGED <<helper, shows, early>>

ExitFirst ==
  /\ client.pc = "waiting" /\ ~wire.event /\ Gone
  /\ Leave(IF Seen THEN "failed" ELSE "notimpl")
  /\ UNCHANGED <<helper, shows, early>>

ExitUnshown ==
  /\ client.pc = "waiting" /\ ~wire.event /\ ~wire.cancel /\ Gone /\ ~Seen
  /\ Leave("notimpl")
  /\ UNCHANGED <<helper, shows, early>>

SeeExit ==
  /\ client.pc = "waiting" /\ ~wire.event /\ ~wire.cancel /\ Gone
  /\ Leave(IF Seen THEN "failed" ELSE "notimpl")
  /\ UNCHANGED <<helper, shows, early>>

SeeReady ==
  /\ client.pc = "waiting" /\ wire.ready /\ ~client.shown
  /\ client' = [client EXCEPT !.shown = TRUE]
  /\ UNCHANGED <<helper, wire, shows, early>>

\* 15 s have passed; what was signalled since the loop last looked is not seen.
Expire ==
  /\ client.pc = "waiting" /\ ~client.shown
  /\ client' = [client EXCEPT !.pc = "reaping", !.hr = "notimpl", !.expired = TRUE]
  /\ wire' = Cancelled
  /\ UNCHANGED <<helper, shows, early>>

\* The thread is told to quit, its owner window or its caller gives up.
Stop ==
  /\ client.pc = "waiting"
  /\ Leave("cancelled")
  /\ UNCHANGED <<helper, shows, early>>

(***************************************************************************)
(* Dialog::callbacks.  The application may veto a folder or a proposal;    *)
(* its consent to a proposal counts unless the session was cancelled       *)
(* meanwhile.                                                              *)
(***************************************************************************)
Proposal == client.current.kind = "Accept"
VerdictsUnwatched == {"veto", "ok"}
Verdicts == {"veto", IF Proposal /\ wire.cancel THEN client.closed ELSE "ok"}
Final(hr) == hr = "cancelled" \/ (Proposal /\ hr = "ok")

Answer(hr) ==
  /\ client.pc = "calling" /\ hr \in Verdicts
  /\ hr = "veto" => client.current.kind \in {"Folder", "Accept"}
  /\ client' = [client EXCEPT !.pc = IF Final(hr) THEN "reaping" ELSE "waiting", !.hr = hr]
  /\ wire' = [wire EXCEPT !.decision = TRUE, !.reply = hr, !.replyTo = client.current,
                          !.cancel = @ \/ Final(hr)]
  /\ UNCHANGED <<helper, shows, early>>

\* A callback or the decoding of the packet throws: there is no answer.
Throw ==
  /\ client.pc = "calling" /\ Leave("failed")
  /\ UNCHANGED <<helper, shows, early>>

\* Dialog::Close, from a callback or from a message that the loop dispatches.
Close(hr) ==
  /\ client.pc \in {"free", "native"} \/ InPicker
  /\ client' = [client EXCEPT !.closed = hr, !.closing = @ \/ InPicker]
  /\ wire' = IF InPicker THEN Cancelled ELSE wire
  /\ UNCHANGED <<helper, shows, early>>

(***************************************************************************)
(* The helper has exited, or is terminated after 2 s, and Show returns, or *)
(* opens the native dialog because the helper did not start.               *)
(***************************************************************************)
Returned(hr) ==
  [client EXCEPT !.pc = "free", !.hr = IF client.closing THEN client.closed ELSE hr]

Reap ==
  /\ client.pc = "reaping"
  /\ client' = IF client.hr = "notimpl" THEN [client EXCEPT !.pc = "native", !.fallback = TRUE]
               ELSE Returned(client.hr)
  /\ helper' = NoHelper
  /\ UNCHANGED <<wire, shows, early>>

NativeReturns(hr) ==
  /\ client.pc = "native" /\ client' = Returned(hr)
  /\ UNCHANGED <<helper, wire, shows, early>>

\* The application's process ends.
Die ==
  /\ client.pc # "dead" /\ client' = [client EXCEPT !.pc = "dead"]
  /\ UNCHANGED <<helper, wire, shows, early>>

-----------------------------------------------------------------------------
(***************************************************************************)
(* The helper.  It has its window from "starting" on, is ready once File   *)
(* Pilot has drawn in it, and then reports the file type first.            *)
(***************************************************************************)
Exit == helper' = NoHelper

Appear ==
  /\ Responsive /\ helper.pc = "starting" /\ ~Busy
  /\ helper' = [helper EXCEPT !.pc = "ready"] /\ wire' = [wire EXCEPT !.ready = TRUE]
  /\ UNCHANGED <<client, shows, early>>

\* A pulse looks for a cancellation before it reports anything.
Reportable ==
  IF helper.pc = "ready" THEN {"Type"}
  ELSE (IF wire.cancel THEN {} ELSE {"Folder", "Selection"})
         \cup (IF helper.pc = "up" THEN {"Type", "Accept"} ELSE {})

NotifiableAlways == TRUE
Notifiable == ~Busy

Notify(kind) ==
  /\ Responsive /\ Notifiable /\ kind \in Reportable
  /\ kind = "Accept" => helper.choice # NoChoice
  /\ LET packet == [kind |-> kind, choice |-> helper.choice] IN
       /\ wire' = [wire EXCEPT !.decision = FALSE, !.packet = packet, !.event = TRUE]
       /\ helper' = [helper EXCEPT !.pc = IF @ = "ready" THEN "up" ELSE @,
                                   !.pending = Append(@, packet)]
  /\ UNCHANGED <<client, shows, early>>

\* notify's wait: the decision comes first, then the cancellation.
Decide ==
  /\ Responsive /\ Busy /\ wire.decision
  /\ wire' = [wire EXCEPT !.decision = FALSE]
  /\ IF helper.pending[Len(helper.pending)].kind = "Accept" /\ wire.reply = "ok"
     THEN Exit
     ELSE helper' = [helper EXCEPT !.pending = SubSeq(@, 1, Len(@) - 1)]
  /\ UNCHANGED <<client, shows, early>>

\* cancel, when the event is seen: by notify, or by a pulse otherwise.
SeeCancelled ==
  /\ Responsive /\ helper.pc # "ready" /\ wire.cancel /\ (Busy => ~wire.decision)
  /\ Exit
  /\ UNCHANGED <<client, wire, shows, early>>

\* notify asks whether the application's process is still there.
MissOwnerUncancelled ==
  /\ Responsive /\ Busy /\ client.pc = "dead" /\ wire.cancel
  /\ Exit /\ UNCHANGED <<client, wire, shows, early>>

MissOwner ==
  /\ Responsive /\ Busy /\ client.pc = "dead"
  /\ Exit /\ wire' = Cancelled
  /\ UNCHANGED <<client, shows, early>>

\* The user, whom the helper serves while it waits: it pumps messages.
Select(choice) ==
  /\ Responsive /\ helper.pc = "up"
  /\ helper' = [helper EXCEPT !.choice = choice]
  /\ UNCHANGED <<client, wire, shows, early>>

Cancel ==
  /\ Responsive /\ helper.pc # "ready"
  /\ Exit /\ wire' = Cancelled
  /\ early' = (early \/ InPicker)
  /\ UNCHANGED <<client, shows>>

Fail ==
  /\ ~Gone /\ Exit
  /\ UNCHANGED <<client, wire, shows, early>>

\* Its UI thread stops responding, or recovers.
Hang ==
  /\ ~Gone /\ helper' = [helper EXCEPT !.hung = ~@]
  /\ UNCHANGED <<client, wire, shows, early>>

-----------------------------------------------------------------------------
Verdict == {"ok", "veto", "cancelled"}

Attend == TakeEvent \/ SeeCancel \/ SeeExit \/ SeeReady
Reply == Throw \/ \E hr \in Verdict : Answer(hr)
Finish == Reap \/ NativeReturns("ok") \/ NativeReturns("cancelled")

Next ==
  \/ Show \/ Attend \/ Expire \/ Stop \/ Reply \/ Finish \/ Die
  \/ Appear \/ Decide \/ SeeCancelled \/ MissOwner \/ Cancel \/ Fail \/ Hang
  \/ \E hr \in Closes : Close(hr)
  \/ \E kind \in {"Selection", "Folder", "Type", "Accept"} : Notify(kind)
  \/ \E choice \in Choice : Select(choice)

Spec == Init /\ [][Next]_vars

(***************************************************************************)
(* Fairness: the application's thread runs and its callbacks return, and a *)
(* helper that responds runs: between any two acts of its user the timer   *)
(* of its window pulses.                                                   *)
(***************************************************************************)
FairSpec ==
  /\ Spec
  /\ WF_vars(Attend) /\ WF_vars(Reply) /\ WF_vars(Reap)
  /\ WF_vars(Decide \/ MissOwner) /\ SF_vars(SeeCancelled)

-----------------------------------------------------------------------------
\* Every variable keeps its type; a notification waits alone.
TypeOK ==
  /\ client.pc \in {"free", "waiting", "calling", "reaping", "native", "dead"}
  /\ client.hr \in {"none", "ok", "veto", "cancelled", "failed", "notimpl"}
  /\ client.closed \in {"ok", "cancelled"} /\ client.current \in Packet
  /\ helper.pc \in {"gone", "starting", "ready", "up"} /\ helper.choice \in Choice \cup {NoChoice}
  /\ helper.pending \in Seq(Packet) /\ Len(helper.pending) <= 1
  /\ wire.packet \in Packet /\ wire.reply \in {"none"} \cup Verdict

(***************************************************************************)
(* The answer that the helper finds is to what it waits to hear of, though *)
(* its user goes on acting meanwhile, and what the application decides on  *)
(* is still what the helper waits to hear of.  So an accepted result is    *)
(* the selection at the moment the user accepted it.                       *)
(***************************************************************************)
RightAnswer ==
  Busy =>
    /\ wire.decision => wire.replyTo = helper.pending[Len(helper.pending)]
    /\ client.pc = "calling" => client.current = helper.pending[Len(helper.pending)]

(***************************************************************************)
(* A user's cancellation remains one: if it comes before the application   *)
(* has accepted a result, Show does not succeed, unless the application    *)
(* itself closes the dialog with success, or the native dialog followed.   *)
(* It fails once an application has closed a dialog with success before:   *)
(* Show does not forget that.                                              *)
(***************************************************************************)
CancelRemains ==
  client.pc = "free" /\ early => client.hr # "ok" \/ client.closing \/ client.fallback

(***************************************************************************)
(* The native dialog opens only for a picker that never came up, and never *)
(* beside one: the helper is gone, the application had not seen it ready,  *)
(* and its user had not cancelled it, unless the 15 s ran out just then.   *)
(***************************************************************************)
OneDialog ==
  client.pc = "native" => Gone /\ ~client.shown /\ (early => client.expired)

\* A session that the application has not yet come to the end of.
Unfinished == InPicker \/ client.pc = "reaping"
=============================================================================
