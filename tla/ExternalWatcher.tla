--------------------------- MODULE ExternalWatcher ---------------------------
(***************************************************************************)
(* External interception of file dialogs.  The watcher finds a native      *)
(* dialog of some application, claims it, and starts a worker process for  *)
(* it; the worker inspects the dialog, hides it, shows File Pilot's picker *)
(* instead, and presses the dialog's button for the user.  They share one  *)
(* mapping, struct JobShared, and every one of watcher, worker, helper and *)
(* application may end at any step.                                        *)
(*                                                                         *)
(* ShowWindowAsync takes effect at once, and neither a window nor a        *)
(* process identifier is used again.                                       *)
(*                                                                         *)
(* Next does not use HelperForgotten, ClaimIgnored, ExitUnrestored,        *)
(* KilledNever, AbandonsIfTold and LastPulseSkipped (wrong variants of the *)
(* definitions they precede, to test properties).                          *)
(***************************************************************************)
EXTENDS Naturals, FiniteSets

CONSTANTS
  Window,      \* native dialogs
  Worker,      \* worker processes, each started once
  NoWorker,
  Limit,       \* how many jobs the watcher has at a time: 8
  MaxStarts    \* bound: starts of a watcher

\* What every instance assumes of its constants.
WorkerAssumption == NoWorker \notin Worker
BoundAssumption == Limit \in Nat /\ MaxStarts \in Nat

VARIABLES
  native,    \* the applications' dialogs, with ClaimProperty
  watcher,   \* the watcher process; of `enabled' the registry keeps a copy
  job,       \* struct Job and struct JobShared of each worker
  worker,    \* the worker processes and the helpers they start
  late       \* auxiliary: dialogs a worker hid after it had been told to stop

vars == <<native, watcher, job, worker, late>>

NoJob == [window |-> {}, by |-> 0, stop |-> FALSE, hidden |-> FALSE, fresh |-> TRUE,
          known |-> FALSE, finished |-> FALSE]
NotStarted == [at |-> "none", interrupted |-> FALSE, hiding |-> FALSE, hr |-> "none",
               asked |-> "none", helper |-> "none"]

Init ==
  /\ native = [w \in Window |-> [is |-> "none", visible |-> FALSE, claim |-> NoWorker,
                                 pressed |-> "none"]]
  /\ watcher = [gen |-> 0, alive |-> FALSE, enabled |-> TRUE, closing |-> FALSE,
                killing |-> NoWorker]
  /\ job = [k \in Worker |-> NoJob]
  /\ worker = [k \in Worker |-> NotStarted]
  /\ late = {}

-----------------------------------------------------------------------------
Kind == {"file", "other", "foreign"}
Open(w) == native[w].is \in Kind

\* What eligibleProcess and inspect make of a dialog and of its process.
Eligible(w) == native[w].is # "foreign"
Recognised(w) == native[w].is = "file"

\* windowMatches: the window is there and still has this worker's claim.
Claims(k, w) == w \in job[k].window /\ Open(w) /\ native[w].claim = k
Matches(k) == \E w \in Window : Claims(k, w)

Live(k) == worker[k].at \notin {"none", "gone"}
Watching == watcher.alive /\ ~watcher.closing /\ watcher.killing = NoWorker
Ours(k) == watcher.alive /\ job[k].by = watcher.gen
Active == {k \in Worker : Ours(k) /\ ~job[k].finished}
Orphan(k) == ~Ours(k)

\* restore, of the watcher and of a worker: whoever takes `hidden' shows the window.
Restored(K) ==
  [w \in Window |-> IF \E k \in K : job[k].hidden /\ Claims(k, w)
                    THEN [native[w] EXCEPT !.visible = TRUE] ELSE native[w]]
Unclaimed(wins, k) ==
  [w \in Window |-> IF Claims(k, w) THEN [wins[w] EXCEPT !.claim = NoWorker] ELSE wins[w]]

\* cancelWorker tells workers to stop and restores their windows.
Stopped(K) ==
  [k \in Worker |-> IF k \in K THEN [job[k] EXCEPT !.stop = TRUE, !.hidden = FALSE] ELSE job[k]]
Cancel(K) == job' = Stopped(K) /\ native' = Restored(K)

HelperForgotten(k) == worker[k].helper
HelperReaped(k) == IF job[k].known /\ worker[k].helper = "up" THEN "gone" ELSE worker[k].helper

-----------------------------------------------------------------------------
(***************************************************************************)
(* The watcher.                                                            *)
(***************************************************************************)
Start ==
  /\ ~watcher.alive /\ watcher.gen < MaxStarts
  /\ watcher' = [watcher EXCEPT !.gen = @ + 1, !.alive = TRUE, !.closing = FALSE,
                                !.killing = NoWorker]
  /\ UNCHANGED <<native, job, worker, late>>

ClaimIgnored(w) == Open(w) /\ native[w].visible /\ Eligible(w)
Claimable(w) == ClaimIgnored(w) /\ native[w].claim = NoWorker

Candidate(w, k) ==
  /\ Watching /\ watcher.enabled /\ Claimable(w) /\ worker[k].at = "none"
  /\ ~\E other \in Active : w \in job[other].window
  /\ Cardinality(Active) < Limit
  /\ native' = [native EXCEPT ![w].claim = k]
  /\ job' = [job EXCEPT ![k] = [NoJob EXCEPT !.window = {w}, !.by = watcher.gen]]
  /\ worker' = [worker EXCEPT ![k].at = "inspecting"]
  /\ UNCHANGED <<watcher, late>>

\* tick, for a worker that has exited ...
ExitUnrestored(k) ==
  /\ Watching /\ k \in Active /\ ~Live(k)
  /\ job' = [job EXCEPT ![k].finished = TRUE]
  /\ worker' = [worker EXCEPT ![k].helper = HelperReaped(k)]
  /\ UNCHANGED <<native, watcher, late>>

TickExited(k) ==
  /\ Watching /\ k \in Active /\ ~Live(k)
  /\ job' = [job EXCEPT ![k].finished = TRUE, ![k].hidden = FALSE]
  /\ worker' = [worker EXCEPT ![k].helper = HelperReaped(k)]
  /\ native' = Restored({k})
  /\ UNCHANGED <<watcher, late>>

\* ... for one whose heartbeat is more than 10 s old: first it is cancelled,
TickOverdue(k) ==
  /\ Watching /\ k \in Active /\ Live(k) /\ ~job[k].fresh
  /\ Cancel({k})
  /\ watcher' = [watcher EXCEPT !.killing = k]
  /\ UNCHANGED <<worker, late>>

\* then terminated.  A process that ends takes all with it but its helper.
Ended(helper) == [NotStarted EXCEPT !.at = "gone", !.helper = helper]
KilledNever(k) == worker' = [worker EXCEPT ![k].helper = HelperReaped(k)]
Killed(k) == worker' = [worker EXCEPT ![k] = Ended(HelperReaped(k))]

Terminate(k) ==
  /\ watcher.alive /\ watcher.killing = k
  /\ Killed(k)
  /\ job' = [job EXCEPT ![k].finished = TRUE]
  /\ watcher' = [watcher EXCEPT !.killing = NoWorker]
  /\ UNCHANGED <<native, late>>

\* ... and for one that works, while interception is paused.
TickPaused(k) ==
  /\ Watching /\ ~watcher.enabled /\ k \in Active /\ Live(k) /\ job[k].fresh
  /\ Cancel({k})
  /\ UNCHANGED <<watcher, worker, late>>

\* command, or --pause and --enable without a watcher.
Pause ==
  /\ watcher.alive => Watching
  /\ watcher.enabled /\ watcher' = [watcher EXCEPT !.enabled = FALSE]
  /\ Cancel(Active)
  /\ UNCHANGED <<worker, late>>

Enable ==
  /\ watcher.alive => Watching
  /\ ~watcher.enabled /\ watcher' = [watcher EXCEPT !.enabled = TRUE]
  /\ UNCHANGED <<native, job, worker, late>>

(***************************************************************************)
(* stopWorkers cancels all, and gives the workers 2 s to exit before it    *)
(* terminates them; then no claim of this watcher remains.                 *)
(***************************************************************************)
Quit ==
  /\ Watching /\ watcher' = [watcher EXCEPT !.closing = TRUE]
  /\ Cancel(Active)
  /\ UNCHANGED <<worker, late>>

QuitJob(k) ==
  /\ watcher.closing /\ Ours(k)
  /\ IF job[k].finished THEN UNCHANGED worker ELSE Killed(k)
  /\ native' = Unclaimed(Restored({k}), k)
  /\ job' = [job EXCEPT ![k].hidden = FALSE, ![k].finished = TRUE, ![k].by = 0]
  /\ UNCHANGED <<watcher, late>>

QuitEnds ==
  /\ watcher.closing /\ ~\E k \in Worker : Ours(k)
  /\ watcher' = [watcher EXCEPT !.alive = FALSE, !.closing = FALSE]
  /\ UNCHANGED <<native, job, worker, late>>

-----------------------------------------------------------------------------
(***************************************************************************)
(* The worker.  Its timer, the picker's events and its waits pulse: the    *)
(* pulse first looks, and then hides the dialog again if its application   *)
(* has shown it.                                                           *)
(***************************************************************************)
At(k, pcs) == worker[k].at \in pcs /\ ~worker[k].hiding
Interrupted(k) == worker[k].interrupted \/ job[k].stop \/ Orphan(k) \/ ~Matches(k)
Reported(k) == [job EXCEPT ![k].fresh = TRUE, ![k].known = @ \/ worker[k].helper = "up"]
Step(k, pc) == worker' = [worker EXCEPT ![k].at = pc]
Finish(k) ==
  worker' = [worker EXCEPT ![k] = [NotStarted EXCEPT !.at = "leaving", !.helper = worker[k].helper]]

Looked(k, pc) ==
  [worker[k] EXCEPT !.at = pc, !.interrupted = Interrupted(k),
                    !.hiding = ~Interrupted(k) /\ job[k].hidden /\ pc \in {"picking", "settling"}]
Pulse(k, pc) == job' = Reported(k) /\ worker' = [worker EXCEPT ![k] = Looked(k, pc)]

PulseLook(k) ==
  /\ At(k, {"inspecting", "picking", "lingering"})
  /\ Pulse(k, worker[k].at)
  /\ UNCHANGED <<native, watcher, late>>

\* A window is hidden by its handle alone.
Hide(k) ==
  /\ native' = [w \in Window |-> IF w \in job[k].window THEN [native[w] EXCEPT !.visible = FALSE]
                                 ELSE native[w]]
  /\ late' = IF job[k].stop THEN late \cup job[k].window ELSE late

PulseHide(k) ==
  /\ worker[k].hiding /\ Hide(k)
  /\ worker' = [worker EXCEPT ![k].hiding = FALSE]
  /\ UNCHANGED <<watcher, job>>

\* inspect recognises the dialog, and the job is still wanted.
Proceed(k) ==
  /\ At(k, {"inspecting"}) /\ ~job[k].stop
  /\ \E w \in Window : Claims(k, w) /\ native[w].visible /\ Recognised(w)
  /\ Pulse(k, "ready")
  /\ UNCHANGED <<native, watcher, late>>

\* It does not within 2.5 s, or something fails.
GiveUp(k) ==
  /\ At(k, {"inspecting", "ready"}) /\ Finish(k)
  /\ UNCHANGED <<native, watcher, job, late>>

\* `hidden' is stored before the window is hidden.
Mark(k) ==
  /\ At(k, {"ready"}) /\ Step(k, "marked")
  /\ job' = [job EXCEPT ![k].hidden = TRUE]
  /\ UNCHANGED <<native, watcher, late>>

HideFirst(k) ==
  /\ At(k, {"marked"}) /\ Hide(k) /\ Step(k, "picking")
  /\ UNCHANGED <<watcher, job>>

\* runPicker: a helper starts, and its user chooses, or it ends otherwise.
HelperStarts(k) ==
  /\ At(k, {"picking"}) /\ worker[k].helper = "none"
  /\ worker' = [worker EXCEPT ![k].helper = "up"]
  /\ UNCHANGED <<native, watcher, job, late>>

Picked(k, hr, asked) ==
  /\ At(k, {"picking"})
  /\ worker' = [worker EXCEPT ![k].at = "picked", ![k].hr = hr, ![k].asked = asked,
                              ![k].helper = IF @ = "none" THEN "none" ELSE "gone"]
  /\ UNCHANGED <<native, watcher, job, late>>

Accepts(k) == worker[k].helper = "up" /\ ~worker[k].interrupted /\ Picked(k, "ok", "ok")
Cancels(k) == worker[k].helper = "up" /\ Picked(k, "cancelled", "cancel")
AbandonsIfTold(k) == job[k].stop /\ Picked(k, "cancelled", "none")
Abandons(k) == (job[k].stop \/ worker[k].interrupted) /\ Picked(k, "cancelled", "none")
Fails(k) == Picked(k, "failed", "none")

\* Only a last pulse tells a stopped worker from a user who cancels.
LastPulseSkipped(k) ==
  /\ At(k, {"picked"}) /\ Step(k, "settling")
  /\ UNCHANGED <<native, watcher, job, late>>

LastPulse(k) ==
  /\ At(k, {"picked"}) /\ Pulse(k, "settling")
  /\ UNCHANGED <<native, watcher, late>>

\* dismiss and submit press a button of the dialog if it is still claimed;
\* auxiliary: whether the user had asked for that.
Press(k, button) ==
  LET press == IF worker[k].asked = button THEN "asked" ELSE "unasked" IN
    native' = [w \in Window |-> IF Claims(k, w) THEN [native[w] EXCEPT !.pressed = press]
                                ELSE native[w]]

Retain(k) ==
  /\ At(k, {"settling"}) /\ (worker[k].interrupted \/ worker[k].hr = "failed")
  /\ Finish(k)
  /\ UNCHANGED <<native, watcher, job, late>>

Dismiss(k) ==
  /\ At(k, {"settling"}) /\ ~worker[k].interrupted /\ worker[k].hr = "cancelled"
  /\ Press(k, "cancel") /\ Finish(k)
  /\ UNCHANGED <<watcher, job, late>>

Submitting(k) ==
  /\ At(k, {"settling"}) /\ ~worker[k].interrupted /\ worker[k].hr = "ok"
  /\ Step(k, "submitting")
  /\ UNCHANGED <<native, watcher, job, late>>

\* submit fills the dialog in, looks at its claim again, and presses.
Submit(k) ==
  /\ At(k, {"submitting"}) /\ Matches(k)
  /\ Press(k, "ok") /\ Step(k, "lingering")
  /\ UNCHANGED <<watcher, job, late>>

SubmitFails(k) ==
  /\ At(k, {"submitting"}) /\ Finish(k)
  /\ UNCHANGED <<native, watcher, job, late>>

\* 800 ms later, or when the dialog has closed.
Lingered(k) ==
  /\ At(k, {"lingering"}) /\ Finish(k)
  /\ UNCHANGED <<native, watcher, job, late>>

Leave(k) ==
  /\ At(k, {"leaving"}) /\ Step(k, "restored")
  /\ native' = Restored({k}) /\ job' = [job EXCEPT ![k].hidden = FALSE]
  /\ UNCHANGED <<watcher, late>>

\* Worker's destructor gives the claim up if the watcher is gone.
Exit(k) ==
  /\ At(k, {"restored"}) /\ worker' = [worker EXCEPT ![k] = Ended(@.helper)]
  /\ native' = IF Orphan(k) THEN Unclaimed(native, k) ELSE native
  /\ UNCHANGED <<watcher, job, late>>

-----------------------------------------------------------------------------
(***************************************************************************)
(* The applications, and what may happen to the processes.  Of a worker    *)
(* and its watcher one is there to notice that the other has died.         *)
(***************************************************************************)
Opens(w) ==
  /\ native[w].is = "none"
  /\ \E kind \in Kind : native' = [native EXCEPT ![w].is = kind, ![w].visible = TRUE]
  /\ UNCHANGED <<watcher, job, worker, late>>

Shows(w) ==
  /\ Open(w) /\ native' = [native EXCEPT ![w].visible = TRUE]
  /\ UNCHANGED <<watcher, job, worker, late>>

Closes(w) ==
  /\ Open(w)
  /\ native' = [native EXCEPT ![w].is = "closed", ![w].visible = FALSE, ![w].claim = NoWorker]
  /\ UNCHANGED <<watcher, job, worker, late>>

Stalls(k) ==
  /\ k \in Active /\ Live(k) /\ job' = [job EXCEPT ![k].fresh = FALSE]
  /\ UNCHANGED <<native, watcher, worker, late>>

Crashes(k) ==
  /\ Live(k) /\ ~Orphan(k)
  /\ worker' = [worker EXCEPT ![k] = Ended(@.helper)]
  /\ UNCHANGED <<native, watcher, job, late>>

\* A helper that misses its worker's process exits, at its next notification.
HelperEnds(k) ==
  /\ worker[k].helper = "up" /\ worker' = [worker EXCEPT ![k].helper = "gone"]
  /\ UNCHANGED <<native, watcher, job, late>>

Dies ==
  /\ watcher.alive /\ \A k \in Active : Live(k) \/ ~job[k].hidden
  /\ watcher' = [watcher EXCEPT !.alive = FALSE, !.closing = FALSE, !.killing = NoWorker]
  /\ UNCHANGED <<native, job, worker, late>>

-----------------------------------------------------------------------------
Tick(k) == TickExited(k) \/ TickOverdue(k) \/ TickPaused(k)
Stopping(k) == Terminate(k) \/ QuitJob(k)
Picks(k) == HelperStarts(k) \/ Accepts(k) \/ Cancels(k) \/ Fails(k)
Works(k) ==
  \/ PulseHide(k) \/ Proceed(k) \/ Mark(k) \/ HideFirst(k) \/ Abandons(k) \/ LastPulse(k)
  \/ Retain(k) \/ Dismiss(k) \/ Submitting(k) \/ Submit(k) \/ Lingered(k)
  \/ Leave(k) \/ Exit(k)

Next ==
  \/ Start \/ Pause \/ Enable \/ Quit \/ QuitEnds \/ Dies
  \/ \E w \in Window : Opens(w) \/ Shows(w) \/ Closes(w) \/ \E k \in Worker : Candidate(w, k)
  \/ \E k \in Worker :
       \/ Tick(k) \/ Stopping(k) \/ PulseLook(k) \/ Works(k) \/ Picks(k) \/ GiveUp(k)
       \/ SubmitFails(k) \/ Stalls(k) \/ Crashes(k) \/ HelperEnds(k)

Spec == Init /\ [][Next]_vars

(***************************************************************************)
(* Fairness: a worker's thread and the watcher's run, and its timer ticks  *)
(* and pulses.  Nothing makes the user choose.                             *)
(***************************************************************************)
FairSpec ==
  /\ Spec
  /\ \A k \in Worker :
       /\ WF_vars(Works(k) \/ GiveUp(k) \/ SubmitFails(k)) /\ SF_vars(PulseLook(k))
       /\ SF_vars(Tick(k)) /\ WF_vars(Stopping(k))

-----------------------------------------------------------------------------
\* Every variable keeps its type; a claim is that of the worker of its window.
TypeOK ==
  /\ \A w \in Window :
       /\ native[w].is \in {"none", "closed"} \cup Kind /\ native[w].visible \in BOOLEAN
       /\ native[w].claim \in Worker \cup {NoWorker}
       /\ native[w].claim # NoWorker => w \in job[native[w].claim].window
  /\ watcher.gen \in 0..MaxStarts /\ watcher.killing \in Worker \cup {NoWorker}
  /\ \A k \in Worker : job[k].by \in 0..watcher.gen /\ job[k].finished => ~Live(k)
  /\ late \subseteq Window

(***************************************************************************)
(* A dialog that an application has open is visible, or somebody who will  *)
(* show it again knows that it is hidden: its worker, or the watcher that  *)
(* has still to look after that worker.  The exception are dialogs that a  *)
(* worker hides after the watcher has told it to stop.                     *)
(***************************************************************************)
Keeper(k, w) == Claims(k, w) /\ job[k].hidden /\ (Live(k) \/ k \in Active)
HasKeeper(w) == native[w].visible \/ \E k \in Worker : Keeper(k, w)
DialogReturned == \A w \in Window : Open(w) => HasKeeper(w) \/ w \in late

\* An application sees its dialog confirmed or cancelled only if the user of
\* its picker did that: pausing, quitting and crashes only take the picker away.
PressedByUser == \A w \in Window : native[w].pressed # "unasked"

\* A job is over only when its worker has ended, and then so has each helper
\* that the worker had reported.
NoHelperLeft == \A k \in Worker : job[k].finished /\ job[k].known => worker[k].helper # "up"

\* The dialog of a worker that is stopped, has ended, or has lost its watcher
\* is shown again, by whoever is left.
Relieved(k) == job[k].stop \/ Orphan(k) \/ ~Live(k)
Away(k) == \E w \in Window : Claims(k, w) /\ ~native[w].visible
Returned ==
  \A k \in Worker : Away(k) /\ Relieved(k) ~> ~Away(k) \/ job[k].window \subseteq late
=============================================================================
