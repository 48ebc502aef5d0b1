------------------------------ MODULE MCSessions ------------------------------
(***************************************************************************)
(* The components that promise that something ends, each under its own     *)
(* fairness: `moving' says which one a behaviour is of.  The picker and    *)
(* the watcher keep their parameters, the others are finite instances.     *)
(***************************************************************************)
EXTENDS Integers, Sequences, FiniteSets

CONSTANTS
  Choice, NoChoice, CloseResult, MaxShows,           \* of the picker
  Window, JobWorker, NoWorker, Limit, MaxStarts,     \* of the watcher
  a1, c1, s1, s2, w1, Nobody, NoRequest, t1, t2, b1, b2, Never

VARIABLES
  moving,  \* the component that is looked at; the others are off
  pickerClient, helper, wire, shows, early,
  native, watcherWatcher, job, watcherWorker, late,
  agent, policy, config, reader, agentHost, records, process,
  mail, event, standby, caller, spawner, adopted, excused


Picker == INSTANCE PickerSession WITH
  client <- pickerClient, Closes <- CloseResult
Watcher == INSTANCE ExternalWatcher WITH
  watcher <- watcherWatcher, worker <- watcherWorker, Worker <- JobWorker
Agent == INSTANCE DialogAgent WITH
  App <- {a1}, Pid <- {}, Adapters <- {}, MaxTries <- 1, MaxLives <- 2, MaxEdits <- 1,
  MaxBorn <- 0, host <- agentHost
Launch == INSTANCE StandbyLaunch WITH
  Caller <- {c1}, Standby <- {s1, s2}, Spawner <- {w1}, Ticket <- {t1, t2},
  Birth <- {b1, b2}, Timeouts <- FALSE

ASSUME Instances ==
  /\ Picker!ChoiceAssumption /\ Picker!CloseAssumption /\ Picker!BoundAssumption
  /\ Watcher!WorkerAssumption /\ Watcher!BoundAssumption /\ Agent!AgentAssumption

-----------------------------------------------------------------------------
On(component) == moving = component

PickerVars == <<pickerClient, helper, wire, shows, early>>
PickerInit ==
  IF On("picker") THEN Picker!Init
  ELSE /\ pickerClient = "off" /\ helper = "off" /\ wire = "off" /\ shows = "off"
       /\ early = "off"
PickerNext == IF On("picker") THEN Picker!Next ELSE UNCHANGED PickerVars

WatcherVars == <<native, watcherWatcher, job, watcherWorker, late>>
WatcherInit ==
  IF On("watcher") THEN Watcher!Init
  ELSE /\ native = "off" /\ watcherWatcher = "off" /\ job = "off" /\ watcherWorker = "off"
       /\ late = "off"
WatcherNext == IF On("watcher") THEN Watcher!Next ELSE UNCHANGED WatcherVars

AgentVars == <<agent, policy, config, reader, agentHost, records, process>>
AgentInit ==
  IF On("agent") THEN Agent!Init
  ELSE /\ agent = "off" /\ policy = "off" /\ config = "off" /\ reader = "off" /\ agentHost = "off"
       /\ records = "off" /\ process = "off"
AgentNext == IF On("agent") THEN Agent!Next ELSE UNCHANGED AgentVars

LaunchVars == <<mail, event, standby, caller, spawner, adopted, excused>>
LaunchInit ==
  IF On("standby") THEN Launch!Init
  ELSE /\ mail = "off" /\ event = "off" /\ standby = "off" /\ caller = "off" /\ spawner = "off"
       /\ adopted = "off" /\ excused = "off"
LaunchNext == IF On("standby") THEN Launch!Next ELSE UNCHANGED LaunchVars


Init ==
  /\ moving \in {"picker", "watcher", "agent", "standby"}
  /\ PickerInit
  /\ WatcherInit
  /\ AgentInit
  /\ LaunchInit

Next ==
  /\ UNCHANGED moving
  /\ PickerNext
  /\ WatcherNext
  /\ AgentNext
  /\ LaunchNext

vars == <<moving, PickerVars, WatcherVars, AgentVars, LaunchVars>>

Spec == Init /\ [][Next]_vars

\* Fairness: the i-th fair action of the component that moves, as its FairSpec says.
PickerFair(i) ==
  \/ i = 1 /\ Picker!Attend
  \/ i = 2 /\ Picker!Reply
  \/ i = 3 /\ Picker!Reap
  \/ i = 4 /\ (Picker!Decide \/ Picker!MissOwner)
WatcherFair(i, k) ==
  \/ i = 1 /\ (Watcher!Works(k) \/ Watcher!GiveUp(k) \/ Watcher!SubmitFails(k))
  \/ i = 2 /\ Watcher!Stopping(k)
AgentFair(i) ==
  \/ i = 1 /\ Agent!Worker
  \/ i = 2 /\ Agent!Timer
  \/ i = 3 /\ Agent!TornDown
  \/ i = 4 /\ Agent!At("down") /\ Agent!Beat(FALSE)
LaunchFair(i) ==
  \/ i = 1 /\ Launch!Age
  \/ i = 2 /\ Launch!CallerStep(c1)
  \/ i = 3 /\ Launch!StandbyStep(s1)
  \/ i = 4 /\ Launch!StandbyStep(s2)
  \/ i = 5 /\ Launch!SpawnerStep(w1)

Of(pick, watch, serve, launch) ==
  /\ UNCHANGED moving
  /\ IF On("picker") THEN pick ELSE UNCHANGED PickerVars
  /\ IF On("watcher") THEN watch ELSE UNCHANGED WatcherVars
  /\ IF On("agent") THEN serve ELSE UNCHANGED AgentVars
  /\ IF On("standby") THEN launch ELSE UNCHANGED LaunchVars
Weak(i, k) == Of(PickerFair(i), WatcherFair(i, k), AgentFair(i), LaunchFair(i))
Cancelling(k) == Of(Picker!SeeCancelled, Watcher!PulseLook(k), FALSE, FALSE)
Ticking(k) == Of(FALSE, Watcher!Tick(k), FALSE, FALSE)

FairSpec ==
  /\ Spec /\ \A i \in 1..5, k \in JobWorker : WF_vars(Weak(i, k))
  /\ \A k \in JobWorker : SF_vars(Cancelling(k)) /\ SF_vars(Ticking(k))

-----------------------------------------------------------------------------
\* The answer that the picker finds is to what it waits to hear of, and is decided on
\* what that still is (picker_runtime.cpp submit, pulse; modern_dialog.cpp runPicker).
RightAnswer == On("picker") => Picker!TypeOK /\ Picker!RightAnswer

\* A user's cancellation remains one, and no native dialog comes after it or beside a
\* picker (modern_dialog.cpp Show).
CancelRemains == On("picker") => Picker!CancelRemains /\ Picker!OneDialog

\* A session ends in the application, and what the helper submitted is answered, whoever
\* ends or hangs meanwhile (modern_dialog.cpp runPicker, picker_runtime.cpp pulse).
SessionEnds ==
  /\ On("picker") /\ Picker!Unfinished /\ (wire.cancel \/ Picker!Gone) ~> ~(On("picker") /\ Picker!Unfinished)
  /\ On("picker") /\ Picker!Busy ~> ~(On("picker") /\ Picker!Busy) \/ helper.hung

\* A hidden native dialog has somebody who will show it again (external_dialog.cpp
\* Worker::restore, external_agent.cpp cancelWorker, tick).
DialogReturned == On("watcher") => Watcher!TypeOK /\ Watcher!DialogReturned

\* Only the user of its picker confirms or cancels a dialog (external_dialog.cpp
\* submit, dismiss).
PressedByUser == On("watcher") => Watcher!PressedByUser

\* A job is over only when its worker and the helper that it reported have ended
\* (external_agent.cpp reapHelper, tick).
NoHelperLeft == On("watcher") => Watcher!NoHelperLeft

\* The dialog of a worker that is stopped, has ended or lost its watcher is shown again
\* (external_agent.cpp tick, stopWorkers; external_dialog.cpp pulse).
Returned ==
  \A k \in JobWorker :
    On("watcher") /\ Watcher!Away(k) /\ Watcher!Relieved(k)
      ~> ~(On("watcher") /\ Watcher!Away(k)) \/ job[k].window \subseteq late

\* A host ends when there is no agent, whether that has quit or crashed
\* (agent_host.cpp worker, policyAlive).
HostEnds ==
  On("agent") /\ Agent!At("down") ~> ~(On("agent") /\ Agent!At("down")) \/ Agent!HostAt("down")

\* A mailbox is not left with an adopted launch (startup_payload.cpp StartupFrame).
AdoptedMailboxRecovered == On("standby") => Launch!TypeOK /\ Launch!AdoptedMailboxRecovered

\* No request occupies the mailbox for ever (startup_payload.cpp Deliver, SpawnStandby).
MailboxFreed == On("standby") /\ Launch!Occupied ~> ~(On("standby") /\ Launch!Occupied)
=============================================================================
