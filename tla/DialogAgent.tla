------------------------------ MODULE DialogAgent ------------------------------
(***************************************************************************)
(* The dialog agent, its attachment host, and the adapters in applications *)
(* share a policy in memory: whether it is valid (ready, a heartbeat of    *)
(* less than 15 s), whether interception is enabled, and the exclusions,   *)
(* whose generation is odd while the agent writes them.  The host looks at *)
(* the processes there are and attaches to those that are not excluded; an *)
(* adapter looks at the policy when its application asks for a dialog.     *)
(*                                                                         *)
(* Next does not use OddToo, Unchecked and BeatIgnored (wrong variants of  *)
(* the definitions they precede, to test properties).                      *)
(***************************************************************************)
EXTENDS Integers, FiniteSets

CONSTANTS
  App,       \* paths of executables
  Pid,
  Adapters,  \* threads that ask for a dialog in an application
  MaxTries,  \* at a host, an attachment, or a whole text: 3
  MaxLives,  \* bound: agents that start
  MaxEdits,  \* bound: changes of exclusions.txt
  MaxBorn    \* bound: processes that start

\* What every instance assumes of its constants.
AgentAssumption ==
  /\ "torn" \notin App /\ 0 \notin Pid /\ "host" \notin Adapters
  /\ MaxTries \in Nat /\ MaxLives \in Nat /\ MaxEdits \in Nat /\ MaxBorn \in Nat

VARIABLES
  agent,    \* its step, its number, and the attempts to start its host
  policy,
  config,   \* exclusions.txt and the registry's Enabled
  reader,   \* of the host and of an adapter: what each has read of the policy
  host,     \* its worker's step, whether it is told to stop, what it has yet to do
  records,  \* the worker's, by pid
  process   \* by pid: whether there is one, its creation, its application, its adapter

vars == <<agent, policy, config, reader, host, records, process>>

Host == "host"
NoPid == 0
Reader == {Host} \cup Adapters
Text == SUBSET App
All == App                 \* "*"
Torn == {"torn"}           \* exclusions of which only a part was read or written
NotReading == [pc |-> "idle", life |-> 0, tries |-> 0, before |-> 0, text |-> {}, got |-> All,
               seen |-> {}]
NoRecord == [born |-> 0, attempts |-> 0, state |-> "none", seen |-> FALSE]
NoProcess == [live |-> FALSE, born |-> 0, app |-> CHOOSE a \in App : TRUE, adapter |-> "none"]
NoHost == [pc |-> "down", stop |-> FALSE, todo |-> {}, pid |-> NoPid, stamp |-> 0]

Init ==
  /\ agent = [pc |-> "down", life |-> 0, tries |-> 0, owns |-> FALSE]
  /\ policy = [ready |-> FALSE, enabled |-> FALSE, beat |-> FALSE, generation |-> 0, text |-> {}]
  /\ config \in [text : Text, enabled : {TRUE}, edits : {0}]
  /\ reader = [r \in Reader |-> NotReading]
  /\ host = NoHost
  /\ records = [p \in Pid |-> NoRecord]
  /\ process = [p \in Pid |-> NoProcess]

-----------------------------------------------------------------------------
\* The agent.
BeatIgnored(now) == now.ready
Alive(now) == now.ready /\ now.beat

At(pc) == agent.pc = pc
\* A mapping that a host or an adapter still holds is cleared under their eyes.
Start ==
  /\ At("down") /\ agent.life < MaxLives
  /\ agent' = [pc |-> "starting", life |-> agent.life + 1, tries |-> 0, owns |-> FALSE]
  /\ policy' = [ready |-> FALSE, enabled |-> config.enabled, beat |-> TRUE, generation |-> 0,
                text |-> {}]
  /\ UNCHANGED <<config, reader, host, records, process>>

\* exclusions: a timer's, and once before the policy is ready.
WriteBegins ==
  /\ agent.pc \in {"starting", "up"} /\ config.text # policy.text
  /\ policy' = [policy EXCEPT !.generation = @ + 1, !.text = Torn]
  /\ agent' = [agent EXCEPT !.pc = IF @ = "up" THEN "writing" ELSE "first"]
  /\ UNCHANGED <<config, reader, host, records, process>>

Seeing(text) ==
  [r \in Reader |-> IF reader[r].pc \in {"idle", "read", "using"} THEN reader[r]
                    ELSE [reader[r] EXCEPT !.seen = @ \cup {text}]]
\* The file is read before it is written; a later change is the next timer's.
WriteEnds(text) ==
  /\ agent.pc \in {"writing", "first"}
  /\ policy' = [policy EXCEPT !.generation = @ + 1, !.text = text]
  /\ agent' = [agent EXCEPT !.pc = IF @ = "writing" THEN "up" ELSE "loaded"]
  /\ reader' = IF At("writing") THEN Seeing(text) ELSE reader
  /\ UNCHANGED <<config, host, records, process>>

\* The file may be unreadable, and the exclusions are then none.
Ready ==
  /\ agent.pc \in {"starting", "loaded"}
  /\ policy' = [policy EXCEPT !.ready = TRUE]
  /\ agent' = [agent EXCEPT !.pc = "up"]
  /\ reader' = Seeing(policy.text)
  /\ UNCHANGED <<config, host, records, process>>

Beat(fresh) ==
  /\ policy.beat # fresh /\ (fresh => At("up"))
  /\ policy' = [policy EXCEPT !.beat = fresh]
  /\ UNCHANGED <<agent, config, reader, host, records, process>>

Command(enable) ==
  /\ At("up") /\ policy.enabled # enable
  /\ policy' = [policy EXCEPT !.enabled = enable]
  /\ config' = [config EXCEPT !.enabled = enable]
  /\ UNCHANGED <<agent, reader, host, records, process>>

\* WM_DESTROY, which closes the host too.
Quit ==
  /\ At("up")
  /\ agent' = [agent EXCEPT !.pc = "down"]
  /\ policy' = [policy EXCEPT !.enabled = FALSE, !.ready = FALSE]
  /\ host' = [host EXCEPT !.stop = host.pc # "down"]
  /\ UNCHANGED <<config, reader, records, process>>

\* spawnHost: a second host finds the first one's mutex, and ends.
SpawnHost ==
  /\ At("up") /\ agent.tries < MaxTries /\ ~(agent.owns /\ host.pc # "down")
  /\ agent' = [agent EXCEPT !.tries = @ + 1, !.owns = host.pc = "down"]
  /\ IF host.pc = "down" /\ Alive(policy)
     THEN /\ host' = [NoHost EXCEPT !.pc = "top"]
          /\ records' = [p \in Pid |-> NoRecord]
     ELSE UNCHANGED <<host, records>>
  /\ UNCHANGED <<policy, config, reader, process>>

-----------------------------------------------------------------------------
\* patterns and replacementsEnabled: how the policy is read.
Put(r, record) ==
  /\ reader' = [reader EXCEPT ![r] = record]
  /\ UNCHANGED <<agent, policy, config, records, process>>

Check(r) ==
  /\ reader[r].pc = "idle" /\ Alive(policy)
  /\ Put(r, [NotReading EXCEPT !.pc = "alive", !.life = agent.life, !.seen = {policy.text} \ {Torn}])

See(r) ==
  /\ reader[r].pc = "alive"
  /\ Put(r, [reader[r] EXCEPT !.pc = IF policy.enabled THEN "open" ELSE "idle"])

Read(r, got) ==
  Put(r, [reader[r] EXCEPT !.pc = "read", !.got = got, !.tries = 0, !.before = 0, !.text = {}])
Again(r) == Put(r, [reader[r] EXCEPT !.pc = "open", !.tries = @ + 1])

OddToo(generation) == TRUE
Even(generation) == generation % 2 = 0

Begin(r) ==
  /\ reader[r].pc = "open" /\ reader[r].tries < MaxTries
  /\ IF Even(policy.generation)
     THEN Put(r, [reader[r] EXCEPT !.pc = "reading", !.before = policy.generation, !.text = policy.text])
     ELSE Again(r)

End(r) ==
  /\ reader[r].pc = "reading"
  /\ IF policy.generation = reader[r].before
     THEN Read(r, IF policy.text = reader[r].text THEN policy.text ELSE Torn)
     ELSE Again(r)

\* A changing policy should not cause new attachments: everything is excluded.
GiveUp(r) == reader[r].pc = "open" /\ reader[r].tries = MaxTries /\ Read(r, All)

Reads(r) == Check(r) \/ See(r) \/ Begin(r) \/ End(r) \/ GiveUp(r)

\* The adapter decides: FilePilot's dialog, or the native one.
Decides(a) == reader[a].pc = "read" /\ Put(a, NotReading) /\ UNCHANGED host
AdapterReads(a) == Reads(a) /\ UNCHANGED host

-----------------------------------------------------------------------------
\* The host's worker.
HostAt(pc) == host.pc = pc
Ended == HostAt("top") /\ (host.stop \/ ~Alive(policy))

Leave ==
  /\ Ended
  /\ host' = NoHost /\ reader' = [reader EXCEPT ![Host] = NotReading]
  /\ UNCHANGED <<agent, policy, config, records, process>>

HostReads ==
  /\ HostAt("top") /\ (reader[Host].pc = "idle" => ~host.stop)
  /\ Reads(Host) /\ UNCHANGED host

\* The processes there are, in an order that prefers the foreground.
Snapshot ==
  /\ HostAt("top") /\ reader[Host].pc = "read"
  /\ host' = [host EXCEPT !.pc = "scan", !.todo = {p \in Pid : process[p].live}]
  /\ records' = [p \in Pid |-> [records[p] EXCEPT !.seen = FALSE]]
  /\ reader' = [reader EXCEPT ![Host] = [NotReading EXCEPT !.pc = "using", !.got = reader[Host].got]]
  /\ UNCHANGED <<agent, policy, config, process>>

Renewed(p) ==
  IF records[p].born = process[p].born THEN records[p]
  ELSE [NoRecord EXCEPT !.born = process[p].born]

Excluding(p) == process[p].app \in reader[Host].got
Final(record) == record.state \in {"attached", "barred"}
Reset(record) == IF record.state = "excluded" THEN [record EXCEPT !.attempts = 0] ELSE record

Recorded(p, record) ==
  /\ records' = [records EXCEPT ![p] = [record EXCEPT !.seen = TRUE]]
  /\ UNCHANGED <<agent, policy, config, reader, process>>
Past(p) == host' = [NoHost EXCEPT !.pc = "scan", !.stop = host.stop, !.todo = host.todo \ {p}]

\* A candidate is gone, ineligible, excluded, done with, restricted, or tried.
Consider(p) ==
  LET record == Reset(Renewed(p)) IN
    /\ HostAt("scan") /\ ~host.stop /\ p \in host.todo
    /\ \/ /\ Past(p) /\ UNCHANGED <<agent, policy, config, reader, records, process>>
       \/ /\ process[p].live /\ Excluding(p) /\ Past(p)
          /\ Recorded(p, [Renewed(p) EXCEPT !.state = "excluded"])
       \/ /\ process[p].live /\ ~Excluding(p) /\ Past(p)
          /\ Final(record) \/ record.attempts > 0 \* three, or less than 30 s ago
          /\ Recorded(p, record)
       \/ /\ process[p].live /\ ~Excluding(p) /\ ~Final(record) /\ record.attempts < MaxTries
          /\ \/ /\ Past(p)
                /\ \E state \in {"barred", "failed"} :
                     Recorded(p, [record EXCEPT !.attempts = @ + 1, !.state = state])
             \/ /\ host' = [host EXCEPT !.pc = "opening", !.pid = p, !.stamp = process[p].born]
                /\ Recorded(p, [record EXCEPT !.attempts = @ + 1])

\* The process is opened again, to be written to; it may be another one by now.
Unchecked(p) == TRUE
Same(p) == process[p].born = host.stamp

Open ==
  /\ HostAt("opening")
  /\ IF process[host.pid].live /\ Same(host.pid)
     THEN host' = [host EXCEPT !.pc = "attaching"]
     ELSE Past(host.pid)
  /\ UNCHANGED <<agent, policy, config, reader, records, process>>

\* attachProcess, in a process whose handle is held.  "barred" is Incompatible or
\* RestartRequired, "failed" is Failed or AccessDenied.
Attach(state) ==
  /\ HostAt("attaching") /\ Past(host.pid)
  /\ process' = [process EXCEPT ![host.pid].adapter = IF state = "attached" THEN "attached" ELSE @]
  /\ records' = [records EXCEPT ![host.pid] =
       IF state = "timeout" THEN [@ EXCEPT !.state = "failed", !.attempts = MaxTries]
       ELSE [@ EXCEPT !.state = state]]
  /\ UNCHANGED <<agent, policy, config, reader>>

\* The loop is over, or broken off; records of processes it has not seen go.
Publish ==
  /\ HostAt("scan") /\ (host.todo = {} \/ host.stop)
  /\ records' = [p \in Pid |-> IF records[p].seen THEN records[p] ELSE NoRecord]
  /\ host' = [host EXCEPT !.pc = "top", !.todo = {}]
  /\ reader' = [reader EXCEPT ![Host] = NotReading]
  /\ UNCHANGED <<agent, policy, config, process>>

Worker ==
  \/ Leave \/ HostReads \/ Snapshot \/ Open \/ Publish
  \/ \E p \in Pid : Consider(p)
  \/ \E state \in {"attached", "barred", "failed", "timeout"} : Attach(state)

\* Its window's timer, and its end 12 s later whatever the worker does.
Timer ==
  /\ host.pc # "down" /\ ~host.stop /\ ~Alive(policy)
  /\ host' = [host EXCEPT !.stop = TRUE]
  /\ UNCHANGED <<agent, policy, config, reader, records, process>>

TornDown ==
  /\ host.pc # "down" /\ host.stop
  /\ host' = NoHost /\ reader' = [reader EXCEPT ![Host] = NotReading]
  /\ UNCHANGED <<agent, policy, config, records, process>>

-----------------------------------------------------------------------------
\* External: the user's editor, crashes, and processes that come and go.
Edit(text) ==
  /\ config.edits < MaxEdits /\ config.text # text
  /\ config' = [config EXCEPT !.text = text, !.edits = @ + 1]
  /\ UNCHANGED <<agent, policy, reader, host, records, process>>

Crash ==
  /\ ~At("down") /\ agent' = [agent EXCEPT !.pc = "down"]
  /\ UNCHANGED <<policy, config, reader, host, records, process>>

\* No process is created at the time of another one.
Launched(p, app, born) ==
  /\ ~process[p].live /\ \A q \in Pid : process[q].born < born
  /\ process' = [process EXCEPT ![p] = [live |-> TRUE, born |-> born, app |-> app, adapter |-> "none"]]
  /\ UNCHANGED <<agent, policy, config, reader, host, records>>

Exits(p) ==
  /\ process[p].live /\ ~(HostAt("attaching") /\ host.pid = p)
  /\ process' = [process EXCEPT ![p].live = FALSE]
  /\ UNCHANGED <<agent, policy, config, reader, host, records>>

-----------------------------------------------------------------------------
Next ==
  \/ Start \/ WriteBegins \/ Ready \/ Quit \/ SpawnHost \/ Crash
  \/ \E text \in Text : WriteEnds(text) /\ text = config.text
  \/ \E fresh \in BOOLEAN : Beat(fresh)
  \/ \E enable \in BOOLEAN : Command(enable)
  \/ \E a \in Adapters : AdapterReads(a) \/ Decides(a)
  \/ Worker \/ Timer \/ TornDown
  \/ \E text \in Text : Edit(text)
  \/ \E p \in Pid : Exits(p) \/ \E app \in App, born \in 1..MaxBorn : Launched(p, app, born)

Spec == Init /\ [][Next]_vars
FairSpec ==
  Spec /\ WF_vars(Worker) /\ WF_vars(Timer) /\ WF_vars(TornDown)
       /\ WF_vars(At("down") /\ Beat(FALSE))

-----------------------------------------------------------------------------
\* Every variable keeps its type, and a record is of the process it names.
TypeOK ==
  /\ agent.life \in 0..MaxLives /\ agent.tries \in 0..MaxTries
  /\ policy.text \in Text \cup {Torn} /\ (policy.text = Torn => policy.generation % 2 = 1)
  /\ \A r \in Reader : reader[r].tries \in 0..MaxTries
  /\ host.pc \in {"down", "top", "scan", "opening", "attaching"}
  /\ \A p \in Pid : records[p].attempts \in 0..MaxTries

\* Who goes by the exclusions goes by ones that were published, as a whole, since it
\* found the policy alive (unless another agent has started since).
Whole(r) == reader[r].pc = "read" => reader[r].got \in reader[r].seen \cup {All}
WholePolicy == \A r \in Reader : reader[r].life = agent.life => Whole(r)

\* The host attaches to no process that the exclusions it has read exclude, though
\* a pid may belong to another process than the one that was looked at.
OnlyIncluded == HostAt("attaching") => ~Excluding(host.pid)

\* What a record says of a process is not what became of another one with its pid.
StatusTrue ==
  \A p \in Pid :
    process[p].live /\ records[p].born = process[p].born /\ records[p].state = "attached"
      => process[p].adapter = "attached"

\* A host ends when there is no agent, whether that has quit or crashed.
HostEnds == At("down") ~> (~At("down") \/ HostAt("down"))
=============================================================================
