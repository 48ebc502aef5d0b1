--------------------------- MODULE StandbyLaunch ---------------------------
(***************************************************************************)
(* The warm-launch mailbox of the startup payload: one standby process,    *)
(* started ahead of need, waits in AwaitRequest and becomes the window of  *)
(* a later launch.  Callers hand their launch over in Deliver, windows in  *)
(* use replace a missing standby in SpawnStandby, and all of them share    *)
(* one mapping guarded by one named mutex.                                 *)
(*                                                                         *)
(* A critical section is one action.  The mutex gives up after 50 ms or    *)
(* 1 s, and a process that dies inside a section hands it on without a     *)
(* trace: the Cut actions leave the stores it had made.                    *)
(*                                                                         *)
(* Next does not use SettleLeaving, CheckNothing, TakeUnasked, ShowOnly    *)
(* and VacantIfAged (wrong variants of the definitions they precede, to    *)
(* test properties).                                                       *)
(***************************************************************************)

CONSTANTS
  Caller,      \* launches, each of which calls Deliver once
  Standby,     \* identifiers of the processes SpawnStandby creates
  Spawner,     \* windows in use
  Nobody,      \* no process: pid 0
  NoRequest,
  Ticket,      \* times at which a standby is started
  Birth,       \* creation times of processes
  Never,       \* neither of the two: the zero of a time field
  Timeouts     \* can a wait for the mutex time out?

ASSUME CallerAssumption == NoRequest \notin Caller
ASSUME StandbyAssumption == Nobody \notin Standby
ASSUME TimeAssumption == Never \notin Ticket \cup Birth
ASSUME TimeoutsAssumption == Timeouts \in BOOLEAN

VARIABLES
  mail,      \* struct Shared, and whether 10 s have passed since .started
  event,     \* the auto-reset request event
  standby,   \* of each process identifier: the process that has it
  caller,    \* of each launch: its place in Deliver, the process it waits for
  spawner,   \* of each window: its place in SpawnStandby
  adopted,   \* auxiliary: launches a standby has taken
  excused    \* auxiliary: launches refused for want of memory, or unconfirmed

vars == <<mail, event, standby, caller, spawner, adopted, excused>>

NoProcess == [pc |-> "none", birth |-> Never, ticket |-> Never, request |-> NoRequest]
Outside == [pc |-> "outside", pid |-> Nobody]
Idle == [pc |-> "idle", ticket |-> Never, child |-> Nobody, birth |-> Never]

Init ==
  /\ mail = [state |-> "Empty", pid |-> Nobody, birth |-> Never, started |-> Never,
             aged |-> FALSE, request |-> NoRequest]
  /\ event = FALSE
  /\ standby = [s \in Standby |-> NoProcess]
  /\ caller = [c \in Caller |-> Outside]
  /\ spawner = [w \in Spawner |-> Idle]
  /\ adopted = {} /\ excused = {}

-----------------------------------------------------------------------------
Alive(s) == s \in Standby /\ standby[s].pc # "none"
\* Owner: the identifier in the mailbox still belongs to the process that wrote it.
Owned == Alive(mail.pid) /\ standby[mail.pid].birth = mail.birth

\* A handle keeps its process's identifier from being given away.
Referenced(s) ==
  \/ \E c \in Caller : caller[c].pc \in {"waiting", "checking"} /\ caller[c].pid = s
  \/ \E w \in Spawner : spawner[w].child = s

Become(s, pc) == standby' = [standby EXCEPT ![s].pc = pc]
Exit(s) == Become(s, "leaving")
Emptied == [mail EXCEPT !.state = "Empty", !.pid = Nobody]

-----------------------------------------------------------------------------
(***************************************************************************)
(* Deliver.  A caller that is refused opens its window itself ("own"); one *)
(* that is accepted exits, or tells its creator the standby's process is   *)
(* the one it asked for ("handed").                                        *)
(***************************************************************************)
Outcome(c, pc) == caller' = [caller EXCEPT ![c] = [Outside EXCEPT !.pc = pc]]
Decline(c) == Outcome(c, "own")

Deliver(c) ==
  /\ caller[c].pc = "outside"
  /\ \/ /\ Timeouts \/ mail.state # "Ready" \/ Owned \* it may not fit the mailbox
        /\ Decline(c) /\ UNCHANGED <<mail, event>>
     \/ /\ mail.state = "Ready" /\ ~Owned
        /\ mail' = Emptied /\ Decline(c) /\ UNCHANGED event
     \/ /\ mail.state = "Ready" /\ Owned \* its current directory cannot be had
        /\ mail' = [mail EXCEPT !.request = c] /\ Decline(c) /\ UNCHANGED event
     \/ /\ mail.state = "Ready" /\ Owned
        /\ mail' = [mail EXCEPT !.state = "Pending", !.request = c]
        /\ event' = TRUE
        /\ caller' = [caller EXCEPT ![c] = [pc |-> "waiting", pid |-> mail.pid]]
  /\ UNCHANGED <<standby, spawner, adopted, excused>>

(***************************************************************************)
(* The end of Deliver, after the acknowledgement or 200 ms: whoever still  *)
(* finds the request unanswered takes it back, and an answer frees the     *)
(* mailbox.  The acknowledgement itself only shortens the wait.            *)
(***************************************************************************)
StillMine(c) == mail.request = c /\ mail.pid = caller[c].pid

SettleLeaving(c) ==
  /\ caller[c].pc = "waiting"
  /\ IF StillMine(c) /\ mail.state \in {"Pending", "Ready"}
     THEN Decline(c) /\ UNCHANGED mail
     ELSE /\ mail' = IF StillMine(c) /\ mail.state = "Taken" THEN Emptied ELSE mail
          /\ caller' = [caller EXCEPT ![c].pc = "checking"]
  /\ UNCHANGED <<event, standby, spawner, adopted, excused>>

Settle(c) ==
  /\ caller[c].pc = "waiting"
  /\ IF StillMine(c) /\ mail.state \in {"Pending", "Ready"}
     THEN mail' = [mail EXCEPT !.state = "Ready"] /\ Decline(c)
     ELSE /\ mail' = IF StillMine(c) /\ mail.state = "Taken" THEN Emptied ELSE mail
          /\ caller' = [caller EXCEPT ![c].pc = "checking"]
  /\ UNCHANGED <<event, standby, spawner, adopted, excused>>

\* The mutex is not to be had for a second: the launch counts as accepted.
SettleUnseen(c) ==
  /\ Timeouts /\ caller[c].pc = "waiting"
  /\ caller' = [caller EXCEPT ![c].pc = "checking"]
  /\ excused' = excused \cup {c}
  /\ UNCHANGED <<mail, event, standby, spawner, adopted>>

CheckNothing(c) ==
  /\ caller[c].pc = "checking"
  /\ Outcome(c, "handed")
  /\ UNCHANGED <<mail, event, standby, spawner, adopted, excused>>

CheckProcess(c) ==
  /\ caller[c].pc = "checking"
  /\ Outcome(c, IF Alive(caller[c].pid) THEN "handed" ELSE "own")
  /\ UNCHANGED <<mail, event, standby, spawner, adopted, excused>>

\* The caller's process ends: before, within or after Deliver's sections.
CallerDies(c) ==
  /\ caller[c].pc \in {"outside", "waiting", "checking"}
  /\ Outcome(c, "dead")
  /\ \/ UNCHANGED <<mail, event>>
     \/ /\ caller[c].pc = "outside" /\ mail.state = "Ready" /\ Owned
        /\ \E state \in {"Ready", "Pending"} : mail' = [mail EXCEPT !.state = state, !.request = c]
        /\ UNCHANGED event
     \/ /\ \/ caller[c].pc = "outside" /\ mail.state = "Ready" /\ ~Owned
           \/ caller[c].pc = "waiting" /\ StillMine(c) /\ mail.state = "Taken"
        /\ mail' = [mail EXCEPT !.state = "Empty"] /\ UNCHANGED event
  /\ UNCHANGED <<standby, spawner, adopted, excused>>

-----------------------------------------------------------------------------
(***************************************************************************)
(* AwaitRequest, from the standby's start to the launch it adopts.         *)
(***************************************************************************)
CanClaim(s) ==
  mail.started = standby[s].ticket /\ mail.state = "Starting" /\ mail.pid \in {Nobody, s}

Claim(s) ==
  /\ standby[s].pc = "created"
  /\ \/ /\ CanClaim(s)
        /\ mail' = [mail EXCEPT !.pid = s, !.birth = standby[s].birth]
        /\ standby' = [standby EXCEPT ![s].pc = "claimed", ![s].ticket = Never]
     \/ ~CanClaim(s) /\ Exit(s) /\ UNCHANGED mail
     \/ Timeouts /\ Exit(s) /\ UNCHANGED mail
  /\ UNCHANGED <<event, caller, spawner, adopted, excused>>

\* Memory is short: the mailbox is given back if it can be had in 50 ms.
StepAside(s) ==
  /\ standby[s].pc = "claimed" /\ Exit(s)
  /\ \/ mail' = IF mail.pid = s THEN [mail EXCEPT !.state = "Empty"] ELSE mail
     \/ Timeouts /\ UNCHANGED mail
  /\ UNCHANGED <<event, caller, spawner, adopted, excused>>

\* After Preload.
Prepare(s) ==
  /\ standby[s].pc = "claimed"
  /\ \/ /\ mail.pid = s /\ mail.state = "Starting"
        /\ mail' = [mail EXCEPT !.state = "Ready"] /\ Become(s, "waiting")
     \/ (mail.pid # s \/ mail.state # "Starting") /\ Exit(s) /\ UNCHANGED mail
     \/ Timeouts /\ Exit(s) /\ UNCHANGED mail
  /\ UNCHANGED <<event, caller, spawner, adopted, excused>>

\* The wait ends with a request, with the deadline or for want of memory.
Wake(s) ==
  /\ standby[s].pc = "waiting"
  /\ \/ event /\ event' = FALSE /\ Become(s, "asked")
     \/ Become(s, "expired") /\ UNCHANGED event
  /\ UNCHANGED <<mail, caller, spawner, adopted, excused>>

Awake(s) == standby[s].pc \in {"asked", "expired"}

TakeUnasked(s) ==
  /\ Awake(s) /\ mail.pid = s /\ mail.state \in {"Pending", "Ready"}
  /\ mail' = [mail EXCEPT !.state = "Taken"]
  /\ standby' = [standby EXCEPT ![s].pc = "adopted", ![s].request = mail.request]
  /\ adopted' = adopted \cup {mail.request}
  /\ UNCHANGED <<event, caller, spawner, excused>>

Take(s) ==
  /\ Awake(s) /\ mail.pid = s /\ mail.state = "Pending"
  /\ mail' = [mail EXCEPT !.state = "Taken"]
  /\ standby' = [standby EXCEPT ![s].pc = "adopted", ![s].request = mail.request]
  /\ adopted' = adopted \cup {mail.request}
  /\ UNCHANGED <<event, caller, spawner, excused>>

\* No memory for a copy of the request: it goes back, and if memory is short
\* altogether, or the standby's time is up, so does the mailbox.
PutBack(s) ==
  /\ Awake(s) /\ mail.pid = s /\ mail.state = "Pending"
  /\ excused' = excused \cup {mail.request}
  /\ \/ standby[s].pc = "asked" /\ mail' = [mail EXCEPT !.state = "Ready"] /\ Become(s, "waiting")
     \/ mail' = Emptied /\ Exit(s)
  /\ UNCHANGED <<event, caller, spawner, adopted>>

\* Awake without a request to take.
Rest(s) ==
  /\ Awake(s)
  /\ \/ /\ mail.pid = s /\ mail.state # "Pending" /\ standby[s].pc = "asked"
        /\ Become(s, "waiting") /\ UNCHANGED mail
     \/ mail.pid = s /\ mail.state # "Pending" /\ mail' = Emptied /\ Exit(s)
     \/ mail.pid # s /\ Exit(s) /\ UNCHANGED mail
     \/ Timeouts /\ Exit(s) /\ UNCHANGED mail
  /\ UNCHANGED <<event, caller, spawner, adopted, excused>>

\* StartupFrame, the first time the adopted launch has its window.
ShowOnly(s) ==
  /\ standby[s].pc = "adopted" /\ Become(s, "shown")
  /\ UNCHANGED <<mail, event, caller, spawner, adopted, excused>>

Show(s) ==
  /\ standby[s].pc = "adopted" /\ Become(s, "shown")
  /\ \/ mail' = IF mail.state = "Taken" /\ mail.pid = s THEN Emptied ELSE mail
     \/ Timeouts /\ UNCHANGED mail
  /\ UNCHANGED <<event, caller, spawner, adopted, excused>>

\* The process ends: after leaving AwaitRequest, when its window is closed, or
\* by a failure at any point, within its sections too.
Ends(s) == Alive(s) /\ standby' = [standby EXCEPT ![s] = NoProcess]

Leave(s) ==
  /\ standby[s].pc = "leaving" /\ Ends(s)
  /\ UNCHANGED <<mail, event, caller, spawner, adopted, excused>>

StandbyDies(s) ==
  /\ Ends(s)
  /\ \/ UNCHANGED mail
     \/ standby[s].pc = "created" /\ CanClaim(s) /\ mail' = [mail EXCEPT !.pid = s]
     \/ Awake(s) /\ mail.pid = s /\ mail.state = "Pending" /\ mail' = [mail EXCEPT !.state = "Taking"]
     \/ /\ mail.pid = s
        /\ \/ Awake(s) /\ mail.state # "Pending"
           \/ standby[s].pc = "adopted" /\ mail.state = "Taken"
        /\ mail' = [mail EXCEPT !.state = "Empty"]
  /\ UNCHANGED <<event, caller, spawner, adopted, excused>>

-----------------------------------------------------------------------------
(***************************************************************************)
(* SpawnStandby: a mailbox without a living owner is taken over after 10 s *)
(* and a new process is started with the time as its ticket.               *)
(***************************************************************************)
VacantIfAged == mail.state = "Empty" \/ mail.aged
Vacant == mail.state = "Empty" \/ (~Owned /\ mail.aged)

Fresh(t) ==
  /\ \A s \in Standby : standby[s].ticket # t
  /\ \A w \in Spawner : spawner[w].ticket # t

Spawn(w) ==
  /\ spawner[w].pc = "idle" /\ Vacant
  /\ \E now \in Ticket \ {mail.started} :
       /\ Fresh(now)
       /\ mail' = [mail EXCEPT !.state = "Starting", !.pid = Nobody, !.started = now, !.aged = FALSE]
       /\ spawner' = [spawner EXCEPT ![w] = [Idle EXCEPT !.pc = "creating", !.ticket = now]]
  /\ UNCHANGED <<event, standby, caller, adopted, excused>>

\* CreateProcess: a new process, whose identifier may have been another's.
Create(w) ==
  /\ spawner[w].pc = "creating"
  /\ \E s \in Standby, birth \in Birth \ {mail.birth} :
       /\ ~Alive(s) /\ ~Referenced(s)
       /\ standby' = [standby EXCEPT ![s] =
            [NoProcess EXCEPT !.pc = "created", !.birth = birth, !.ticket = spawner[w].ticket]]
       /\ spawner' = [spawner EXCEPT ![w].pc = "created", ![w].child = s, ![w].birth = birth]
  /\ UNCHANGED <<mail, event, caller, adopted, excused>>

CreateFails(w) ==
  /\ spawner[w].pc = "creating"
  /\ spawner' = [spawner EXCEPT ![w].pc = "created"]
  /\ UNCHANGED <<mail, event, standby, caller, adopted, excused>>

StillStarting(w) ==
  mail.state = "Starting" /\ mail.pid = Nobody /\ mail.started = spawner[w].ticket

\* SpawnStandby's second section.
Register(w) ==
  LET child == spawner[w].child IN
  /\ spawner[w].pc = "created"
  /\ \/ StillStarting(w) /\ child # Nobody
        /\ mail' = [mail EXCEPT !.pid = child, !.birth = spawner[w].birth]
     \/ StillStarting(w) /\ child = Nobody /\ mail' = [mail EXCEPT !.state = "Empty"]
     \/ (~StillStarting(w) \/ Timeouts) /\ UNCHANGED mail
  /\ spawner' = [spawner EXCEPT ![w] = Idle]
  /\ UNCHANGED <<event, standby, caller, adopted, excused>>

\* The window is closed, perhaps within a section.
SpawnerDies(w) ==
  /\ \/ spawner[w].pc # "idle" /\ UNCHANGED mail
     \/ /\ spawner[w].pc = "idle" /\ Vacant
        /\ \E pid \in {mail.pid, Nobody} : mail' = [mail EXCEPT !.state = "Starting", !.pid = pid]
     \/ /\ spawner[w].pc = "created" /\ StillStarting(w) /\ spawner[w].child # Nobody
        /\ mail' = [mail EXCEPT !.pid = spawner[w].child]
  /\ spawner' = [spawner EXCEPT ![w] = Idle]
  /\ UNCHANGED <<event, standby, caller, adopted, excused>>

\* Ten seconds have passed since .started.
Age ==
  /\ ~mail.aged /\ mail' = [mail EXCEPT !.aged = TRUE]
  /\ UNCHANGED <<event, standby, caller, spawner, adopted, excused>>

-----------------------------------------------------------------------------
StandbyStep(s) ==
  Claim(s) \/ StepAside(s) \/ Prepare(s) \/ Wake(s) \/ Take(s) \/ PutBack(s) \/ Rest(s) \/ Show(s)
  \/ Leave(s)
SpawnerStep(w) == Spawn(w) \/ Create(w) \/ CreateFails(w) \/ Register(w)
CallerStep(c) == Settle(c) \/ SettleUnseen(c) \/ CheckProcess(c)

Next ==
  \/ \E c \in Caller : Deliver(c) \/ CallerStep(c) \/ CallerDies(c)
  \/ \E s \in Standby : StandbyStep(s) \/ StandbyDies(s)
  \/ \E w \in Spawner : SpawnerStep(w) \/ SpawnerDies(w)
  \/ Age

Spec == Init /\ [][Next]_vars

(***************************************************************************)
(* Fairness: the threads of living processes run, their waits are bounded, *)
(* an adopted launch draws its first frame, time passes, and some window   *)
(* stays in use, whose timer asks for a standby again and again.           *)
(***************************************************************************)
Fairness ==
  /\ WF_vars(Age)
  /\ \A c \in Caller : WF_vars(CallerStep(c))
  /\ \A s \in Standby : WF_vars(StandbyStep(s))
  /\ \A w \in Spawner : WF_vars(SpawnerStep(w))

FairSpec == Spec /\ Fairness

-----------------------------------------------------------------------------
\* Every variable keeps its type.
TypeOK ==
  /\ mail \in [state : {"Empty", "Starting", "Ready", "Pending", "Taking", "Taken"},
               pid : Standby \cup {Nobody}, birth : Birth \cup {Never},
               started : Ticket \cup {Never}, aged : BOOLEAN, request : Caller \cup {NoRequest}]
  /\ event \in BOOLEAN
  /\ standby \in [Standby ->
       [pc : {"none", "created", "claimed", "waiting", "asked", "expired", "adopted", "shown", "leaving"},
        birth : Birth \cup {Never}, ticket : Ticket \cup {Never}, request : Caller \cup {NoRequest}]]
  /\ caller \in [Caller ->
       [pc : {"outside", "waiting", "checking", "handed", "own", "dead"}, pid : Standby \cup {Nobody}]]
  /\ spawner \in [Spawner ->
       [pc : {"idle", "creating", "created"}, ticket : Ticket \cup {Never},
        child : Standby \cup {Nobody}, birth : Birth \cup {Never}]]
  /\ adopted \subseteq Caller /\ excused \subseteq Caller

(***************************************************************************)
(* A launch that its caller shows itself is shown nowhere else, then or    *)
(* later: the request it took back is never adopted, and of an adopter     *)
(* that it gave up on nothing is left.  AwaitRequest's comment promises    *)
(* that a cancelled request can never later be displayed.                  *)
(***************************************************************************)
OneWindowPerLaunch ==
  \A c \in Caller : caller[c].pc = "own" =>
    \A s \in Standby : Alive(s) => standby[s].request # c

(***************************************************************************)
(* A launch that counts as handed over was taken by a standby, and is not  *)
(* merely missing from the mailbox.  It fails for the requests in excused: *)
(* put back for want of memory and then overtaken by the standby's end or  *)
(* another request, or never confirmed because the mutex was not to be had.*)
(***************************************************************************)
HandedMeansAdopted ==
  \A c \in Caller : caller[c].pc = "handed" => c \in adopted \cup excused

(***************************************************************************)
(* A standby that waits is the process the mailbox names, in a state in    *)
(* which launches reach it and nobody starts another.  So there is at most *)
(* one, the limit the patch's manifest states, however late processes      *)
(* start, identifiers are reused or windows die while starting one.        *)
(***************************************************************************)
Waits(s) == standby[s].pc \in {"waiting", "asked", "expired"}
StandbyReachable ==
  \A s \in Standby : Waits(s) =>
    mail.pid = s /\ mail.birth = standby[s].birth /\ mail.state \in {"Ready", "Pending"}

(***************************************************************************)
(* Once the adopted launch has its window and its requester is gone, the   *)
(* mailbox no longer holds the request: StartupFrame recovers it even if   *)
(* the requester exits before it sees the acknowledgement.                 *)
(***************************************************************************)
AdoptedMailboxRecovered ==
  \A s \in Standby :
    standby[s].pc = "shown" /\ mail.pid = s /\ mail.state = "Taken" =>
      caller[mail.request].pc = "waiting"

(***************************************************************************)
(* No request occupies the mailbox for ever, whoever dies: it is answered, *)
(* taken back, or swept away with its dead standby after ten seconds.      *)
(***************************************************************************)
Occupied == mail.state \in {"Pending", "Taking", "Taken"}
MailboxFreed == Occupied ~> ~Occupied
=============================================================================
