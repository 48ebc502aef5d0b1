------------------------ MODULE StandbyLaunchProofs ------------------------
(***************************************************************************)
(* Proofs about StandbyLaunch, for every number of launches, windows and   *)
(* process identifiers, however the waits for the mutex time out and       *)
(* wherever a process dies.                                                *)
(***************************************************************************)
EXTENDS StandbyLaunch, TLAPS

-----------------------------------------------------------------------------
(* Types, as one set per variable. *)

Phase == {"none", "created", "claimed", "waiting", "asked", "expired", "adopted", "shown", "leaving"}
Place == {"outside", "waiting", "checking", "handed", "own", "dead"}
MailState == {"Empty", "Starting", "Ready", "Pending", "Taking", "Taken"}
Mail ==
  [state : MailState, pid : Standby \cup {Nobody}, birth : Birth \cup {Never},
   started : Ticket \cup {Never}, aged : BOOLEAN, request : Caller \cup {NoRequest}]
Waiter == [pc : Phase, birth : Birth \cup {Never}, ticket : Ticket \cup {Never},
           request : Caller \cup {NoRequest}]
Launched == [pc : Place, pid : Standby \cup {Nobody}]
Spawning == [pc : {"idle", "creating", "created"}, ticket : Ticket \cup {Never},
             child : Standby \cup {Nobody}, birth : Birth \cup {Never}]

LEMMA Types ==
  TypeOK <=> /\ mail \in Mail /\ event \in BOOLEAN /\ standby \in [Standby -> Waiter]
             /\ caller \in [Caller -> Launched] /\ spawner \in [Spawner -> Spawning]
             /\ adopted \subseteq Caller /\ excused \subseteq Caller
BY DEF TypeOK, Mail, MailState, Waiter, Phase, Launched, Place, Spawning

-----------------------------------------------------------------------------
(***************************************************************************)
(* What a step does to the mailbox, to one process and to one launch.      *)
(***************************************************************************)
MailIs(state, pid, birth, request) ==
  /\ mail' \in Mail /\ mail'.state = state /\ mail'.pid = pid
  /\ mail'.birth = birth /\ mail'.request = request
MailMoves(state) == MailIs(state, mail.pid, mail.birth, mail.request)
MailStays == MailMoves(mail.state)
MailFreed == MailIs("Empty", Nobody, mail.birth, mail.request)

Moves(s, pc) ==
  /\ standby' \in [Standby -> Waiter]
  /\ standby'[s].pc = pc /\ standby'[s].birth = standby[s].birth
  /\ standby'[s].request = standby[s].request
  /\ \A r \in Standby : r # s => standby'[r] = standby[r]

Goes(c, pc, pid) ==
  /\ caller' \in [Caller -> Launched] /\ caller'[c].pc = pc /\ caller'[c].pid = pid
  /\ \A d \in Caller : d # c => caller'[d] = caller[d]

LEMMA MailKinds ==
  ASSUME mail \in Mail
  PROVE  /\ mail' = mail => MailStays
         /\ \A state \in MailState : mail' = [mail EXCEPT !.state = state] => MailMoves(state)
         /\ mail' = Emptied => MailFreed
         /\ \A pid \in Standby \cup {Nobody} :
              mail' = [mail EXCEPT !.pid = pid] => MailIs(mail.state, pid, mail.birth, mail.request)
BY DEF MailIs, MailMoves, MailStays, MailFreed, Emptied, Mail, MailState

LEMMA BecomeMoves ==
  ASSUME standby \in [Standby -> Waiter], NEW s \in Standby, NEW pc \in Phase, Become(s, pc)
  PROVE  Moves(s, pc)
BY DEF Become, Waiter, Moves

LEMMA OutcomeGoes ==
  ASSUME caller \in [Caller -> Launched], NEW c \in Caller, NEW pc \in Place, Outcome(c, pc)
  PROVE  Goes(c, pc, Nobody)
BY DEF Outcome, Outside, Launched, Goes

-----------------------------------------------------------------------------
(* The steps of a caller. *)

LEMMA DeliverDoes ==
  ASSUME TypeOK, NEW c \in Caller, Deliver(c)
  PROVE  /\ caller[c].pc = "outside" /\ UNCHANGED <<standby, spawner, adopted, excused>>
         /\ event' \in BOOLEAN
         /\ \/ Goes(c, "own", Nobody) /\ MailStays
            \/ Goes(c, "own", Nobody) /\ MailFreed /\ mail.state = "Ready" /\ ~Owned
            \/ /\ mail.state = "Ready" /\ Owned
               /\ \/ Goes(c, "own", Nobody) /\ MailIs("Ready", mail.pid, mail.birth, c)
                  \/ Goes(c, "waiting", mail.pid) /\ MailIs("Pending", mail.pid, mail.birth, c)
<1>a. mail \in Mail /\ caller \in [Caller -> Launched] /\ event \in BOOLEAN
  BY Types
<1>1. caller[c].pc = "outside" /\ UNCHANGED <<standby, spawner, adopted, excused>>
  BY DEF Deliver
<1>2. ASSUME Decline(c) PROVE Goes(c, "own", Nobody)
  BY <1>a, <1>2, OutcomeGoes DEF Decline, Place
<1>3. CASE Decline(c) /\ UNCHANGED event /\ (mail' = mail \/ (mail.state = "Ready" /\ ~Owned /\ mail' = Emptied))
  BY <1>a, <1>1, <1>2, <1>3, MailKinds
<1>4. CASE mail.state = "Ready" /\ Owned /\ mail' = [mail EXCEPT !.request = c] /\ Decline(c) /\ UNCHANGED event
  <2>1. MailIs("Ready", mail.pid, mail.birth, c)
    BY <1>a, <1>4 DEF MailIs, Mail
  <2>2. QED
    BY <1>a, <1>1, <1>2, <1>4, <2>1
<1>5. CASE /\ mail.state = "Ready" /\ Owned /\ event' = TRUE
           /\ mail' = [mail EXCEPT !.state = "Pending", !.request = c]
           /\ caller' = [caller EXCEPT ![c] = [pc |-> "waiting", pid |-> mail.pid]]
  <2>1. [pc |-> "waiting", pid |-> mail.pid] \in Launched
    BY <1>a DEF Mail, Launched, Place
  <2>2. Goes(c, "waiting", mail.pid)
    BY <1>a, <1>5, <2>1 DEF Goes
  <2>3. MailIs("Pending", mail.pid, mail.birth, c)
    BY <1>a, <1>5 DEF MailIs, Mail, MailState
  <2>4. QED
    BY <1>1, <1>5, <2>2, <2>3
<1>6. QED
  BY <1>3, <1>4, <1>5 DEF Deliver

LEMMA CallerStepDoes ==
  ASSUME TypeOK, NEW c \in Caller, CallerStep(c)
  PROVE  /\ UNCHANGED <<event, standby, spawner, adopted>>
         /\ \/ /\ caller[c].pc = "waiting" /\ UNCHANGED excused
               /\ StillMine(c) /\ mail.state \in {"Pending", "Ready"}
               /\ Goes(c, "own", Nobody) /\ MailMoves("Ready")
            \/ /\ caller[c].pc = "waiting" /\ UNCHANGED excused
               /\ ~(StillMine(c) /\ mail.state \in {"Pending", "Ready"})
               /\ Goes(c, "checking", caller[c].pid)
               /\ MailStays \/ (mail.state = "Taken" /\ MailFreed)
            \/ /\ caller[c].pc = "waiting" /\ excused' = excused \cup {c}
               /\ Goes(c, "checking", caller[c].pid) /\ MailStays
            \/ /\ caller[c].pc = "checking" /\ UNCHANGED excused /\ MailStays
               /\ Goes(c, IF Alive(caller[c].pid) THEN "handed" ELSE "own", Nobody)
<1>a. mail \in Mail /\ caller \in [Caller -> Launched]
  BY Types
<1>b. ASSUME caller' = [caller EXCEPT ![c].pc = "checking"] PROVE Goes(c, "checking", caller[c].pid)
  BY <1>a, <1>b DEF Goes, Launched, Place
<1>1. CASE Settle(c)
  <2>1. CASE StillMine(c) /\ mail.state \in {"Pending", "Ready"}
    <3>1. mail' = [mail EXCEPT !.state = "Ready"] /\ Outcome(c, "own")
      BY <1>1, <2>1 DEF Settle, Decline
    <3>2. Goes(c, "own", Nobody) /\ MailMoves("Ready")
      BY <1>a, <3>1, MailKinds, OutcomeGoes DEF Place, MailState
    <3>3. QED
      BY <1>1, <2>1, <3>2 DEF Settle
  <2>2. CASE ~(StillMine(c) /\ mail.state \in {"Pending", "Ready"})
    <3>1. /\ mail' = mail \/ (mail.state = "Taken" /\ mail' = Emptied)
          /\ caller' = [caller EXCEPT ![c].pc = "checking"]
      BY <1>1, <2>2 DEF Settle
    <3>2. MailStays \/ (mail.state = "Taken" /\ MailFreed)
      BY <1>a, <3>1, MailKinds
    <3>3. QED
      BY <1>1, <1>b, <2>2, <3>1, <3>2 DEF Settle
  <2>3. QED
    BY <2>1, <2>2
<1>2. CASE SettleUnseen(c)
  BY <1>a, <1>b, <1>2, MailKinds DEF SettleUnseen
<1>3. CASE CheckProcess(c)
  <2>1. Goes(c, IF Alive(caller[c].pid) THEN "handed" ELSE "own", Nobody)
    BY <1>a, <1>3, OutcomeGoes DEF CheckProcess, Place
  <2>2. QED
    BY <1>a, <1>3, <2>1, MailKinds DEF CheckProcess
<1>4. QED
  BY <1>1, <1>2, <1>3 DEF CallerStep

LEMMA CallerDiesDoes ==
  ASSUME TypeOK, NEW c \in Caller, CallerDies(c)
  PROVE  /\ UNCHANGED <<standby, spawner, adopted, excused>> /\ event' \in BOOLEAN
         /\ caller[c].pc \in {"outside", "waiting", "checking"} /\ Goes(c, "dead", Nobody)
         /\ \/ MailStays
            \/ /\ mail.state = "Ready" /\ Owned /\ caller[c].pc = "outside"
               /\ \E state \in {"Ready", "Pending"} : MailIs(state, mail.pid, mail.birth, c)
            \/ (mail.state = "Taken" \/ (mail.state = "Ready" /\ ~Owned)) /\ MailMoves("Empty")
<1>a. mail \in Mail /\ caller \in [Caller -> Launched] /\ event \in BOOLEAN
  BY Types
<1>1. /\ UNCHANGED <<standby, spawner, adopted, excused>> /\ event' \in BOOLEAN
      /\ caller[c].pc \in {"outside", "waiting", "checking"} /\ Goes(c, "dead", Nobody)
  BY <1>a, OutcomeGoes DEF CallerDies, Place
<1>2. CASE mail' = mail
  BY <1>a, <1>1, <1>2, MailKinds
<1>3. ASSUME NEW state \in {"Ready", "Pending"}, mail' = [mail EXCEPT !.state = state, !.request = c]
      PROVE  MailIs(state, mail.pid, mail.birth, c)
  BY <1>a, <1>3 DEF MailIs, Mail, MailState
<1>4. ASSUME mail' = [mail EXCEPT !.state = "Empty"] PROVE MailMoves("Empty")
  BY <1>a, <1>4, MailKinds DEF MailState
<1>5. QED
  BY <1>1, <1>2, <1>3, <1>4 DEF CallerDies

-----------------------------------------------------------------------------
(* The steps of a standby. *)

Gone(s) ==
  /\ standby' \in [Standby -> Waiter]
  /\ standby'[s].pc = "none" /\ standby'[s].request = NoRequest
  /\ \A r \in Standby : r # s => standby'[r] = standby[r]

Claims(s) ==
  /\ standby[s].pc = "created" /\ Moves(s, "claimed")
  /\ mail.state = "Starting" /\ mail.pid \in {Nobody, s}
  /\ MailIs("Starting", s, standby[s].birth, mail.request)

Retires(s) ==
  /\ standby[s].pc \in {"created", "claimed", "asked", "expired"} /\ Moves(s, "leaving")
  /\ \/ MailStays
     \/ standby[s].pc = "claimed" /\ mail.pid = s /\ MailMoves("Empty")
     \/ mail.pid = s /\ mail.state # "Pending" /\ MailFreed

Readies(s) ==
  /\ standby[s].pc = "claimed" /\ Moves(s, "waiting")
  /\ mail.pid = s /\ mail.state = "Starting" /\ MailMoves("Ready")

Keeps(s) ==
  /\ Waits(s) /\ MailStays /\ \E pc \in {"waiting", "asked", "expired"} : Moves(s, pc)

Takes(s) ==
  /\ Waits(s) /\ mail.pid = s /\ mail.state = "Pending" /\ MailMoves("Taken")
  /\ standby' \in [Standby -> Waiter]
  /\ standby'[s].pc = "adopted" /\ standby'[s].request = mail.request
  /\ \A r \in Standby : r # s => standby'[r] = standby[r]

PutsBack(s) ==
  /\ Waits(s) /\ mail.pid = s /\ mail.state = "Pending"
  /\ \/ Moves(s, "waiting") /\ MailMoves("Ready")
     \/ Moves(s, "leaving") /\ MailFreed

Shows(s) ==
  /\ standby[s].pc = "adopted" /\ Moves(s, "shown")
  /\ \/ MailStays /\ (Timeouts \/ mail.state # "Taken" \/ mail.pid # s)
     \/ mail.state = "Taken" /\ mail.pid = s /\ MailFreed

LEMMA StandbyStepDoes ==
  ASSUME TypeOK, NEW s \in Standby, StandbyStep(s)
  PROVE  /\ UNCHANGED <<caller, spawner>> /\ event' \in BOOLEAN
         /\ \/ /\ UNCHANGED <<adopted, excused>>
               /\ \/ Claims(s) \/ Retires(s) \/ Readies(s) \/ Keeps(s) \/ Shows(s)
                  \/ standby[s].pc = "leaving" /\ Gone(s) /\ MailStays
            \/ Takes(s) /\ adopted' = adopted \cup {mail.request} /\ UNCHANGED excused
            \/ PutsBack(s) /\ excused' = excused \cup {mail.request} /\ UNCHANGED adopted
<1>a. mail \in Mail /\ standby \in [Standby -> Waiter] /\ event \in BOOLEAN
  BY Types
<1>b. ASSUME NEW pc \in Phase, Become(s, pc) PROVE Moves(s, pc)
  BY <1>a, <1>b, BecomeMoves
<1>c. ASSUME NEW state \in MailState, mail' = [mail EXCEPT !.state = state] PROVE MailMoves(state)
  BY <1>a, <1>c, MailKinds
<1>d. (mail' = mail => MailStays) /\ (mail' = Emptied => MailFreed)
  BY <1>a, MailKinds
<1>e. Exit(s) => Moves(s, "leaving")
  BY <1>b DEF Exit, Phase
<1>1. ASSUME Claim(s) PROVE UNCHANGED <<event, caller, spawner, adopted, excused>> /\ (Claims(s) \/ Retires(s))
  <2>1. CASE /\ CanClaim(s) /\ mail' = [mail EXCEPT !.pid = s, !.birth = standby[s].birth]
             /\ standby' = [standby EXCEPT ![s].pc = "claimed", ![s].ticket = Never]
    <3>1. Moves(s, "claimed")
      BY <1>a, <2>1 DEF Moves, Waiter, Phase
    <3>2. MailIs("Starting", s, standby[s].birth, mail.request) /\ mail.state = "Starting"
      BY <1>a, <2>1 DEF MailIs, Mail, CanClaim, Waiter
    <3>3. QED
      BY <1>1, <2>1, <3>1, <3>2 DEF Claim, Claims, CanClaim
  <2>2. CASE Exit(s) /\ mail' = mail
    BY <1>1, <1>d, <1>e, <2>2 DEF Claim, Retires
  <2>3. QED
    BY <1>1, <2>1, <2>2 DEF Claim
<1>2. ASSUME StepAside(s) PROVE UNCHANGED <<event, caller, spawner, adopted, excused>> /\ Retires(s)
  <2>1. MailStays \/ (mail.pid = s /\ MailMoves("Empty"))
    BY <1>2, <1>c, <1>d DEF StepAside, MailState
  <2>2. QED
    BY <1>2, <1>e, <2>1 DEF StepAside, Retires
<1>3. ASSUME Prepare(s)
      PROVE UNCHANGED <<event, caller, spawner, adopted, excused>> /\ (Readies(s) \/ Retires(s))
  <2>1. CASE mail.pid = s /\ mail.state = "Starting" /\ mail' = [mail EXCEPT !.state = "Ready"] /\ Become(s, "waiting")
    BY <1>3, <1>b, <1>c, <2>1 DEF Prepare, Readies, Phase, MailState
  <2>2. CASE Exit(s) /\ mail' = mail
    BY <1>3, <1>d, <1>e, <2>2 DEF Prepare, Retires
  <2>3. QED
    BY <1>3, <2>1, <2>2 DEF Prepare
<1>4. ASSUME Wake(s)
      PROVE UNCHANGED <<caller, spawner, adopted, excused>> /\ event' \in BOOLEAN /\ Keeps(s)
  BY <1>a, <1>4, <1>b, <1>d DEF Wake, Keeps, Waits, Phase
<1>5. ASSUME Take(s)
      PROVE  /\ UNCHANGED <<event, caller, spawner, excused>> /\ adopted' = adopted \cup {mail.request}
             /\ Takes(s)
  <2>1. MailMoves("Taken")
    BY <1>5, <1>c DEF Take, MailState
  <2>2. /\ standby' \in [Standby -> Waiter]
        /\ standby'[s].pc = "adopted" /\ standby'[s].request = mail.request
        /\ \A r \in Standby : r # s => standby'[r] = standby[r]
    <3>1. PICK request \in Caller \cup {NoRequest} : request = mail.request
      BY <1>a DEF Mail
    <3>2. standby' = [standby EXCEPT ![s].pc = "adopted", ![s].request = request]
      BY <1>5, <3>1 DEF Take
    <3>3. QED
      BY <1>a, <3>1, <3>2 DEF Waiter, Phase
  <2>3. QED
    BY <1>5, <2>1, <2>2 DEF Take, Takes, Awake, Waits
<1>6. ASSUME PutBack(s)
      PROVE  /\ UNCHANGED <<event, caller, spawner, adopted>> /\ excused' = excused \cup {mail.request}
             /\ PutsBack(s)
  <2>1. (Moves(s, "waiting") /\ MailMoves("Ready")) \/ (Moves(s, "leaving") /\ MailFreed)
    BY <1>6, <1>b, <1>c, <1>d, <1>e DEF PutBack, Phase, MailState
  <2>2. QED
    BY <1>6, <2>1 DEF PutBack, PutsBack, Awake, Waits
<1>7. ASSUME Rest(s)
      PROVE UNCHANGED <<event, caller, spawner, adopted, excused>> /\ (Keeps(s) \/ Retires(s))
  <2>1. CASE standby[s].pc = "asked" /\ Become(s, "waiting") /\ mail' = mail
    BY <1>7, <1>b, <1>d, <2>1 DEF Rest, Keeps, Waits, Phase
  <2>2. CASE Exit(s) /\ (mail' = mail \/ (mail.pid = s /\ mail.state # "Pending" /\ mail' = Emptied))
    BY <1>7, <1>d, <1>e, <2>2 DEF Rest, Retires, Awake
  <2>3. QED
    BY <1>7, <2>1, <2>2 DEF Rest
<1>8. ASSUME Show(s) PROVE UNCHANGED <<event, caller, spawner, adopted, excused>> /\ Shows(s)
  <2>1. Moves(s, "shown")
    BY <1>8, <1>b DEF Show, Phase
  <2>2. QED
    BY <1>8, <1>d, <2>1 DEF Show, Shows
<1>9. ASSUME Leave(s)
      PROVE  /\ UNCHANGED <<event, caller, spawner, adopted, excused>>
             /\ standby[s].pc = "leaving" /\ Gone(s) /\ MailStays
  <2>1. Gone(s)
    BY <1>a, <1>9 DEF Leave, Ends, Gone, NoProcess, Waiter, Phase
  <2>2. QED
    BY <1>9, <1>d, <2>1 DEF Leave
<1>10. QED
  BY <1>a, <1>1, <1>2, <1>3, <1>4, <1>5, <1>6, <1>7, <1>8, <1>9 DEF StandbyStep

LEMMA StandbyDiesDoes ==
  ASSUME TypeOK, NEW s \in Standby, StandbyDies(s)
  PROVE  /\ UNCHANGED <<event, caller, spawner, adopted, excused>> /\ Alive(s) /\ Gone(s)
         /\ \/ MailStays
            \/ /\ mail.state = "Starting" /\ mail.pid \in {Nobody, s}
               /\ MailIs("Starting", s, mail.birth, mail.request)
            \/ mail.pid = s /\ mail.state = "Pending" /\ MailMoves("Taking")
            \/ mail.pid = s /\ MailMoves("Empty")
<1>a. mail \in Mail /\ standby \in [Standby -> Waiter]
  BY Types
<1>1. UNCHANGED <<event, caller, spawner, adopted, excused>> /\ Alive(s) /\ Gone(s)
  BY <1>a DEF StandbyDies, Ends, Gone, NoProcess, Waiter, Phase
<1>2. CASE mail' = mail
  BY <1>a, <1>1, <1>2, MailKinds
<1>3. CASE CanClaim(s) /\ mail' = [mail EXCEPT !.pid = s]
  <2>1. MailIs(mail.state, s, mail.birth, mail.request)
    BY <1>a, <1>3, MailKinds
  <2>2. QED
    BY <1>1, <1>3, <2>1 DEF CanClaim
<1>4. ASSUME NEW state \in MailState, mail' = [mail EXCEPT !.state = state] PROVE MailMoves(state)
  BY <1>a, <1>4, MailKinds
<1>5. QED
  BY <1>1, <1>2, <1>3, <1>4 DEF StandbyDies, MailState

-----------------------------------------------------------------------------
(* The steps of a window in use. *)

Created(s) ==
  /\ ~Alive(s) /\ \A c \in Caller : caller[c].pc \in {"waiting", "checking"} => caller[c].pid # s
  /\ standby' \in [Standby -> Waiter]
  /\ standby'[s].pc = "created" /\ standby'[s].request = NoRequest
  /\ \A r \in Standby : r # s => standby'[r] = standby[r]

LEMMA SpawnerDoes ==
  ASSUME TypeOK, NEW w \in Spawner, SpawnerStep(w) \/ SpawnerDies(w)
  PROVE  /\ UNCHANGED <<event, caller, adopted, excused>> /\ spawner' \in [Spawner -> Spawning]
         /\ \/ MailStays /\ (UNCHANGED standby \/ \E s \in Standby : Created(s))
            \/ /\ Vacant /\ UNCHANGED standby
               /\ \E pid \in {mail.pid, Nobody} : MailIs("Starting", pid, mail.birth, mail.request)
            \/ /\ mail.state = "Starting" /\ mail.pid = Nobody /\ UNCHANGED standby
               /\ \E state, pid, birth : state \in {"Starting", "Empty"} /\ MailIs(state, pid, birth, mail.request)
<1>a. mail \in Mail /\ standby \in [Standby -> Waiter] /\ spawner \in [Spawner -> Spawning]
  BY Types
<1>b. mail' = mail => MailStays
  BY <1>a, MailKinds
<1>1. CASE Spawn(w)
  <2>1. PICK now \in Ticket :
          /\ mail' = [mail EXCEPT !.state = "Starting", !.pid = Nobody, !.started = now, !.aged = FALSE]
          /\ spawner' = [spawner EXCEPT ![w] = [Idle EXCEPT !.pc = "creating", !.ticket = now]]
    BY <1>1 DEF Spawn
  <2>2. MailIs("Starting", Nobody, mail.birth, mail.request)
    BY <1>a, <2>1 DEF MailIs, Mail, MailState
  <2>3. spawner' \in [Spawner -> Spawning]
    BY <1>a, <2>1 DEF Spawning, Idle
  <2>4. QED
    BY <1>1, <2>2, <2>3 DEF Spawn
<1>2. CASE Create(w)
  <2>1. PICK s \in Standby, birth \in Birth :
          /\ ~Alive(s) /\ ~Referenced(s)
          /\ standby' = [standby EXCEPT ![s] =
               [NoProcess EXCEPT !.pc = "created", !.birth = birth, !.ticket = spawner[w].ticket]]
          /\ spawner' = [spawner EXCEPT ![w].pc = "created", ![w].child = s, ![w].birth = birth]
    BY <1>2 DEF Create
  <2>2. Created(s)
    BY <1>a, <2>1 DEF Created, Referenced, NoProcess, Waiter, Phase, Spawning
  <2>3. spawner' \in [Spawner -> Spawning]
    <3> DEFINE r == [spawner[w] EXCEPT !.pc = "created", !.child = s, !.birth = birth]
    <3>1. r \in Spawning
      BY <1>a DEF Spawning
    <3>2. spawner' = [spawner EXCEPT ![w] = r]
      BY <2>1
    <3> HIDE DEF r
    <3>3. QED
      BY <1>a, <3>1, <3>2
  <2>4. QED
    BY <1>2, <1>b, <2>2, <2>3 DEF Create
<1>3. CASE CreateFails(w)
  BY <1>a, <1>b, <1>3 DEF CreateFails, Spawning
<1>4. ASSUME spawner' = [spawner EXCEPT ![w] = Idle] PROVE spawner' \in [Spawner -> Spawning]
  BY <1>a, <1>4 DEF Spawning, Idle
<1>5. ASSUME NEW pid \in Standby \cup {Nobody}, NEW birth \in Birth \cup {Never},
             mail' = [mail EXCEPT !.pid = pid, !.birth = birth]
      PROVE  MailIs(mail.state, pid, birth, mail.request)
  BY <1>a, <1>5 DEF MailIs, Mail
<1>c. spawner[w].child \in Standby \cup {Nobody} /\ spawner[w].birth \in Birth \cup {Never}
  BY <1>a DEF Spawning
<1>6. CASE Register(w)
  <2>1. CASE mail' = mail
    BY <1>b, <1>4, <1>6, <2>1 DEF Register
  <2>2. CASE StillStarting(w) /\ mail' = [mail EXCEPT !.pid = spawner[w].child, !.birth = spawner[w].birth]
    <3>1. MailIs("Starting", spawner[w].child, spawner[w].birth, mail.request)
      BY <1>5, <1>c, <2>2 DEF StillStarting
    <3>2. QED
      BY <1>4, <1>6, <2>2, <3>1 DEF Register, StillStarting
  <2>3. CASE StillStarting(w) /\ mail' = [mail EXCEPT !.state = "Empty"]
    <3>1. MailIs("Empty", mail.pid, mail.birth, mail.request)
      BY <1>a, <2>3, MailKinds DEF MailState, MailMoves
    <3>2. QED
      BY <1>4, <1>6, <2>3, <3>1 DEF Register, StillStarting
  <2>4. QED
    BY <1>6, <2>1, <2>2, <2>3 DEF Register
<1>7. CASE SpawnerDies(w)
  <2>1. CASE mail' = mail
    BY <1>b, <1>4, <1>7, <2>1 DEF SpawnerDies
  <2>2. CASE Vacant /\ \E pid \in {mail.pid, Nobody} : mail' = [mail EXCEPT !.state = "Starting", !.pid = pid]
    <3>1. PICK pid \in {mail.pid, Nobody} : mail' = [mail EXCEPT !.state = "Starting", !.pid = pid]
      BY <2>2
    <3>2. MailIs("Starting", pid, mail.birth, mail.request)
      BY <1>a, <3>1 DEF MailIs, Mail, MailState
    <3>3. QED
      BY <1>4, <1>7, <2>2, <3>2 DEF SpawnerDies
  <2>3. CASE StillStarting(w) /\ mail' = [mail EXCEPT !.pid = spawner[w].child]
    <3>1. MailIs("Starting", spawner[w].child, mail.birth, mail.request)
      BY <1>a, <1>c, <2>3, MailKinds DEF StillStarting
    <3>2. QED
      BY <1>4, <1>7, <2>3, <3>1 DEF SpawnerDies, StillStarting
  <2>4. QED
    BY <1>7, <2>1, <2>2, <2>3 DEF SpawnerDies
<1>8. QED
  BY <1>1, <1>2, <1>3, <1>6, <1>7 DEF SpawnerStep

-----------------------------------------------------------------------------
(***************************************************************************)
(* The inductive invariant.  A process that has claimed the mailbox holds  *)
(* it until it leaves or adopts; nobody is asked twice for one launch; a   *)
(* caller in Deliver waits for the process its request is with; and one    *)
(* that has declined has taken its request back or seen its process dead.  *)
(***************************************************************************)
Adopter(s) == standby[s].pc \in {"adopted", "shown"}
Awaited == mail.state \in {"Ready", "Pending"}
InDeliver(c) == caller[c].pc \in {"waiting", "checking"}

Asked == mail.state = "Pending" => mail.request \in Caller

Held(s) ==
  /\ standby[s].pc = "claimed" =>
       mail.pid = s /\ mail.birth = standby[s].birth /\ mail.state = "Starting"
  /\ Waits(s) => mail.pid = s /\ mail.birth = standby[s].birth /\ Awaited
Holding == \A s \in Standby : Held(s)

AskedOnce ==
  /\ \A s \in Standby : standby[s].request \in Caller => Adopter(s)
  /\ Awaited /\ mail.pid \in Standby => ~Adopter(mail.pid)
  /\ \A c \in Caller : caller[c].pc = "outside" =>
       mail.request # c /\ \A s \in Standby : standby[s].request # c

AskedHere ==
  \A c \in Caller : InDeliver(c) =>
    /\ caller[c].pid \in Standby
    /\ mail.request = c /\ mail.state = "Pending" => mail.pid = caller[c].pid
    /\ \A s \in Standby : standby[s].request = c => s = caller[c].pid

Declined ==
  \A c \in Caller : caller[c].pc = "own" =>
    /\ mail.request = c /\ mail.state = "Pending" => \A s \in Standby : mail.pid = s => ~Waits(s)
    /\ \A s \in Standby : standby[s].request # c

TypeInv == TypeOK /\ Asked
LaunchInv == TypeInv /\ Holding /\ AskedOnce /\ AskedHere /\ Declined

LEMMA TypeStep == TypeInv /\ [Next]_vars => TypeInv'
<1>. SUFFICES ASSUME TypeInv, [Next]_vars PROVE TypeInv'
  OBVIOUS
<1>a. /\ TypeOK /\ mail \in Mail /\ event \in BOOLEAN /\ standby \in [Standby -> Waiter]
      /\ caller \in [Caller -> Launched] /\ spawner \in [Spawner -> Spawning]
      /\ adopted \subseteq Caller /\ excused \subseteq Caller
  BY Types DEF TypeInv
<1>b. ASSUME mail' \in Mail, event' \in BOOLEAN, standby' \in [Standby -> Waiter],
             caller' \in [Caller -> Launched], spawner' \in [Spawner -> Spawning],
             adopted' \subseteq Caller, excused' \subseteq Caller
      PROVE  TypeOK'
  BY <1>b DEF TypeOK, Mail, MailState, Waiter, Phase, Launched, Place, Spawning
<1>1. ASSUME NEW c \in Caller, Deliver(c) PROVE TypeInv'
  BY <1>a, <1>b, <1>1, DeliverDoes DEF TypeInv, Asked, MailStays, MailMoves, MailIs, MailFreed, Goes
<1>2. ASSUME NEW c \in Caller, CallerStep(c) PROVE TypeInv'
  BY <1>a, <1>b, <1>2, CallerStepDoes DEF TypeInv, Asked, MailStays, MailMoves, MailIs, MailFreed, Goes
<1>3. ASSUME NEW c \in Caller, CallerDies(c) PROVE TypeInv'
  BY <1>a, <1>b, <1>3, CallerDiesDoes DEF TypeInv, Asked, MailStays, MailMoves, MailIs, Goes
<1>4. ASSUME NEW s \in Standby, StandbyStep(s) PROVE TypeInv'
  <2>1. mail' \in Mail /\ standby' \in [Standby -> Waiter] /\ Asked'
    BY <1>a, <1>4, StandbyStepDoes
       DEF TypeInv, Asked, Claims, Retires, Readies, Keeps, Takes, PutsBack, Shows, Gone, Moves,
           MailStays, MailMoves, MailIs, MailFreed
  <2>2. adopted' \subseteq Caller /\ excused' \subseteq Caller
    BY <1>a, <1>4, StandbyStepDoes DEF TypeInv, Asked, Takes, PutsBack
  <2>3. UNCHANGED <<caller, spawner>> /\ event' \in BOOLEAN
    BY <1>a, <1>4, StandbyStepDoes
  <2>4. QED
    BY <1>a, <1>b, <2>1, <2>2, <2>3 DEF TypeInv
<1>5. ASSUME NEW s \in Standby, StandbyDies(s) PROVE TypeInv'
  BY <1>a, <1>b, <1>5, StandbyDiesDoes DEF TypeInv, Asked, MailStays, MailMoves, MailIs, Gone
<1>6. ASSUME NEW w \in Spawner, SpawnerStep(w) \/ SpawnerDies(w) PROVE TypeInv'
  BY <1>a, <1>b, <1>6, SpawnerDoes DEF TypeInv, Asked, MailStays, MailMoves, MailIs, Created
<1>7. CASE Age
  BY <1>a, <1>b, <1>7 DEF TypeInv, Asked, Age, Mail
<1>8. CASE UNCHANGED vars
  BY <1>a, <1>b, <1>8 DEF TypeInv, Asked, vars
<1>9. QED
  BY <1>1, <1>2, <1>3, <1>4, <1>5, <1>6, <1>7, <1>8 DEF Next

LEMMA HoldingStep ==
  ASSUME LaunchInv, [Next]_vars
  PROVE  Holding'
<1>a. TypeOK /\ mail \in Mail /\ standby \in [Standby -> Waiter] /\ Nobody \notin Standby
  BY Types, StandbyAssumption DEF LaunchInv, TypeInv
<1>. SUFFICES ASSUME NEW r \in Standby PROVE Held(r)'
  BY DEF Holding
<1>b. Held(r)
  BY DEF LaunchInv, Holding
\* A living process that holds the mailbox owns it.
<1>c. Waits(r) => Owned
  BY <1>b DEF Held, Owned, Alive, Waits
<1>1. ASSUME NEW c \in Caller, Deliver(c) PROVE Held(r)'
  BY <1>a, <1>b, <1>c, <1>1, DeliverDoes
     DEF Held, Waits, Awaited, MailStays, MailMoves, MailIs, MailFreed
<1>2. ASSUME NEW c \in Caller, CallerStep(c) PROVE Held(r)'
  BY <1>a, <1>b, <1>2, CallerStepDoes
     DEF Held, Waits, Awaited, MailStays, MailMoves, MailIs, MailFreed
<1>3. ASSUME NEW c \in Caller, CallerDies(c) PROVE Held(r)'
  BY <1>a, <1>b, <1>c, <1>3, CallerDiesDoes
     DEF Held, Waits, Awaited, MailStays, MailMoves, MailIs
<1>4. ASSUME NEW s \in Standby, StandbyStep(s) PROVE Held(r)'
  <2>1. CASE r = s
    BY <1>a, <1>b, <1>4, <2>1, StandbyStepDoes
       DEF Held, Waits, Awaited, Claims, Retires, Readies, Keeps, Takes, PutsBack, Shows, Gone, Moves,
           MailStays, MailMoves, MailIs
  <2>2. CASE r # s
    BY <1>a, <1>b, <1>4, <2>2, StandbyStepDoes
       DEF Held, Waits, Awaited, Claims, Retires, Readies, Keeps, Takes, PutsBack, Shows, Gone, Moves,
           MailStays, MailMoves, MailIs, MailFreed
  <2>3. QED
    BY <2>1, <2>2
<1>5. ASSUME NEW s \in Standby, StandbyDies(s) PROVE Held(r)'
  BY <1>a, <1>b, <1>5, StandbyDiesDoes
     DEF Held, Waits, Awaited, MailStays, MailMoves, MailIs, Gone
<1>6. ASSUME NEW w \in Spawner, SpawnerStep(w) \/ SpawnerDies(w) PROVE Held(r)'
  BY <1>a, <1>b, <1>c, <1>6, SpawnerDoes
     DEF Held, Waits, Awaited, Vacant, Owned, Alive, MailStays, MailMoves, MailIs, Created
<1>7. CASE Age
  BY <1>a, <1>b, <1>7 DEF Held, Waits, Awaited, Age, Mail
<1>8. CASE UNCHANGED vars
  BY <1>b, <1>8 DEF Held, Waits, Awaited, vars
<1>9. QED
  BY <1>1, <1>2, <1>3, <1>4, <1>5, <1>6, <1>7, <1>8 DEF Next

LEMMA AskedOnceStep ==
  ASSUME LaunchInv, [Next]_vars
  PROVE  AskedOnce'
<1>a. /\ TypeOK /\ mail \in Mail /\ standby \in [Standby -> Waiter] /\ caller \in [Caller -> Launched]
      /\ Nobody \notin Standby /\ NoRequest \notin Caller
      /\ Asked /\ Holding /\ AskedOnce
  BY Types, StandbyAssumption, CallerAssumption DEF LaunchInv, TypeInv
<1>1. ASSUME NEW c \in Caller, Deliver(c) PROVE AskedOnce'
  BY <1>a, <1>1, DeliverDoes
     DEF AskedOnce, Adopter, Awaited, Goes, MailStays, MailMoves, MailIs, MailFreed
<1>2. ASSUME NEW c \in Caller, CallerStep(c) PROVE AskedOnce'
  BY <1>a, <1>2, CallerStepDoes
     DEF AskedOnce, Adopter, Awaited, Goes, MailStays, MailMoves, MailIs, MailFreed
<1>3. ASSUME NEW c \in Caller, CallerDies(c) PROVE AskedOnce'
  BY <1>a, <1>3, CallerDiesDoes
     DEF AskedOnce, Adopter, Awaited, Goes, MailStays, MailMoves, MailIs
<1>4. ASSUME NEW s \in Standby, StandbyStep(s) PROVE AskedOnce'
  BY <1>a, <1>4, StandbyStepDoes
     DEF AskedOnce, Adopter, Awaited, Waits, Claims, Retires, Readies, Keeps, Takes, PutsBack, Shows,
         Gone, Moves, Asked, MailStays, MailMoves, MailIs, MailFreed
<1>5. ASSUME NEW s \in Standby, StandbyDies(s) PROVE AskedOnce'
  BY <1>a, <1>5, StandbyDiesDoes
     DEF AskedOnce, Adopter, Awaited, MailStays, MailMoves, MailIs, Gone
<1>6. ASSUME NEW w \in Spawner, SpawnerStep(w) \/ SpawnerDies(w) PROVE AskedOnce'
  BY <1>a, <1>6, SpawnerDoes
     DEF AskedOnce, Adopter, Awaited, MailStays, MailMoves, MailIs, Created
<1>7. CASE Age
  BY <1>a, <1>7 DEF AskedOnce, Adopter, Awaited, Age, Mail
<1>8. CASE UNCHANGED vars
  BY <1>a, <1>8 DEF AskedOnce, Adopter, Awaited, vars
<1>9. QED
  BY <1>1, <1>2, <1>3, <1>4, <1>5, <1>6, <1>7, <1>8 DEF Next

LEMMA AskedHereStep ==
  ASSUME LaunchInv, [Next]_vars
  PROVE  AskedHere'
<1>a. /\ TypeOK /\ mail \in Mail /\ standby \in [Standby -> Waiter] /\ caller \in [Caller -> Launched]
      /\ Nobody \notin Standby /\ NoRequest \notin Caller
      /\ Asked /\ Holding /\ AskedOnce /\ AskedHere
  BY Types, StandbyAssumption, CallerAssumption DEF LaunchInv, TypeInv
<1>1. ASSUME NEW c \in Caller, Deliver(c) PROVE AskedHere'
  BY <1>a, <1>1, DeliverDoes
     DEF AskedHere, InDeliver, AskedOnce, Owned, Alive, Goes, MailStays, MailMoves, MailIs, MailFreed
<1>2. ASSUME NEW c \in Caller, CallerStep(c) PROVE AskedHere'
  BY <1>a, <1>2, CallerStepDoes
     DEF AskedHere, InDeliver, Goes, MailStays, MailMoves, MailIs, MailFreed
<1>3. ASSUME NEW c \in Caller, CallerDies(c) PROVE AskedHere'
  BY <1>a, <1>3, CallerDiesDoes
     DEF AskedHere, InDeliver, Goes, MailStays, MailMoves, MailIs
<1>4. ASSUME NEW s \in Standby, StandbyStep(s) PROVE AskedHere'
  <2>. UNCHANGED caller
    BY <1>a, <1>4, StandbyStepDoes
  <2>1. ASSUME NEW c \in Caller, InDeliver(c), mail'.request = c, mail'.state = "Pending"
        PROVE  mail'.pid = caller[c].pid
    BY <1>a, <1>4, <2>1, StandbyStepDoes
       DEF AskedHere, Claims, Retires, Readies, Keeps, Takes, PutsBack, Shows, MailStays, MailMoves,
           MailIs, MailFreed
  <2>2. ASSUME NEW c \in Caller, InDeliver(c), NEW r \in Standby, standby'[r].request = c
        PROVE  r = caller[c].pid
    BY <1>a, <1>4, <2>2, StandbyStepDoes
       DEF AskedHere, Claims, Retires, Readies, Keeps, Takes, PutsBack, Shows, Moves, Gone
  <2>3. QED
    BY <1>a, <2>1, <2>2 DEF AskedHere, InDeliver
<1>5. ASSUME NEW s \in Standby, StandbyDies(s) PROVE AskedHere'
  BY <1>a, <1>5, StandbyDiesDoes
     DEF AskedHere, InDeliver, MailStays, MailMoves, MailIs, Gone
<1>6. ASSUME NEW w \in Spawner, SpawnerStep(w) \/ SpawnerDies(w) PROVE AskedHere'
  BY <1>a, <1>6, SpawnerDoes
     DEF AskedHere, InDeliver, MailStays, MailMoves, MailIs, Created
<1>7. CASE Age
  BY <1>a, <1>7 DEF AskedHere, InDeliver, Age, Mail
<1>8. CASE UNCHANGED vars
  BY <1>a, <1>8 DEF AskedHere, InDeliver, vars
<1>9. QED
  BY <1>1, <1>2, <1>3, <1>4, <1>5, <1>6, <1>7, <1>8 DEF Next

LEMMA DeclinedStep ==
  ASSUME LaunchInv, [Next]_vars
  PROVE  Declined'
<1>a. /\ TypeOK /\ mail \in Mail /\ standby \in [Standby -> Waiter] /\ caller \in [Caller -> Launched]
      /\ Nobody \notin Standby /\ NoRequest \notin Caller
      /\ Asked /\ Holding /\ AskedOnce /\ AskedHere /\ Declined
  BY Types, StandbyAssumption, CallerAssumption DEF LaunchInv, TypeInv
<1>1. ASSUME NEW c \in Caller, Deliver(c) PROVE Declined'
  BY <1>a, <1>1, DeliverDoes
     DEF Declined, Waits, AskedOnce, Goes, MailStays, MailMoves, MailIs, MailFreed
<1>2. ASSUME NEW c \in Caller, CallerStep(c) PROVE Declined'
  <2>. UNCHANGED standby
    BY <1>a, <1>2, CallerStepDoes
  <2>1. ASSUME NEW d \in Caller, caller'[d].pc = "own", d # c
        PROVE  /\ mail'.request = d /\ mail'.state = "Pending" => \A s \in Standby : mail'.pid = s => ~Waits(s)
               /\ \A s \in Standby : standby[s].request # d
    BY <1>a, <1>2, <2>1, CallerStepDoes
       DEF Declined, Goes, MailStays, MailMoves, MailIs, MailFreed
  <2>2. ASSUME caller'[c].pc = "own"
        PROVE  /\ mail'.request = c /\ mail'.state = "Pending" => \A s \in Standby : mail'.pid = s => ~Waits(s)
               /\ \A s \in Standby : standby[s].request # c
    <3>1. CASE StillMine(c) /\ Awaited /\ MailMoves("Ready") /\ caller[c].pc = "waiting"
      BY <1>a, <3>1 DEF StillMine, Awaited, MailMoves, MailIs, AskedOnce, AskedHere, InDeliver
    <3>2. CASE caller[c].pc = "checking" /\ MailStays /\ ~Alive(caller[c].pid)
      BY <1>a, <3>2
         DEF Alive, Waits, Adopter, MailStays, MailMoves, MailIs, AskedOnce, AskedHere, InDeliver
    <3>3. QED
      BY <1>a, <1>2, <2>2, <3>1, <3>2, CallerStepDoes DEF Goes, Awaited
  <2>3. QED
    BY <2>1, <2>2 DEF Declined, Waits
<1>3. ASSUME NEW c \in Caller, CallerDies(c) PROVE Declined'
  BY <1>a, <1>3, CallerDiesDoes
     DEF Declined, Waits, AskedOnce, Goes, MailStays, MailMoves, MailIs
<1>4. ASSUME NEW s \in Standby, StandbyStep(s) PROVE Declined'
  <2>. UNCHANGED caller
    BY <1>a, <1>4, StandbyStepDoes
  <2>1. ASSUME NEW c \in Caller, caller[c].pc = "own", mail'.request = c, mail'.state = "Pending",
               NEW r \in Standby, mail'.pid = r
        PROVE  standby'[r].pc \notin {"waiting", "asked", "expired"}
    BY <1>a, <1>4, <2>1, StandbyStepDoes
       DEF Declined, Waits, Claims, Retires, Readies, Keeps, Takes, PutsBack, Shows, Moves, Gone,
           MailStays, MailMoves, MailIs, MailFreed
  <2>2. ASSUME NEW c \in Caller, caller[c].pc = "own", NEW r \in Standby
        PROVE  standby'[r].request # c
    BY <1>a, <1>4, <2>2, StandbyStepDoes
       DEF Declined, Waits, Claims, Retires, Readies, Keeps, Takes, PutsBack, Shows, Moves, Gone
  <2>3. QED
    BY <2>1, <2>2 DEF Declined, Waits
<1>5. ASSUME NEW s \in Standby, StandbyDies(s) PROVE Declined'
  BY <1>a, <1>5, StandbyDiesDoes
     DEF Declined, Waits, MailStays, MailMoves, MailIs, Gone
<1>6. ASSUME NEW w \in Spawner, SpawnerStep(w) \/ SpawnerDies(w) PROVE Declined'
  BY <1>a, <1>6, SpawnerDoes
     DEF Declined, Waits, MailStays, MailMoves, MailIs, Created
<1>7. CASE Age
  BY <1>a, <1>7 DEF Declined, Waits, Age, Mail
<1>8. CASE UNCHANGED vars
  BY <1>a, <1>8 DEF Declined, Waits, vars
<1>9. QED
  BY <1>1, <1>2, <1>3, <1>4, <1>5, <1>6, <1>7, <1>8 DEF Next

LEMMA LaunchInit == Init => LaunchInv
<1>. SUFFICES ASSUME Init PROVE LaunchInv
  OBVIOUS
<1>1. TypeOK
  <2>1. mail \in Mail
    BY DEF Init, Mail, MailState
  <2>2. standby \in [Standby -> Waiter]
    BY DEF Init, NoProcess, Waiter, Phase
  <2>3. caller \in [Caller -> Launched]
    BY DEF Init, Outside, Launched, Place
  <2>4. spawner \in [Spawner -> Spawning]
    BY DEF Init, Idle, Spawning
  <2>5. QED
    BY <2>1, <2>2, <2>3, <2>4, Types DEF Init
<1>2. /\ \A s \in Standby : standby[s].pc = "none" /\ standby[s].request = NoRequest
      /\ \A c \in Caller : caller[c].pc = "outside"
      /\ mail.state = "Empty" /\ mail.request = NoRequest
  BY DEF Init, NoProcess, Outside
<1>3. Asked /\ Holding /\ AskedOnce /\ AskedHere /\ Declined
  BY <1>2, CallerAssumption
     DEF Asked, Holding, Held, Waits, AskedOnce, Awaited, Adopter, AskedHere, InDeliver, Declined
<1>4. QED
  BY <1>1, <1>3 DEF LaunchInv, TypeInv

LEMMA LaunchStep == LaunchInv /\ [Next]_vars => LaunchInv'
BY TypeStep, HoldingStep, AskedOnceStep, AskedHereStep, DeclinedStep DEF LaunchInv

-----------------------------------------------------------------------------
\* Every variable keeps its type: what a standby adopts is a launch.
THEOREM LaunchTypesHold == Spec => []TypeOK
<1>1. LaunchInv => TypeOK
  BY DEF LaunchInv, TypeInv
<1>2. QED
  BY <1>1, LaunchInit, LaunchStep, PTL DEF Spec

(***************************************************************************)
(* A launch that its caller shows itself is shown nowhere else, however    *)
(* many launches, windows and reused identifiers there are: Deliver's last *)
(* look at the mailbox and its check of the process leave no gap through   *)
(* which a request that was taken back is adopted.                         *)
(***************************************************************************)
THEOREM LaunchShownOnce == Spec => []OneWindowPerLaunch
<1>1. LaunchInv => OneWindowPerLaunch
  BY DEF LaunchInv, Declined, OneWindowPerLaunch
<1>2. QED
  BY <1>1, LaunchInit, LaunchStep, PTL DEF Spec

(***************************************************************************)
(* A standby that waits is the one the mailbox names, so there is at most  *)
(* one, and the launch that finds the mailbox ready reaches it.            *)
(***************************************************************************)
THEOREM StandbyIsReachable == Spec => []StandbyReachable
<1>1. LaunchInv => StandbyReachable
  BY DEF LaunchInv, Holding, Held, Awaited, StandbyReachable
<1>2. QED
  BY <1>1, LaunchInit, LaunchStep, PTL DEF Spec

-----------------------------------------------------------------------------
(***************************************************************************)
(* A caller leaves Deliver satisfied only if its request was answered, or  *)
(* if its process, whose identifier its handle keeps, is alive; and while  *)
(* that process lives the request is where Deliver put it or was answered. *)
(***************************************************************************)
Answered(c) == c \in adopted \cup excused
AnswerDue ==
  \A c \in Caller :
    /\ caller[c].pc = "waiting" =>
         \/ Answered(c) \/ ~Alive(caller[c].pid)
         \/ StillMine(c) /\ mail.state = "Pending" /\ mail.birth = standby[caller[c].pid].birth
    /\ caller[c].pc = "checking" => Answered(c) \/ ~Alive(caller[c].pid)
    /\ caller[c].pc = "handed" => Answered(c)
AnswerInv == LaunchInv /\ AnswerDue

LEMMA AnswerStep ==
  ASSUME AnswerInv, [Next]_vars
  PROVE  AnswerDue'
<1>a. /\ TypeOK /\ mail \in Mail /\ standby \in [Standby -> Waiter] /\ caller \in [Caller -> Launched]
      /\ Nobody \notin Standby /\ NoRequest \notin Caller
      /\ Asked /\ Holding /\ AskedOnce /\ AskedHere /\ AnswerDue
  BY Types, StandbyAssumption, CallerAssumption DEF AnswerInv, LaunchInv, TypeInv
<1> DEFINE Due(c) ==
      /\ caller[c].pc = "waiting" =>
           \/ Answered(c) \/ ~Alive(caller[c].pid)
           \/ StillMine(c) /\ mail.state = "Pending" /\ mail.birth = standby[caller[c].pid].birth
      /\ caller[c].pc = "checking" => Answered(c) \/ ~Alive(caller[c].pid)
      /\ caller[c].pc = "handed" => Answered(c)
<1>. SUFFICES ASSUME NEW d \in Caller PROVE Due(d)'
  BY DEF AnswerDue
<1>b. Due(d) /\ (InDeliver(d) => caller[d].pid \in Standby)
  BY <1>a DEF AnswerDue, AskedHere
<1>1. ASSUME NEW c \in Caller, Deliver(c) PROVE Due(d)'
  BY <1>a, <1>b, <1>1, DeliverDoes
     DEF Answered, StillMine, Alive, Owned, Goes, MailStays, MailMoves, MailIs, MailFreed
<1>2. ASSUME NEW c \in Caller, CallerStep(c) PROVE Due(d)'
  BY <1>a, <1>b, <1>2, CallerStepDoes
     DEF Answered, StillMine, Alive, Goes, MailStays, MailMoves, MailIs, MailFreed
<1>3. ASSUME NEW c \in Caller, CallerDies(c) PROVE Due(d)'
  BY <1>a, <1>b, <1>3, CallerDiesDoes
     DEF Answered, StillMine, Alive, Goes, MailStays, MailMoves, MailIs
<1>4. ASSUME NEW s \in Standby, StandbyStep(s) PROVE Due(d)'
  BY <1>a, <1>b, <1>4, StandbyStepDoes
     DEF Answered, StillMine, Alive, Waits, Claims, Retires, Readies, Keeps, Takes, PutsBack, Shows,
         Moves, Gone, Holding, Held, MailStays, MailMoves, MailIs, MailFreed
<1>5. ASSUME NEW s \in Standby, StandbyDies(s) PROVE Due(d)'
  BY <1>a, <1>b, <1>5, StandbyDiesDoes
     DEF Answered, StillMine, Alive, MailStays, MailMoves, MailIs, Gone
<1>6. ASSUME NEW w \in Spawner, SpawnerStep(w) \/ SpawnerDies(w) PROVE Due(d)'
  BY <1>a, <1>b, <1>6, SpawnerDoes
     DEF Answered, StillMine, Alive, Owned, Vacant, InDeliver, MailStays, MailMoves, MailIs, Created
<1>7. CASE Age
  BY <1>a, <1>b, <1>7 DEF Answered, StillMine, Alive, Age, Mail
<1>8. CASE UNCHANGED vars
  BY <1>b, <1>8 DEF Answered, StillMine, Alive, vars
<1>9. QED
  BY <1>1, <1>2, <1>3, <1>4, <1>5, <1>6, <1>7, <1>8 DEF Next

(***************************************************************************)
(* A launch that counts as handed over was taken by a standby, or is one   *)
(* of those the comment of HandedMeansAdopted excuses.                     *)
(***************************************************************************)
THEOREM HandedIsAdopted == Spec => []HandedMeansAdopted
<1>1. Init => AnswerInv
  BY LaunchInit DEF Init, AnswerInv, AnswerDue, Outside
<1>2. AnswerInv /\ [Next]_vars => AnswerInv'
  BY LaunchStep, AnswerStep DEF AnswerInv
<1>3. AnswerInv => HandedMeansAdopted
  BY DEF AnswerInv, AnswerDue, Answered, HandedMeansAdopted
<1>4. QED
  BY <1>1, <1>2, <1>3, PTL DEF Spec

-----------------------------------------------------------------------------
(***************************************************************************)
(* If no wait for the mutex times out, a mailbox whose adopter has its     *)
(* window is never left taken.  The run standby_wedged shows what one      *)
(* timeout of 50 ms in StartupFrame does to it.                            *)
(***************************************************************************)
Released ==
  \A s \in Standby : ~(standby[s].pc = "shown" /\ mail.pid = s /\ mail.state = "Taken")

LEMMA ReleasedStep ==
  ASSUME Timeouts = FALSE, TypeOK, Released, [Next]_vars
  PROVE  Released'
<1>a. mail \in Mail /\ standby \in [Standby -> Waiter] /\ Nobody \notin Standby
  BY Types, StandbyAssumption
<1>1. ASSUME NEW c \in Caller, Deliver(c) PROVE Released'
  BY <1>a, <1>1, DeliverDoes DEF Released, MailStays, MailMoves, MailIs, MailFreed
<1>2. ASSUME NEW c \in Caller, CallerStep(c) PROVE Released'
  BY <1>a, <1>2, CallerStepDoes DEF Released, MailStays, MailMoves, MailIs, MailFreed
<1>3. ASSUME NEW c \in Caller, CallerDies(c) PROVE Released'
  BY <1>a, <1>3, CallerDiesDoes DEF Released, MailStays, MailMoves, MailIs
<1>4. ASSUME NEW s \in Standby, StandbyStep(s) PROVE Released'
  BY <1>a, <1>4, StandbyStepDoes
     DEF Released, Claims, Retires, Readies, Keeps, Takes, PutsBack, Shows, Moves, Gone, MailStays,
         MailMoves, MailIs, MailFreed
<1>5. ASSUME NEW s \in Standby, StandbyDies(s) PROVE Released'
  BY <1>a, <1>5, StandbyDiesDoes DEF Released, MailStays, MailMoves, MailIs, Gone
<1>6. ASSUME NEW w \in Spawner, SpawnerStep(w) \/ SpawnerDies(w) PROVE Released'
  BY <1>a, <1>6, SpawnerDoes DEF Released, MailStays, MailMoves, MailIs, Created
<1>7. CASE Age
  BY <1>a, <1>7 DEF Released, Age, Mail
<1>8. CASE UNCHANGED vars
  BY <1>8 DEF Released, vars
<1>9. QED
  BY <1>1, <1>2, <1>3, <1>4, <1>5, <1>6, <1>7, <1>8 DEF Next

\* So AdoptedMailboxRecovered, which that run refutes, holds without timeouts.
THEOREM MailboxRecovered == Timeouts = FALSE => (Spec => []AdoptedMailboxRecovered)
<1>. SUFFICES ASSUME Timeouts = FALSE PROVE Spec => []AdoptedMailboxRecovered
  OBVIOUS
<1>1. Init => LaunchInv /\ Released
  BY LaunchInit DEF Init, Released, NoProcess
<1>2. LaunchInv /\ Released /\ [Next]_vars => LaunchInv' /\ Released'
  BY LaunchStep, ReleasedStep DEF LaunchInv, TypeInv
<1>3. Released => AdoptedMailboxRecovered
  BY DEF Released, AdoptedMailboxRecovered
<1>4. QED
  BY <1>1, <1>2, <1>3, PTL DEF Spec
=============================================================================
