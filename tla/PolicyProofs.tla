------------------------------ MODULE PolicyProofs ------------------------------
(***************************************************************************)
(* Proofs about the dialog agent's policy in MCComponents: what a host and *)
(* the adapters read of it, for any number of agents, adapters, processes, *)
(* applications, and attempts; and the processes a host attaches to.       *)
(***************************************************************************)
EXTENDS MCComponents, TLAPS

Torn == {"torn"}
AgentRecord ==
  [pc : {"down", "starting", "first", "loaded", "up", "writing"}, life : 0..AgentLives,
   tries : 0..AgentTries, owns : BOOLEAN]
PolicyRecord(A) ==
  [ready : BOOLEAN, enabled : BOOLEAN, beat : BOOLEAN, generation : Nat, text : (SUBSET A) \cup {Torn}]
ReaderRecord(A) ==
  [pc : {"idle", "alive", "open", "reading", "read", "using"}, life : 0..AgentLives,
   tries : 0..AgentTries, before : Nat, text : (SUBSET A) \cup {Torn}, got : (SUBSET A) \cup {Torn},
   seen : SUBSET SUBSET A]

\* The generation is odd as long as an agent writes, and when one died of it.
PolicySound(a, p) ==
  /\ p.text = Torn \/ a.pc \in {"first", "writing"} => p.generation % 2 = 1
  /\ a.pc \in {"starting", "loaded", "up"} => p.generation % 2 = 0
  /\ p.ready => a.pc \in {"up", "writing", "down"}

\* What is there now is one of the texts that a reader of this agent's policy may have
\* seen, or is being written; and the text it has begun to read is that of its generation.
ReaderSound(A, a, p, r) ==
  /\ r.life <= a.life
  /\ r.pc = "reading" => r.before % 2 = 0 /\ r.tries < AgentTries
  /\ r.life = a.life =>
       /\ r.pc \in {"alive", "open", "reading"} =>
            a.pc \in {"up", "writing", "down"} /\ p.text \in r.seen \cup {Torn}
       /\ r.pc = "reading" =>
            r.before <= p.generation /\ (r.before = p.generation => r.text = p.text)
       /\ r.pc = "read" => r.got \in r.seen \cup {A}

Shown(r, text) ==
  IF r.pc \in {"idle", "read", "using"} THEN r ELSE [r EXCEPT !.seen = @ \cup {text}]

LEMMA Parity == \A n \in Nat : (n % 2 = 0 <=> (n + 1) % 2 = 1) /\ (n % 2 = 1 <=> (n + 1) % 2 = 0)
OBVIOUS

\* What an agent does to its policy, and a reader does not notice, ...
LEMMA QuietKeeps ==
  ASSUME NEW A, NEW a \in AgentRecord, NEW b \in AgentRecord, NEW p \in PolicyRecord(A),
         NEW q \in PolicyRecord(A), NEW r \in ReaderRecord(A), PolicySound(a, p), PolicySound(b, q),
         ReaderSound(A, a, p, r),
         \/ b.life > a.life
         \/ /\ b.life = a.life /\ q.generation = p.generation /\ q.text = p.text
            /\ a.pc \in {"up", "writing", "down"} => b.pc \in {"up", "writing", "down"}
         \/ b.life = a.life /\ a.pc \notin {"up", "writing", "down"}
  PROVE  ReaderSound(A, b, q, r)
BY DEF AgentRecord, PolicyRecord, ReaderRecord, ReaderSound, PolicySound

\* ... and its writing.
LEMMA BeginsKeeps ==
  ASSUME NEW A, NEW a \in AgentRecord, NEW b \in AgentRecord, NEW p \in PolicyRecord(A),
         NEW q \in PolicyRecord(A), NEW r \in ReaderRecord(A), ReaderSound(A, a, p, r),
         b.life = a.life, q.generation = p.generation + 1, q.text = Torn, a.pc = "up", b.pc = "writing"
  PROVE  ReaderSound(A, b, q, r)
BY DEF AgentRecord, PolicyRecord, ReaderRecord, ReaderSound

LEMMA ShownIs ==
  ASSUME NEW A, NEW r \in ReaderRecord(A), NEW text \in SUBSET A
  PROVE  /\ Shown(r, text) \in ReaderRecord(A)
         /\ r.pc \in {"idle", "read", "using"} => Shown(r, text) = r
         /\ r.pc \notin {"idle", "read", "using"} =>
              /\ Shown(r, text).seen = r.seen \cup {text} /\ Shown(r, text).pc = r.pc
              /\ Shown(r, text).life = r.life /\ Shown(r, text).tries = r.tries
              /\ Shown(r, text).before = r.before /\ Shown(r, text).text = r.text
BY DEF Shown, ReaderRecord

LEMMA EndsKeeps ==
  ASSUME NEW A, NEW a \in AgentRecord, NEW b \in AgentRecord, NEW p \in PolicyRecord(A),
         NEW q \in PolicyRecord(A), NEW r \in ReaderRecord(A), ReaderSound(A, a, p, r),
         b.life = a.life, q.text \in SUBSET A,
         \/ a.pc = "writing" /\ b.pc = "up" /\ q.generation = p.generation + 1
         \/ a.pc \in {"starting", "loaded"}
  PROVE  ReaderSound(A, b, q, Shown(r, q.text))
<1>1. CASE r.pc \in {"idle", "read", "using"}
  <2>1. Shown(r, q.text) = r
    BY <1>1, ShownIs
  <2>2. QED
    BY <1>1, <2>1 DEF ReaderSound
<1>2. CASE r.pc \in {"alive", "open", "reading"}
  <2> DEFINE n == Shown(r, q.text)
  <2>1. /\ n.seen = r.seen \cup {q.text} /\ n.pc = r.pc /\ n.life = r.life /\ n.tries = r.tries
        /\ n.before = r.before /\ n.text = r.text /\ n \in ReaderRecord(A)
    BY <1>2, ShownIs
  <2> HIDE DEF n
  <2>2. r.life <= b.life /\ (r.pc = "reading" => r.before % 2 = 0 /\ r.tries < AgentTries)
    BY DEF ReaderSound
  <2>3. r.life = b.life => a.pc = "writing" /\ b.pc = "up" /\ q.generation = p.generation + 1
    BY <1>2 DEF ReaderSound
  <2>4. r.life = b.life /\ r.pc = "reading" => r.before <= p.generation
    BY DEF ReaderSound
  <2>5. q.generation \in Nat /\ p.generation \in Nat /\ r.before \in Nat
    BY DEF PolicyRecord, ReaderRecord
  <2>6. ReaderSound(A, b, q, n)
    BY <1>2, <2>1, <2>2, <2>3, <2>4, <2>5 DEF ReaderSound
  <2>7. QED
    BY <2>6 DEF n
<1>3. QED
  BY <1>1, <1>2 DEF ReaderRecord

-----------------------------------------------------------------------------
(***************************************************************************)
(* What a reader does.                                                     *)
(***************************************************************************)
Unread(A) ==
  [pc |-> "idle", life |-> 0, tries |-> 0, before |-> 0, text |-> {}, got |-> A, seen |-> {}]

LEMMA ReaderIs ==
  ASSUME NEW A, NEW pc \in {"idle", "alive", "open", "reading", "read", "using"},
         NEW life \in 0..AgentLives, NEW tries \in 0..AgentTries, NEW before \in Nat,
         NEW text \in (SUBSET A) \cup {Torn}, NEW got \in (SUBSET A) \cup {Torn},
         NEW seen \in SUBSET SUBSET A
  PROVE  [pc |-> pc, life |-> life, tries |-> tries, before |-> before, text |-> text, got |-> got,
          seen |-> seen] \in ReaderRecord(A)
BY DEF ReaderRecord

LEMMA NotReadingSound ==
  ASSUME NEW A, NEW a \in AgentRecord, NEW p \in PolicyRecord(A)
  PROVE  Unread(A) \in ReaderRecord(A) /\ ReaderSound(A, a, p, Unread(A))
BY Instances DEF Unread, AgentRecord, ReaderRecord, ReaderSound, Agent!AgentAssumption

LEMMA CheckSound ==
  ASSUME NEW A, "torn" \notin A, NEW a \in AgentRecord, NEW p \in PolicyRecord(A), PolicySound(a, p), p.ready,
         NEW n, n = [Unread(A) EXCEPT !.pc = "alive", !.life = a.life, !.seen = {p.text} \ {Torn}]
  PROVE  n \in ReaderRecord(A) /\ ReaderSound(A, a, p, n)
<1>1. n = [pc |-> "alive", life |-> a.life, tries |-> 0, before |-> 0, text |-> {}, got |-> A,
           seen |-> {p.text} \ {Torn}]
  BY DEF Unread
<1>2. {p.text} \ {Torn} \in SUBSET SUBSET A
  BY DEF PolicyRecord
<1>3. a.life \in 0..AgentLives /\ 0 \in 0..AgentTries
  BY Instances DEF AgentRecord, Agent!AgentAssumption
<1>4. n \in ReaderRecord(A)
  <2>1. 0 \in Nat /\ {} \in (SUBSET A) \cup {Torn} /\ A \in (SUBSET A) \cup {Torn}
    OBVIOUS
  <2>2. "alive" \in {"idle", "alive", "open", "reading", "read", "using"}
    OBVIOUS
  <2>3. PICK seen \in SUBSET SUBSET A : seen = {p.text} \ {Torn}
    BY <1>2
  <2>4. PICK life \in 0..AgentLives, tries \in 0..AgentTries : life = a.life /\ tries = 0
    BY <1>3
  <2>5. [pc |-> "alive", life |-> life, tries |-> tries, before |-> 0, text |-> {}, got |-> A,
         seen |-> seen] \in ReaderRecord(A)
    BY <2>1, <2>2, ReaderIs
  <2>6. QED
    BY <1>1, <2>3, <2>4, <2>5, Zenon
<1>5. a.pc \in {"up", "writing", "down"}
  BY DEF PolicySound
<1>6. QED
  BY <1>1, <1>3, <1>4, <1>5 DEF ReaderSound

LEMMA SeeSound ==
  ASSUME NEW A, NEW a \in AgentRecord, NEW p \in PolicyRecord(A), NEW r \in ReaderRecord(A),
         ReaderSound(A, a, p, r), r.pc = "alive",
         NEW n, n = [r EXCEPT !.pc = IF p.enabled THEN "open" ELSE "idle"]
  PROVE  n \in ReaderRecord(A) /\ ReaderSound(A, a, p, n)
<1>1. n \in ReaderRecord(A) /\ n.pc \in {"open", "idle"} /\ n.life = r.life /\ n.seen = r.seen
  BY DEF ReaderRecord
<1>2. QED
  BY <1>1 DEF ReaderSound

LEMMA AgainSound ==
  ASSUME NEW A, NEW a \in AgentRecord, NEW p \in PolicyRecord(A), NEW r \in ReaderRecord(A),
         ReaderSound(A, a, p, r), r.pc \in {"open", "reading"}, r.tries < AgentTries,
         NEW n, n = [r EXCEPT !.pc = "open", !.tries = @ + 1]
  PROVE  n \in ReaderRecord(A) /\ ReaderSound(A, a, p, n)
<1>1. r.tries + 1 \in 0..AgentTries
  BY Instances DEF ReaderRecord, Agent!AgentAssumption
<1>2. n \in ReaderRecord(A) /\ n.pc = "open" /\ n.life = r.life /\ n.seen = r.seen
  BY <1>1 DEF ReaderRecord
<1>3. QED
  BY <1>2 DEF ReaderSound

LEMMA BeginSound ==
  ASSUME NEW A, NEW a \in AgentRecord, NEW p \in PolicyRecord(A), NEW r \in ReaderRecord(A),
         ReaderSound(A, a, p, r), r.pc = "open", r.tries < AgentTries, p.generation % 2 = 0,
         NEW n, n = [r EXCEPT !.pc = "reading", !.before = p.generation, !.text = p.text]
  PROVE  n \in ReaderRecord(A) /\ ReaderSound(A, a, p, n)
<1>1. p.generation \in Nat /\ p.text \in (SUBSET A) \cup {Torn}
  BY DEF PolicyRecord
<1>2. /\ n \in ReaderRecord(A) /\ n.pc = "reading" /\ n.life = r.life /\ n.seen = r.seen
      /\ n.before = p.generation /\ n.text = p.text /\ n.tries = r.tries
  BY <1>1 DEF ReaderRecord
<1>3. QED
  BY <1>1, <1>2 DEF ReaderSound

LEMMA ReadSound ==
  ASSUME NEW A, NEW a \in AgentRecord, NEW p \in PolicyRecord(A), NEW r \in ReaderRecord(A),
         PolicySound(a, p), ReaderSound(A, a, p, r),
         NEW got, \/ r.pc = "open" /\ got = A
                  \/ /\ r.pc = "reading" /\ p.generation = r.before
                     /\ got = IF p.text = r.text THEN p.text ELSE Torn,
         NEW n, n = [r EXCEPT !.pc = "read", !.got = got, !.tries = 0, !.before = 0, !.text = {}]
  PROVE  n \in ReaderRecord(A) /\ ReaderSound(A, a, p, n)
<1>1. got \in (SUBSET A) \cup {Torn} /\ 0 \in 0..AgentTries
  BY Instances DEF PolicyRecord, Agent!AgentAssumption
<1>2. /\ n \in ReaderRecord(A) /\ n.pc = "read" /\ n.life = r.life /\ n.seen = r.seen
      /\ n.got = got
  BY <1>1 DEF ReaderRecord
<1>3. ASSUME r.pc = "reading", r.life = a.life, p.generation = r.before PROVE p.text \in r.seen /\ p.text = r.text
  <2>1. p.generation % 2 = 0 /\ p.text \in r.seen \cup {Torn} /\ p.text = r.text
    BY <1>3 DEF ReaderSound
  <2>2. p.text # Torn
    BY <2>1 DEF PolicySound, PolicyRecord
  <2>3. QED
    BY <2>1, <2>2
<1>4. n.life = a.life => n.got \in n.seen \cup {A}
  BY <1>2, <1>3
<1>5. QED
  BY <1>2, <1>4 DEF ReaderSound

Using(A, got) == [Unread(A) EXCEPT !.pc = "using", !.got = got]

LEMMA UsingIs ==
  ASSUME NEW A, NEW got
  PROVE  Using(A, got).pc = "using" /\ Using(A, got).life = 0 /\ Using(A, got).got = got
BY DEF Unread, Using

LEMMA UsingSound ==
  ASSUME NEW A, NEW a \in AgentRecord, NEW p \in PolicyRecord(A), NEW r \in ReaderRecord(A),
         NEW n, n = Using(A, r.got)
  PROVE  n \in ReaderRecord(A) /\ ReaderSound(A, a, p, n) /\ n.pc = "using" /\ n.got = r.got
<1>1. n = [pc |-> "using", life |-> 0, tries |-> 0, before |-> 0, text |-> {}, got |-> r.got,
           seen |-> {}]
  BY DEF Unread, Using
<1>2. Unread(A) \in ReaderRecord(A) /\ r.got \in (SUBSET A) \cup {Torn} /\ 0 <= a.life
  BY NotReadingSound DEF ReaderRecord, AgentRecord
<1>3. n \in ReaderRecord(A)
  BY <1>1, <1>2 DEF ReaderRecord, Unread
<1>4. n.pc = "using" /\ n.life = 0 /\ n.got = r.got
  BY UsingIs
<1>5. ReaderSound(A, a, p, n)
  BY <1>2, <1>4 DEF ReaderSound
<1>6. QED
  BY <1>3, <1>4, <1>5

-----------------------------------------------------------------------------
(***************************************************************************)
(* What the agent publishes, and its host and adapters read.              *)
(***************************************************************************)
AgentConfig == [text : SUBSET Apps, enabled : BOOLEAN, edits : Nat]
AgentReadersSound ==
  /\ agentReader \in [Agent!Reader -> ReaderRecord(Apps)]
  /\ \A r \in Agent!Reader : ReaderSound(Apps, agentAgent, agentPolicy, agentReader[r])
AgentPolicyInv ==
  /\ agentAgent \in AgentRecord /\ agentPolicy \in PolicyRecord(Apps) /\ agentConfig \in AgentConfig
  /\ PolicySound(agentAgent, agentPolicy) /\ AgentReadersSound

LEMMA AgentNames ==
  /\ Agent!Torn = Torn /\ Agent!NotReading = Unread(Apps) /\ Agent!Text = SUBSET Apps /\ Agent!All = Apps
  /\ Torn \notin SUBSET Apps /\ "torn" \notin Apps /\ "host" \in Agent!Reader /\ Agent!Host = "host"
  /\ \A t \in AgentThreads : t \in Agent!Reader /\ t # "host"
<1>1. "torn" \notin Apps /\ "host" \notin AgentThreads
  BY Instances DEF Agent!AgentAssumption
<1>2. QED
  BY <1>1 DEF Agent!Torn, Torn, Agent!NotReading, Unread, Agent!Text, Agent!All, Agent!Reader, Agent!Host

\* One reader's record is replaced.
LEMMA AgentTurn ==
  ASSUME AgentPolicyInv, NEW r \in Agent!Reader, NEW n \in ReaderRecord(Apps),
         ReaderSound(Apps, agentAgent, agentPolicy, n), agentReader' = [agentReader EXCEPT ![r] = n],
         UNCHANGED <<agentAgent, agentPolicy, agentConfig>>
  PROVE  AgentPolicyInv'
<1>1. agentReader' \in [Agent!Reader -> ReaderRecord(Apps)]
  BY DEF AgentPolicyInv, AgentReadersSound
<1>2. \A s \in Agent!Reader : agentReader'[s] = IF s = r THEN n ELSE agentReader[s]
  BY DEF AgentPolicyInv, AgentReadersSound
<1>3. \A s \in Agent!Reader : ReaderSound(Apps, agentAgent, agentPolicy, agentReader'[s])
  BY <1>2 DEF AgentPolicyInv, AgentReadersSound
<1>4. AgentReadersSound'
  BY <1>1, <1>3 DEF AgentReadersSound
<1>5. QED
  BY <1>4 DEF AgentPolicyInv

LEMMA AgentReads ==
  ASSUME AgentPolicyInv, NEW r \in Agent!Reader, Agent!Reads(r)
  PROVE  AgentPolicyInv'
<1> DEFINE a == agentAgent
           p == agentPolicy
           old == agentReader[r]
<1>1. /\ a \in AgentRecord /\ p \in PolicyRecord(Apps) /\ PolicySound(a, p)
      /\ old \in ReaderRecord(Apps) /\ ReaderSound(Apps, a, p, old)
  BY DEF AgentPolicyInv, AgentReadersSound
<1>2. ASSUME NEW n \in ReaderRecord(Apps), ReaderSound(Apps, a, p, n), Agent!Put(r, n)
      PROVE  AgentPolicyInv'
  BY <1>2, AgentTurn DEF Agent!Put
<1> HIDE DEF a, p, old
<1>3. CASE Agent!Check(r)
  <2>1. PICK n : n = [Unread(Apps) EXCEPT !.pc = "alive", !.life = a.life, !.seen = {p.text} \ {Torn}]
    OBVIOUS
  <2>2. p.ready /\ Agent!Put(r, n)
    BY <1>3, <2>1, AgentNames DEF Agent!Check, Agent!Alive, a, p
  <2>3. n \in ReaderRecord(Apps) /\ ReaderSound(Apps, a, p, n)
    BY <1>1, <2>1, <2>2, AgentNames, CheckSound
  <2>4. QED
    BY <1>2, <2>2, <2>3
<1>4. CASE Agent!See(r)
  <2>1. PICK n : n = [old EXCEPT !.pc = IF p.enabled THEN "open" ELSE "idle"]
    OBVIOUS
  <2>2. old.pc = "alive" /\ Agent!Put(r, n)
    BY <1>4, <2>1 DEF Agent!See, old, p
  <2>3. n \in ReaderRecord(Apps) /\ ReaderSound(Apps, a, p, n)
    BY <1>1, <2>1, <2>2, SeeSound
  <2>4. QED
    BY <1>2, <2>2, <2>3
<1>5. ASSUME Agent!Again(r), old.pc \in {"open", "reading"}, old.tries < AgentTries
      PROVE  AgentPolicyInv'
  <2>1. PICK n : n = [old EXCEPT !.pc = "open", !.tries = @ + 1]
    OBVIOUS
  <2>2. Agent!Put(r, n)
    BY <1>5, <2>1 DEF Agent!Again, old
  <2>3. n \in ReaderRecord(Apps) /\ ReaderSound(Apps, a, p, n)
    BY <1>1, <1>5, <2>1, <2>2, AgainSound
  <2>4. QED
    BY <1>2, <2>2, <2>3
<1>6. CASE Agent!Begin(r)
  <2>1. PICK n : n = [old EXCEPT !.pc = "reading", !.before = p.generation, !.text = p.text]
    OBVIOUS
  <2>2. /\ old.pc = "open" /\ old.tries < AgentTries
        /\ IF p.generation % 2 = 0 THEN Agent!Put(r, n) ELSE Agent!Again(r)
    BY <1>6, <2>1 DEF Agent!Begin, Agent!Even, old, p
  <2>3. CASE p.generation % 2 = 0
    <3>1. n \in ReaderRecord(Apps) /\ ReaderSound(Apps, a, p, n)
      BY <1>1, <2>1, <2>2, <2>3, BeginSound
    <3>2. QED
      BY <1>2, <2>2, <2>3, <3>1
  <2>4. QED
    BY <1>5, <2>2, <2>3
<1>7. ASSUME NEW got, \/ old.pc = "open" /\ got = Apps
                      \/ /\ old.pc = "reading" /\ p.generation = old.before
                         /\ got = IF p.text = old.text THEN p.text ELSE Torn,
             Agent!Read(r, got)
      PROVE  AgentPolicyInv'
  <2>1. PICK n : n = [old EXCEPT !.pc = "read", !.got = got, !.tries = 0, !.before = 0, !.text = {}]
    OBVIOUS
  <2>2. Agent!Put(r, n)
    BY <1>7, <2>1 DEF Agent!Read, old
  <2>3. n \in ReaderRecord(Apps) /\ ReaderSound(Apps, a, p, n)
    BY <1>1, <1>7, <2>1, ReadSound
  <2>4. QED
    BY <1>2, <2>2, <2>3
<1>8. CASE Agent!End(r)
  <2>1. PICK got : got = IF p.text = old.text THEN p.text ELSE Torn
    OBVIOUS
  <2>2. /\ old.pc = "reading"
        /\ IF p.generation = old.before THEN Agent!Read(r, got) ELSE Agent!Again(r)
    BY <1>8, <2>1, AgentNames DEF Agent!End, old, p
  <2>3. old.tries < AgentTries
    BY <1>1, <2>2 DEF ReaderSound
  <2>4. CASE p.generation = old.before
    BY <1>7, <2>1, <2>2, <2>4
  <2>5. QED
    BY <1>5, <2>2, <2>3, <2>4
<1>9. CASE Agent!GiveUp(r)
  <2>1. old.pc = "open" /\ Agent!Read(r, Apps)
    BY <1>9, AgentNames DEF Agent!GiveUp, old
  <2>2. QED
    BY <1>7, <2>1
<1>10. QED
  BY <1>3, <1>4, <1>6, <1>8, <1>9 DEF Agent!Reads

\* The agent does something that readers do not see.
LEMMA AgentUnseen ==
  ASSUME AgentPolicyInv, agentAgent' \in AgentRecord, agentPolicy' \in PolicyRecord(Apps),
         agentConfig' \in AgentConfig, PolicySound(agentAgent, agentPolicy)', UNCHANGED agentReader,
         \/ agentAgent'.life > agentAgent.life
         \/ /\ agentAgent'.life = agentAgent.life /\ agentPolicy'.generation = agentPolicy.generation
            /\ agentPolicy'.text = agentPolicy.text
            /\ agentAgent.pc \in {"up", "writing", "down"} => agentAgent'.pc \in {"up", "writing", "down"}
         \/ agentAgent'.life = agentAgent.life /\ agentAgent.pc \notin {"up", "writing", "down"}
  PROVE  AgentPolicyInv'
<1>1. PICK b \in AgentRecord, q \in PolicyRecord(Apps) : b = agentAgent' /\ q = agentPolicy'
  OBVIOUS
<1>2. PolicySound(b, q)
  BY <1>1 DEF PolicySound
<1>3. \A r \in Agent!Reader : ReaderSound(Apps, b, q, agentReader[r])
  BY <1>1, <1>2, QuietKeeps DEF AgentPolicyInv, AgentReadersSound
<1>4. AgentReadersSound'
  BY <1>1, <1>3 DEF AgentPolicyInv, AgentReadersSound, ReaderSound
<1>5. QED
  BY <1>4 DEF AgentPolicyInv

LEMMA AgentAgentStep ==
  ASSUME AgentPolicyInv,
         Agent!Start \/ Agent!Quit \/ Agent!SpawnHost \/ Agent!Crash
           \/ (\E fresh \in BOOLEAN : Agent!Beat(fresh)) \/ (\E enable \in BOOLEAN : Agent!Command(enable))
  PROVE  AgentPolicyInv'
<1>1. PICK a \in AgentRecord, p \in PolicyRecord(Apps), c \in AgentConfig :
        a = agentAgent /\ p = agentPolicy /\ c = agentConfig /\ PolicySound(a, p)
  BY DEF AgentPolicyInv
<1>2. AgentLives \in Nat /\ AgentTries \in Nat
  BY Instances DEF Agent!AgentAssumption
<1>3. CASE Agent!Start
  <2>1. /\ a.life < AgentLives
        /\ agentAgent' = [pc |-> "starting", life |-> a.life + 1, tries |-> 0, owns |-> FALSE]
        /\ agentPolicy' = [ready |-> FALSE, enabled |-> c.enabled, beat |-> TRUE, generation |-> 0,
                          text |-> {}]
        /\ UNCHANGED <<agentConfig, agentReader>>
    BY <1>1, <1>3 DEF Agent!Start
  <2>2. agentAgent' \in AgentRecord /\ agentAgent'.life > a.life
    BY <1>2, <2>1 DEF AgentRecord
  <2>3. agentPolicy' \in PolicyRecord(Apps)
    <3>1. {} \in (SUBSET Apps) \cup {Torn} /\ c.enabled \in BOOLEAN
      BY DEF AgentConfig
    <3>2. QED
      BY <2>1, <3>1 DEF PolicyRecord
  <2>4. PolicySound(agentAgent, agentPolicy)'
    BY <2>1 DEF PolicySound, Torn
  <2>5. QED
    BY <1>1, <2>1, <2>2, <2>3, <2>4, AgentUnseen
<1>4. ASSUME UNCHANGED <<agentReader>>, agentConfig' \in AgentConfig,
             agentAgent' \in AgentRecord, agentAgent'.life = a.life,
             a.pc \in {"up", "writing", "down"} => agentAgent'.pc \in {"up", "writing", "down"},
             agentPolicy' \in PolicyRecord(Apps), agentPolicy'.generation = p.generation, agentPolicy'.text = p.text,
             PolicySound(agentAgent, agentPolicy)'
      PROVE  AgentPolicyInv'
  BY <1>1, <1>4, AgentUnseen
<1>5. CASE Agent!Quit
  <2>1. /\ a.pc = "up" /\ agentAgent' = [a EXCEPT !.pc = "down"]
        /\ agentPolicy' = [p EXCEPT !.enabled = FALSE, !.ready = FALSE] /\ UNCHANGED <<agentConfig, agentReader>>
    BY <1>1, <1>5 DEF Agent!Quit, Agent!At
  <2>2. agentAgent' \in AgentRecord /\ agentAgent'.life = a.life /\ agentAgent'.pc = "down"
    BY <2>1 DEF AgentRecord
  <2>3. /\ agentPolicy' \in PolicyRecord(Apps) /\ agentPolicy'.generation = p.generation
        /\ agentPolicy'.text = p.text
    BY <2>1 DEF PolicyRecord
  <2>4. PolicySound(agentAgent, agentPolicy)'
    BY <1>1, <2>2, <2>3 DEF PolicySound
  <2>5. QED
    BY <1>1, <1>4, <2>1, <2>2, <2>3, <2>4
<1>6. CASE Agent!SpawnHost
  <2>1. PICK owns \in BOOLEAN :
          /\ a.tries < AgentTries /\ agentAgent' = [a EXCEPT !.tries = @ + 1, !.owns = owns]
          /\ UNCHANGED <<agentPolicy, agentConfig, agentReader>>
    BY <1>1, <1>6 DEF Agent!SpawnHost
  <2>2. a.tries + 1 \in 0..AgentTries
    BY <1>2, <2>1 DEF AgentRecord
  <2>3. agentAgent' \in AgentRecord /\ agentAgent'.life = a.life /\ agentAgent'.pc = a.pc
    BY <2>1, <2>2 DEF AgentRecord
  <2>4. PolicySound(agentAgent, agentPolicy)'
    BY <1>1, <2>1, <2>3 DEF PolicySound
  <2>5. QED
    BY <1>1, <1>4, <2>1, <2>3, <2>4
<1>7. CASE Agent!Crash
  <2>1. agentAgent' = [a EXCEPT !.pc = "down"] /\ UNCHANGED <<agentPolicy, agentConfig, agentReader>>
    BY <1>1, <1>7 DEF Agent!Crash
  <2>2. agentAgent' \in AgentRecord /\ agentAgent'.life = a.life /\ agentAgent'.pc = "down"
    BY <2>1 DEF AgentRecord
  <2>3. PolicySound(agentAgent, agentPolicy)'
    BY <1>1, <2>1, <2>2 DEF PolicySound
  <2>4. QED
    BY <1>1, <1>4, <2>1, <2>2, <2>3
<1>8. ASSUME NEW fresh \in BOOLEAN, Agent!Beat(fresh) PROVE AgentPolicyInv'
  <2>1. agentPolicy' = [p EXCEPT !.beat = fresh] /\ UNCHANGED <<agentAgent, agentConfig, agentReader>>
    BY <1>1, <1>8 DEF Agent!Beat
  <2>2. /\ agentPolicy' \in PolicyRecord(Apps) /\ agentPolicy'.generation = p.generation
        /\ agentPolicy'.text = p.text /\ agentPolicy'.ready = p.ready
    BY <2>1 DEF PolicyRecord
  <2>3. PolicySound(agentAgent, agentPolicy)'
    BY <1>1, <2>1, <2>2 DEF PolicySound
  <2>4. QED
    BY <1>1, <1>4, <2>1, <2>2, <2>3
<1>9. ASSUME NEW enable \in BOOLEAN, Agent!Command(enable) PROVE AgentPolicyInv'
  <2>1. /\ agentPolicy' = [p EXCEPT !.enabled = enable] /\ agentConfig' = [c EXCEPT !.enabled = enable]
        /\ UNCHANGED <<agentAgent, agentReader>>
    BY <1>1, <1>9 DEF Agent!Command
  <2>2. /\ agentPolicy' \in PolicyRecord(Apps) /\ agentPolicy'.generation = p.generation
        /\ agentPolicy'.text = p.text /\ agentPolicy'.ready = p.ready
    BY <2>1 DEF PolicyRecord
  <2>3. agentConfig' \in AgentConfig
    BY <2>1 DEF AgentConfig
  <2>4. PolicySound(agentAgent, agentPolicy)'
    BY <1>1, <2>1, <2>2 DEF PolicySound
  <2>5. QED
    BY <1>1, <1>4, <2>1, <2>2, <2>3, <2>4
<1>10. QED
  BY <1>3, <1>5, <1>6, <1>7, <1>8, <1>9

LEMMA AgentWriteStep ==
  ASSUME AgentPolicyInv,
         Agent!WriteBegins \/ Agent!Ready
           \/ (\E text \in Agent!Text : Agent!WriteEnds(text) /\ text = agentConfig.text)
  PROVE  AgentPolicyInv'
<1>1. PICK a \in AgentRecord, p \in PolicyRecord(Apps) :
        a = agentAgent /\ p = agentPolicy /\ PolicySound(a, p)
  BY DEF AgentPolicyInv
<1>2. p.generation \in Nat /\ p.text \in (SUBSET Apps) \cup {Torn}
  BY DEF PolicyRecord
<1>3. CASE Agent!WriteBegins
  <2>1. /\ a.pc \in {"starting", "up"} /\ agentPolicy' = [p EXCEPT !.generation = @ + 1, !.text = Torn]
        /\ agentAgent' = [a EXCEPT !.pc = IF @ = "up" THEN "writing" ELSE "first"]
        /\ UNCHANGED <<agentConfig, agentReader>>
    BY <1>1, <1>3, AgentNames DEF Agent!WriteBegins
  <2>2. PICK b \in AgentRecord : /\ b = agentAgent' /\ b.life = a.life
                                 /\ b.pc = IF a.pc = "up" THEN "writing" ELSE "first"
    BY <2>1 DEF AgentRecord
  <2>3. PICK q \in PolicyRecord(Apps) :
          q = agentPolicy' /\ q.generation = p.generation + 1 /\ q.text = Torn /\ q.ready = p.ready
    <3>1. p.generation + 1 \in Nat /\ Torn \in (SUBSET Apps) \cup {Torn}
      BY <1>2
    <3>2. /\ agentPolicy' \in PolicyRecord(Apps) /\ agentPolicy'.generation = p.generation + 1
          /\ agentPolicy'.text = Torn /\ agentPolicy'.ready = p.ready
      BY <2>1, <3>1 DEF PolicyRecord
    <3>3. QED
      BY <3>2
  <2>4. PolicySound(b, q)
    BY <1>1, <1>2, <2>1, <2>2, <2>3, Parity DEF PolicySound
  <2>5. PolicySound(agentAgent, agentPolicy)'
    BY <2>2, <2>3, <2>4 DEF PolicySound
  <2>6. CASE a.pc = "up"
    <3>1. \A r \in Agent!Reader : ReaderSound(Apps, b, q, agentReader[r])
      BY <1>1, <2>2, <2>3, <2>6, BeginsKeeps DEF AgentPolicyInv, AgentReadersSound
    <3>2. AgentReadersSound'
      BY <2>1, <2>2, <2>3, <3>1 DEF AgentPolicyInv, AgentReadersSound, ReaderSound
    <3>3. QED
      BY <2>1, <2>2, <2>3, <2>5, <3>2 DEF AgentPolicyInv
  <2>7. CASE a.pc = "starting"
    BY <1>1, <2>1, <2>2, <2>3, <2>5, <2>7, AgentUnseen DEF AgentPolicyInv
  <2>8. QED
    BY <2>1, <2>6, <2>7
<1>4. ASSUME NEW text \in SUBSET Apps, agentReader' = Agent!Seeing(text), UNCHANGED agentConfig,
             NEW b \in AgentRecord, b = agentAgent', b.life = a.life,
             NEW q \in PolicyRecord(Apps), q = agentPolicy', q.text = text, PolicySound(b, q),
             \/ a.pc = "writing" /\ b.pc = "up" /\ q.generation = p.generation + 1
             \/ a.pc \in {"starting", "loaded"}
      PROVE  AgentPolicyInv'
  <2>1. agentReader' = [r \in Agent!Reader |-> Shown(agentReader[r], text)]
    BY <1>4 DEF Agent!Seeing, Shown
  <2>2. \A r \in Agent!Reader : agentReader[r] \in ReaderRecord(Apps) /\ ReaderSound(Apps, a, p, agentReader[r])
    BY <1>1 DEF AgentPolicyInv, AgentReadersSound
  <2>3. \A r \in Agent!Reader : Shown(agentReader[r], text) \in ReaderRecord(Apps)
    BY <1>4, <2>2, ShownIs
  <2>4. \A r \in Agent!Reader : ReaderSound(Apps, b, q, Shown(agentReader[r], text))
    BY <1>4, <2>2, EndsKeeps
  <2>5. AgentReadersSound'
    <3>1. agentReader' \in [Agent!Reader -> ReaderRecord(Apps)]
      BY <2>1, <2>3
    <3>2. \A r \in Agent!Reader : ReaderSound(Apps, agentAgent', agentPolicy', agentReader'[r])
      BY <1>4, <2>1, <2>4
    <3>3. QED
      BY <3>1, <3>2 DEF AgentReadersSound, ReaderSound
  <2>6. PolicySound(agentAgent, agentPolicy)'
    BY <1>4 DEF PolicySound
  <2>7. QED
    BY <1>4, <2>5, <2>6 DEF AgentPolicyInv
<1>5. CASE Agent!Ready
  <2>1. /\ a.pc \in {"starting", "loaded"} /\ agentPolicy' = [p EXCEPT !.ready = TRUE]
        /\ agentAgent' = [a EXCEPT !.pc = "up"] /\ agentReader' = Agent!Seeing(p.text) /\ UNCHANGED agentConfig
    BY <1>1, <1>5 DEF Agent!Ready
  <2>2. PICK b \in AgentRecord : b = agentAgent' /\ b.life = a.life /\ b.pc = "up"
    BY <2>1 DEF AgentRecord
  <2>3. PICK q \in PolicyRecord(Apps) :
          q = agentPolicy' /\ q.generation = p.generation /\ q.text = p.text /\ q.ready
    <3>1. p.generation \in Nat /\ p.text \in (SUBSET Apps) \cup {Torn}
      BY <1>2
    <3>2. /\ agentPolicy' \in PolicyRecord(Apps) /\ agentPolicy'.generation = p.generation
          /\ agentPolicy'.text = p.text /\ agentPolicy'.ready
      BY <2>1, <3>1 DEF PolicyRecord
    <3>3. QED
      BY <3>2
  <2>4. p.text \in SUBSET Apps /\ PolicySound(b, q)
    BY <1>1, <1>2, <2>1, <2>2, <2>3 DEF PolicySound
  <2>5. QED
    BY <1>4, <2>1, <2>2, <2>3, <2>4
<1>6. ASSUME NEW text \in SUBSET Apps, Agent!WriteEnds(text) PROVE AgentPolicyInv'
  <2>1. /\ a.pc \in {"writing", "first"}
        /\ agentPolicy' = [p EXCEPT !.generation = @ + 1, !.text = text]
        /\ agentAgent' = [a EXCEPT !.pc = IF @ = "writing" THEN "up" ELSE "loaded"]
        /\ agentReader' = IF a.pc = "writing" THEN Agent!Seeing(text) ELSE agentReader
        /\ UNCHANGED agentConfig
    BY <1>1, <1>6 DEF Agent!WriteEnds, Agent!At
  <2>2. PICK b \in AgentRecord : /\ b = agentAgent' /\ b.life = a.life
                                 /\ b.pc = IF a.pc = "writing" THEN "up" ELSE "loaded"
    BY <2>1 DEF AgentRecord
  <2>3. PICK q \in PolicyRecord(Apps) :
          q = agentPolicy' /\ q.generation = p.generation + 1 /\ q.text = text /\ q.ready = p.ready
    <3>1. p.generation + 1 \in Nat /\ text \in (SUBSET Apps) \cup {Torn}
      BY <1>2
    <3>2. /\ agentPolicy' \in PolicyRecord(Apps) /\ agentPolicy'.generation = p.generation + 1
          /\ agentPolicy'.text = text /\ agentPolicy'.ready = p.ready
      BY <2>1, <3>1 DEF PolicyRecord
    <3>3. QED
      BY <3>2
  <2>4. PolicySound(b, q)
    BY <1>1, <1>2, <2>1, <2>2, <2>3, AgentNames, Parity DEF PolicySound
  <2>5. CASE a.pc = "writing"
    BY <1>4, <2>1, <2>2, <2>3, <2>4, <2>5
  <2>6. CASE a.pc = "first"
    <3>1. PolicySound(agentAgent, agentPolicy)'
      BY <2>2, <2>3, <2>4 DEF PolicySound
    <3>2. QED
      BY <1>1, <2>1, <2>2, <2>3, <2>6, <3>1, AgentUnseen DEF AgentPolicyInv
  <2>7. QED
    BY <2>1, <2>5, <2>6
<1>7. QED
  BY <1>3, <1>5, <1>6, AgentNames

\* The host's record of what it reads, and what happens elsewhere.
LEMMA AgentHostTurn ==
  ASSUME AgentPolicyInv,
         Agent!Leave \/ Agent!Snapshot \/ Agent!Publish \/ Agent!TornDown
           \/ \E t \in AgentThreads : Agent!Decides(t)
  PROVE  AgentPolicyInv'
<1>1. ASSUME NEW r \in Agent!Reader, agentReader' = [agentReader EXCEPT ![r] = Unread(Apps)],
             UNCHANGED <<agentAgent, agentPolicy, agentConfig>>
      PROVE  AgentPolicyInv'
  <2>1. Unread(Apps) \in ReaderRecord(Apps) /\ ReaderSound(Apps, agentAgent, agentPolicy, Unread(Apps))
    BY NotReadingSound DEF AgentPolicyInv
  <2>2. QED
    BY <1>1, <2>1, AgentTurn
<1>2. CASE Agent!Leave \/ Agent!Publish \/ Agent!TornDown
  BY <1>1, <1>2, AgentNames DEF Agent!Leave, Agent!Publish, Agent!TornDown
<1>3. ASSUME NEW t \in AgentThreads, Agent!Decides(t) PROVE AgentPolicyInv'
  BY <1>1, <1>3, AgentNames DEF Agent!Decides, Agent!Put
<1>4. CASE Agent!Snapshot
  <2>1. PICK n : n = Using(Apps, agentReader["host"].got)
    OBVIOUS
  <2>2. agentReader' = [agentReader EXCEPT !["host"] = n] /\ UNCHANGED <<agentAgent, agentPolicy, agentConfig>>
    BY <1>4, <2>1, AgentNames DEF Agent!Snapshot, Using
  <2>3. n \in ReaderRecord(Apps) /\ ReaderSound(Apps, agentAgent, agentPolicy, n)
    BY <2>1, AgentNames, UsingSound DEF AgentPolicyInv, AgentReadersSound
  <2>4. QED
    BY <2>2, <2>3, AgentNames, AgentTurn
<1>5. QED
  BY <1>2, <1>3, <1>4

LEMMA AgentElsewhere ==
  ASSUME AgentPolicyInv, UNCHANGED <<agentAgent, agentPolicy, agentReader>>, agentConfig' \in AgentConfig
  PROVE  AgentPolicyInv'
BY DEF AgentPolicyInv, AgentReadersSound, ReaderSound, PolicySound

LEMMA AgentPolicyStep ==
  ASSUME AgentPolicyInv, Agent!Next
  PROVE  AgentPolicyInv'
<1>1. ASSUME NEW text \in Agent!Text, Agent!Edit(text) PROVE AgentPolicyInv'
  <2>1. PICK c \in AgentConfig : c = agentConfig
    BY DEF AgentPolicyInv
  <2>2. agentConfig' = [c EXCEPT !.text = text, !.edits = @ + 1]
    BY <1>1, <2>1 DEF Agent!Edit
  <2>3. agentConfig' \in AgentConfig
    <3>1. text \in SUBSET Apps /\ c.edits + 1 \in Nat
      BY AgentNames DEF AgentConfig
    <3>2. QED
      BY <2>2, <3>1 DEF AgentConfig
  <2>4. QED
    BY <1>1, <2>3, AgentElsewhere DEF Agent!Edit
<1>2. CASE Agent!Worker
  <2>1. ASSUME UNCHANGED <<agentAgent, agentPolicy, agentConfig, agentReader>> PROVE AgentPolicyInv'
    BY <2>1, AgentElsewhere DEF AgentPolicyInv
  <2>2. CASE Agent!Open
    BY <2>1, <2>2 DEF Agent!Open
  <2>3. ASSUME NEW state, Agent!Attach(state) PROVE AgentPolicyInv'
    BY <2>1, <2>3 DEF Agent!Attach
  <2>4. ASSUME NEW p \in AppPids, Agent!Consider(p) PROVE AgentPolicyInv'
    BY <2>1, <2>4 DEF Agent!Consider, Agent!Recorded
  <2>5. CASE Agent!HostReads
    BY <2>5, AgentReads, AgentNames DEF Agent!HostReads
  <2>6. QED
    BY <1>2, <2>2, <2>3, <2>4, <2>5, AgentHostTurn DEF Agent!Worker
<1>3. ASSUME NEW t \in AgentThreads, Agent!AdapterReads(t) PROVE AgentPolicyInv'
  BY <1>3, AgentReads, AgentNames DEF Agent!AdapterReads
<1>4. CASE Agent!Timer \/ \E p \in AppPids : Agent!Exits(p) \/ \E app \in Apps, born \in 1..AgentBorn : Agent!Launched(p, app, born)
  <2>1. UNCHANGED <<agentAgent, agentPolicy, agentConfig, agentReader>>
    BY <1>4 DEF Agent!Timer, Agent!Exits, Agent!Launched
  <2>2. QED
    BY <2>1, AgentElsewhere DEF AgentPolicyInv
<1>5. QED
  BY <1>1, <1>2, <1>3, <1>4, AgentAgentStep, AgentWriteStep, AgentHostTurn DEF Agent!Next

LEMMA AgentPolicyStarts ==
  ASSUME Agent!Init
  PROVE  AgentPolicyInv
<1>1. AgentLives \in Nat /\ AgentTries \in Nat
  BY Instances DEF Agent!AgentAssumption
<1>2. agentAgent \in AgentRecord /\ agentAgent.pc = "down"
  BY <1>1 DEF Agent!Init, AgentRecord
<1>3. agentPolicy \in PolicyRecord(Apps) /\ ~agentPolicy.ready /\ agentPolicy.text # Torn
  <2>1. {} \in (SUBSET Apps) \cup {Torn}
    OBVIOUS
  <2>2. QED
    BY <2>1 DEF Agent!Init, PolicyRecord, Torn
<1>4. agentConfig \in AgentConfig
  <2>1. PICK text \in SUBSET Apps : agentConfig = [text |-> text, enabled |-> TRUE, edits |-> 0]
    BY AgentNames DEF Agent!Init
  <2>2. QED
    BY <2>1 DEF AgentConfig
<1>5. agentReader = [r \in Agent!Reader |-> Unread(Apps)]
  BY AgentNames DEF Agent!Init
<1>6. AgentReadersSound
  BY <1>2, <1>3, <1>5, NotReadingSound DEF AgentReadersSound
<1>7. PolicySound(agentAgent, agentPolicy)
  BY <1>2, <1>3 DEF PolicySound
<1>8. QED
  BY <1>2, <1>3, <1>4, <1>6, <1>7 DEF AgentPolicyInv

-----------------------------------------------------------------------------
(***************************************************************************)
(* The same for an adapter, in an instance without processes.             *)
(***************************************************************************)
AdapterConfig == [text : SUBSET AdapterApps, enabled : BOOLEAN, edits : Nat]
AdapterReadersSound ==
  /\ adapterReader \in [Adapter!Reader -> ReaderRecord(AdapterApps)]
  /\ \A r \in Adapter!Reader : ReaderSound(AdapterApps, adapterAgent, adapterPolicy, adapterReader[r])
AdapterPolicyInv ==
  /\ adapterAgent \in AgentRecord /\ adapterPolicy \in PolicyRecord(AdapterApps) /\ adapterConfig \in AdapterConfig
  /\ PolicySound(adapterAgent, adapterPolicy) /\ AdapterReadersSound

LEMMA AdapterNames ==
  /\ Adapter!Torn = Torn /\ Adapter!NotReading = Unread(AdapterApps) /\ Adapter!Text = SUBSET AdapterApps /\ Adapter!All = AdapterApps
  /\ Torn \notin SUBSET AdapterApps /\ "torn" \notin AdapterApps /\ "host" \in Adapter!Reader /\ Adapter!Host = "host"
  /\ \A t \in AdapterThreads : t \in Adapter!Reader /\ t # "host"
<1>1. "torn" \notin AdapterApps /\ "host" \notin AdapterThreads
  BY Instances DEF Adapter!AgentAssumption
<1>2. QED
  BY <1>1 DEF Adapter!Torn, Torn, Adapter!NotReading, Unread, Adapter!Text, Adapter!All, Adapter!Reader, Adapter!Host

\* One reader's record is replaced.
LEMMA AdapterTurn ==
  ASSUME AdapterPolicyInv, NEW r \in Adapter!Reader, NEW n \in ReaderRecord(AdapterApps),
         ReaderSound(AdapterApps, adapterAgent, adapterPolicy, n), adapterReader' = [adapterReader EXCEPT ![r] = n],
         UNCHANGED <<adapterAgent, adapterPolicy, adapterConfig>>
  PROVE  AdapterPolicyInv'
<1>1. adapterReader' \in [Adapter!Reader -> ReaderRecord(AdapterApps)]
  BY DEF AdapterPolicyInv, AdapterReadersSound
<1>2. \A s \in Adapter!Reader : adapterReader'[s] = IF s = r THEN n ELSE adapterReader[s]
  BY DEF AdapterPolicyInv, AdapterReadersSound
<1>3. \A s \in Adapter!Reader : ReaderSound(AdapterApps, adapterAgent, adapterPolicy, adapterReader'[s])
  BY <1>2 DEF AdapterPolicyInv, AdapterReadersSound
<1>4. AdapterReadersSound'
  BY <1>1, <1>3 DEF AdapterReadersSound
<1>5. QED
  BY <1>4 DEF AdapterPolicyInv

LEMMA AdapterReads ==
  ASSUME AdapterPolicyInv, NEW r \in Adapter!Reader, Adapter!Reads(r)
  PROVE  AdapterPolicyInv'
<1> DEFINE a == adapterAgent
           p == adapterPolicy
           old == adapterReader[r]
<1>1. /\ a \in AgentRecord /\ p \in PolicyRecord(AdapterApps) /\ PolicySound(a, p)
      /\ old \in ReaderRecord(AdapterApps) /\ ReaderSound(AdapterApps, a, p, old)
  BY DEF AdapterPolicyInv, AdapterReadersSound
<1>2. ASSUME NEW n \in ReaderRecord(AdapterApps), ReaderSound(AdapterApps, a, p, n), Adapter!Put(r, n)
      PROVE  AdapterPolicyInv'
  BY <1>2, AdapterTurn DEF Adapter!Put
<1> HIDE DEF a, p, old
<1>3. CASE Adapter!Check(r)
  <2>1. PICK n : n = [Unread(AdapterApps) EXCEPT !.pc = "alive", !.life = a.life, !.seen = {p.text} \ {Torn}]
    OBVIOUS
  <2>2. p.ready /\ Adapter!Put(r, n)
    BY <1>3, <2>1, AdapterNames DEF Adapter!Check, Adapter!Alive, a, p
  <2>3. n \in ReaderRecord(AdapterApps) /\ ReaderSound(AdapterApps, a, p, n)
    BY <1>1, <2>1, <2>2, AdapterNames, CheckSound
  <2>4. QED
    BY <1>2, <2>2, <2>3
<1>4. CASE Adapter!See(r)
  <2>1. PICK n : n = [old EXCEPT !.pc = IF p.enabled THEN "open" ELSE "idle"]
    OBVIOUS
  <2>2. old.pc = "alive" /\ Adapter!Put(r, n)
    BY <1>4, <2>1 DEF Adapter!See, old, p
  <2>3. n \in ReaderRecord(AdapterApps) /\ ReaderSound(AdapterApps, a, p, n)
    BY <1>1, <2>1, <2>2, SeeSound
  <2>4. QED
    BY <1>2, <2>2, <2>3
<1>5. ASSUME Adapter!Again(r), old.pc \in {"open", "reading"}, old.tries < AgentTries
      PROVE  AdapterPolicyInv'
  <2>1. PICK n : n = [old EXCEPT !.pc = "open", !.tries = @ + 1]
    OBVIOUS
  <2>2. Adapter!Put(r, n)
    BY <1>5, <2>1 DEF Adapter!Again, old
  <2>3. n \in ReaderRecord(AdapterApps) /\ ReaderSound(AdapterApps, a, p, n)
    BY <1>1, <1>5, <2>1, <2>2, AgainSound
  <2>4. QED
    BY <1>2, <2>2, <2>3
<1>6. CASE Adapter!Begin(r)
  <2>1. PICK n : n = [old EXCEPT !.pc = "reading", !.before = p.generation, !.text = p.text]
    OBVIOUS
  <2>2. /\ old.pc = "open" /\ old.tries < AgentTries
        /\ IF p.generation % 2 = 0 THEN Adapter!Put(r, n) ELSE Adapter!Again(r)
    BY <1>6, <2>1 DEF Adapter!Begin, Adapter!Even, old, p
  <2>3. CASE p.generation % 2 = 0
    <3>1. n \in ReaderRecord(AdapterApps) /\ ReaderSound(AdapterApps, a, p, n)
      BY <1>1, <2>1, <2>2, <2>3, BeginSound
    <3>2. QED
      BY <1>2, <2>2, <2>3, <3>1
  <2>4. QED
    BY <1>5, <2>2, <2>3
<1>7. ASSUME NEW got, \/ old.pc = "open" /\ got = AdapterApps
                      \/ /\ old.pc = "reading" /\ p.generation = old.before
                         /\ got = IF p.text = old.text THEN p.text ELSE Torn,
             Adapter!Read(r, got)
      PROVE  AdapterPolicyInv'
  <2>1. PICK n : n = [old EXCEPT !.pc = "read", !.got = got, !.tries = 0, !.before = 0, !.text = {}]
    OBVIOUS
  <2>2. Adapter!Put(r, n)
    BY <1>7, <2>1 DEF Adapter!Read, old
  <2>3. n \in ReaderRecord(AdapterApps) /\ ReaderSound(AdapterApps, a, p, n)
    BY <1>1, <1>7, <2>1, ReadSound
  <2>4. QED
    BY <1>2, <2>2, <2>3
<1>8. CASE Adapter!End(r)
  <2>1. PICK got : got = IF p.text = old.text THEN p.text ELSE Torn
    OBVIOUS
  <2>2. /\ old.pc = "reading"
        /\ IF p.generation = old.before THEN Adapter!Read(r, got) ELSE Adapter!Again(r)
    BY <1>8, <2>1, AdapterNames DEF Adapter!End, old, p
  <2>3. old.tries < AgentTries
    BY <1>1, <2>2 DEF ReaderSound
  <2>4. CASE p.generation = old.before
    BY <1>7, <2>1, <2>2, <2>4
  <2>5. QED
    BY <1>5, <2>2, <2>3, <2>4
<1>9. CASE Adapter!GiveUp(r)
  <2>1. old.pc = "open" /\ Adapter!Read(r, AdapterApps)
    BY <1>9, AdapterNames DEF Adapter!GiveUp, old
  <2>2. QED
    BY <1>7, <2>1
<1>10. QED
  BY <1>3, <1>4, <1>6, <1>8, <1>9 DEF Adapter!Reads

\* The agent does something that readers do not see.
LEMMA AdapterUnseen ==
  ASSUME AdapterPolicyInv, adapterAgent' \in AgentRecord, adapterPolicy' \in PolicyRecord(AdapterApps),
         adapterConfig' \in AdapterConfig, PolicySound(adapterAgent, adapterPolicy)', UNCHANGED adapterReader,
         \/ adapterAgent'.life > adapterAgent.life
         \/ /\ adapterAgent'.life = adapterAgent.life /\ adapterPolicy'.generation = adapterPolicy.generation
            /\ adapterPolicy'.text = adapterPolicy.text
            /\ adapterAgent.pc \in {"up", "writing", "down"} => adapterAgent'.pc \in {"up", "writing", "down"}
         \/ adapterAgent'.life = adapterAgent.life /\ adapterAgent.pc \notin {"up", "writing", "down"}
  PROVE  AdapterPolicyInv'
<1>1. PICK b \in AgentRecord, q \in PolicyRecord(AdapterApps) : b = adapterAgent' /\ q = adapterPolicy'
  OBVIOUS
<1>2. PolicySound(b, q)
  BY <1>1 DEF PolicySound
<1>3. \A r \in Adapter!Reader : ReaderSound(AdapterApps, b, q, adapterReader[r])
  BY <1>1, <1>2, QuietKeeps DEF AdapterPolicyInv, AdapterReadersSound
<1>4. AdapterReadersSound'
  BY <1>1, <1>3 DEF AdapterPolicyInv, AdapterReadersSound, ReaderSound
<1>5. QED
  BY <1>4 DEF AdapterPolicyInv

LEMMA AdapterAgentStep ==
  ASSUME AdapterPolicyInv,
         Adapter!Start \/ Adapter!Quit \/ Adapter!SpawnHost \/ Adapter!Crash
           \/ (\E fresh \in BOOLEAN : Adapter!Beat(fresh)) \/ (\E enable \in BOOLEAN : Adapter!Command(enable))
  PROVE  AdapterPolicyInv'
<1>1. PICK a \in AgentRecord, p \in PolicyRecord(AdapterApps), c \in AdapterConfig :
        a = adapterAgent /\ p = adapterPolicy /\ c = adapterConfig /\ PolicySound(a, p)
  BY DEF AdapterPolicyInv
<1>2. AgentLives \in Nat /\ AgentTries \in Nat
  BY Instances DEF Adapter!AgentAssumption
<1>3. CASE Adapter!Start
  <2>1. /\ a.life < AgentLives
        /\ adapterAgent' = [pc |-> "starting", life |-> a.life + 1, tries |-> 0, owns |-> FALSE]
        /\ adapterPolicy' = [ready |-> FALSE, enabled |-> c.enabled, beat |-> TRUE, generation |-> 0,
                          text |-> {}]
        /\ UNCHANGED <<adapterConfig, adapterReader>>
    BY <1>1, <1>3 DEF Adapter!Start
  <2>2. adapterAgent' \in AgentRecord /\ adapterAgent'.life > a.life
    BY <1>2, <2>1 DEF AgentRecord
  <2>3. adapterPolicy' \in PolicyRecord(AdapterApps)
    <3>1. {} \in (SUBSET AdapterApps) \cup {Torn} /\ c.enabled \in BOOLEAN
      BY DEF AdapterConfig
    <3>2. QED
      BY <2>1, <3>1 DEF PolicyRecord
  <2>4. PolicySound(adapterAgent, adapterPolicy)'
    BY <2>1 DEF PolicySound, Torn
  <2>5. QED
    BY <1>1, <2>1, <2>2, <2>3, <2>4, AdapterUnseen
<1>4. ASSUME UNCHANGED <<adapterReader>>, adapterConfig' \in AdapterConfig,
             adapterAgent' \in AgentRecord, adapterAgent'.life = a.life,
             a.pc \in {"up", "writing", "down"} => adapterAgent'.pc \in {"up", "writing", "down"},
             adapterPolicy' \in PolicyRecord(AdapterApps), adapterPolicy'.generation = p.generation, adapterPolicy'.text = p.text,
             PolicySound(adapterAgent, adapterPolicy)'
      PROVE  AdapterPolicyInv'
  BY <1>1, <1>4, AdapterUnseen
<1>5. CASE Adapter!Quit
  <2>1. /\ a.pc = "up" /\ adapterAgent' = [a EXCEPT !.pc = "down"]
        /\ adapterPolicy' = [p EXCEPT !.enabled = FALSE, !.ready = FALSE] /\ UNCHANGED <<adapterConfig, adapterReader>>
    BY <1>1, <1>5 DEF Adapter!Quit, Adapter!At
  <2>2. adapterAgent' \in AgentRecord /\ adapterAgent'.life = a.life /\ adapterAgent'.pc = "down"
    BY <2>1 DEF AgentRecord
  <2>3. /\ adapterPolicy' \in PolicyRecord(AdapterApps) /\ adapterPolicy'.generation = p.generation
        /\ adapterPolicy'.text = p.text
    BY <2>1 DEF PolicyRecord
  <2>4. PolicySound(adapterAgent, adapterPolicy)'
    BY <1>1, <2>2, <2>3 DEF PolicySound
  <2>5. QED
    BY <1>1, <1>4, <2>1, <2>2, <2>3, <2>4
<1>6. CASE Adapter!SpawnHost
  <2>1. PICK owns \in BOOLEAN :
          /\ a.tries < AgentTries /\ adapterAgent' = [a EXCEPT !.tries = @ + 1, !.owns = owns]
          /\ UNCHANGED <<adapterPolicy, adapterConfig, adapterReader>>
    BY <1>1, <1>6 DEF Adapter!SpawnHost
  <2>2. a.tries + 1 \in 0..AgentTries
    BY <1>2, <2>1 DEF AgentRecord
  <2>3. adapterAgent' \in AgentRecord /\ adapterAgent'.life = a.life /\ adapterAgent'.pc = a.pc
    BY <2>1, <2>2 DEF AgentRecord
  <2>4. PolicySound(adapterAgent, adapterPolicy)'
    BY <1>1, <2>1, <2>3 DEF PolicySound
  <2>5. QED
    BY <1>1, <1>4, <2>1, <2>3, <2>4
<1>7. CASE Adapter!Crash
  <2>1. adapterAgent' = [a EXCEPT !.pc = "down"] /\ UNCHANGED <<adapterPolicy, adapterConfig, adapterReader>>
    BY <1>1, <1>7 DEF Adapter!Crash
  <2>2. adapterAgent' \in AgentRecord /\ adapterAgent'.life = a.life /\ adapterAgent'.pc = "down"
    BY <2>1 DEF AgentRecord
  <2>3. PolicySound(adapterAgent, adapterPolicy)'
    BY <1>1, <2>1, <2>2 DEF PolicySound
  <2>4. QED
    BY <1>1, <1>4, <2>1, <2>2, <2>3
<1>8. ASSUME NEW fresh \in BOOLEAN, Adapter!Beat(fresh) PROVE AdapterPolicyInv'
  <2>1. adapterPolicy' = [p EXCEPT !.beat = fresh] /\ UNCHANGED <<adapterAgent, adapterConfig, adapterReader>>
    BY <1>1, <1>8 DEF Adapter!Beat
  <2>2. /\ adapterPolicy' \in PolicyRecord(AdapterApps) /\ adapterPolicy'.generation = p.generation
        /\ adapterPolicy'.text = p.text /\ adapterPolicy'.ready = p.ready
    BY <2>1 DEF PolicyRecord
  <2>3. PolicySound(adapterAgent, adapterPolicy)'
    BY <1>1, <2>1, <2>2 DEF PolicySound
  <2>4. QED
    BY <1>1, <1>4, <2>1, <2>2, <2>3
<1>9. ASSUME NEW enable \in BOOLEAN, Adapter!Command(enable) PROVE AdapterPolicyInv'
  <2>1. /\ adapterPolicy' = [p EXCEPT !.enabled = enable] /\ adapterConfig' = [c EXCEPT !.enabled = enable]
        /\ UNCHANGED <<adapterAgent, adapterReader>>
    BY <1>1, <1>9 DEF Adapter!Command
  <2>2. /\ adapterPolicy' \in PolicyRecord(AdapterApps) /\ adapterPolicy'.generation = p.generation
        /\ adapterPolicy'.text = p.text /\ adapterPolicy'.ready = p.ready
    BY <2>1 DEF PolicyRecord
  <2>3. adapterConfig' \in AdapterConfig
    BY <2>1 DEF AdapterConfig
  <2>4. PolicySound(adapterAgent, adapterPolicy)'
    BY <1>1, <2>1, <2>2 DEF PolicySound
  <2>5. QED
    BY <1>1, <1>4, <2>1, <2>2, <2>3, <2>4
<1>10. QED
  BY <1>3, <1>5, <1>6, <1>7, <1>8, <1>9

LEMMA AdapterWriteStep ==
  ASSUME AdapterPolicyInv,
         Adapter!WriteBegins \/ Adapter!Ready
           \/ (\E text \in Adapter!Text : Adapter!WriteEnds(text) /\ text = adapterConfig.text)
  PROVE  AdapterPolicyInv'
<1>1. PICK a \in AgentRecord, p \in PolicyRecord(AdapterApps) :
        a = adapterAgent /\ p = adapterPolicy /\ PolicySound(a, p)
  BY DEF AdapterPolicyInv
<1>2. p.generation \in Nat /\ p.text \in (SUBSET AdapterApps) \cup {Torn}
  BY DEF PolicyRecord
<1>3. CASE Adapter!WriteBegins
  <2>1. /\ a.pc \in {"starting", "up"} /\ adapterPolicy' = [p EXCEPT !.generation = @ + 1, !.text = Torn]
        /\ adapterAgent' = [a EXCEPT !.pc = IF @ = "up" THEN "writing" ELSE "first"]
        /\ UNCHANGED <<adapterConfig, adapterReader>>
    BY <1>1, <1>3, AdapterNames DEF Adapter!WriteBegins
  <2>2. PICK b \in AgentRecord : /\ b = adapterAgent' /\ b.life = a.life
                                 /\ b.pc = IF a.pc = "up" THEN "writing" ELSE "first"
    BY <2>1 DEF AgentRecord
  <2>3. PICK q \in PolicyRecord(AdapterApps) :
          q = adapterPolicy' /\ q.generation = p.generation + 1 /\ q.text = Torn /\ q.ready = p.ready
    <3>1. p.generation + 1 \in Nat /\ Torn \in (SUBSET AdapterApps) \cup {Torn}
      BY <1>2
    <3>2. /\ adapterPolicy' \in PolicyRecord(AdapterApps) /\ adapterPolicy'.generation = p.generation + 1
          /\ adapterPolicy'.text = Torn /\ adapterPolicy'.ready = p.ready
      BY <2>1, <3>1 DEF PolicyRecord
    <3>3. QED
      BY <3>2
  <2>4. PolicySound(b, q)
    BY <1>1, <1>2, <2>1, <2>2, <2>3, Parity DEF PolicySound
  <2>5. PolicySound(adapterAgent, adapterPolicy)'
    BY <2>2, <2>3, <2>4 DEF PolicySound
  <2>6. CASE a.pc = "up"
    <3>1. \A r \in Adapter!Reader : ReaderSound(AdapterApps, b, q, adapterReader[r])
      BY <1>1, <2>2, <2>3, <2>6, BeginsKeeps DEF AdapterPolicyInv, AdapterReadersSound
    <3>2. AdapterReadersSound'
      BY <2>1, <2>2, <2>3, <3>1 DEF AdapterPolicyInv, AdapterReadersSound, ReaderSound
    <3>3. QED
      BY <2>1, <2>2, <2>3, <2>5, <3>2 DEF AdapterPolicyInv
  <2>7. CASE a.pc = "starting"
    BY <1>1, <2>1, <2>2, <2>3, <2>5, <2>7, AdapterUnseen DEF AdapterPolicyInv
  <2>8. QED
    BY <2>1, <2>6, <2>7
<1>4. ASSUME NEW text \in SUBSET AdapterApps, adapterReader' = Adapter!Seeing(text), UNCHANGED adapterConfig,
             NEW b \in AgentRecord, b = adapterAgent', b.life = a.life,
             NEW q \in PolicyRecord(AdapterApps), q = adapterPolicy', q.text = text, PolicySound(b, q),
             \/ a.pc = "writing" /\ b.pc = "up" /\ q.generation = p.generation + 1
             \/ a.pc \in {"starting", "loaded"}
      PROVE  AdapterPolicyInv'
  <2>1. adapterReader' = [r \in Adapter!Reader |-> Shown(adapterReader[r], text)]
    BY <1>4 DEF Adapter!Seeing, Shown
  <2>2. \A r \in Adapter!Reader : adapterReader[r] \in ReaderRecord(AdapterApps) /\ ReaderSound(AdapterApps, a, p, adapterReader[r])
    BY <1>1 DEF AdapterPolicyInv, AdapterReadersSound
  <2>3. \A r \in Adapter!Reader : Shown(adapterReader[r], text) \in ReaderRecord(AdapterApps)
    BY <1>4, <2>2, ShownIs
  <2>4. \A r \in Adapter!Reader : ReaderSound(AdapterApps, b, q, Shown(adapterReader[r], text))
    BY <1>4, <2>2, EndsKeeps
  <2>5. AdapterReadersSound'
    <3>1. adapterReader' \in [Adapter!Reader -> ReaderRecord(AdapterApps)]
      BY <2>1, <2>3
    <3>2. \A r \in Adapter!Reader : ReaderSound(AdapterApps, adapterAgent', adapterPolicy', adapterReader'[r])
      BY <1>4, <2>1, <2>4
    <3>3. QED
      BY <3>1, <3>2 DEF AdapterReadersSound, ReaderSound
  <2>6. PolicySound(adapterAgent, adapterPolicy)'
    BY <1>4 DEF PolicySound
  <2>7. QED
    BY <1>4, <2>5, <2>6 DEF AdapterPolicyInv
<1>5. CASE Adapter!Ready
  <2>1. /\ a.pc \in {"starting", "loaded"} /\ adapterPolicy' = [p EXCEPT !.ready = TRUE]
        /\ adapterAgent' = [a EXCEPT !.pc = "up"] /\ adapterReader' = Adapter!Seeing(p.text) /\ UNCHANGED adapterConfig
    BY <1>1, <1>5 DEF Adapter!Ready
  <2>2. PICK b \in AgentRecord : b = adapterAgent' /\ b.life = a.life /\ b.pc = "up"
    BY <2>1 DEF AgentRecord
  <2>3. PICK q \in PolicyRecord(AdapterApps) :
          q = adapterPolicy' /\ q.generation = p.generation /\ q.text = p.text /\ q.ready
    <3>1. p.generation \in Nat /\ p.text \in (SUBSET AdapterApps) \cup {Torn}
      BY <1>2
    <3>2. /\ adapterPolicy' \in PolicyRecord(AdapterApps) /\ adapterPolicy'.generation = p.generation
          /\ adapterPolicy'.text = p.text /\ adapterPolicy'.ready
      BY <2>1, <3>1 DEF PolicyRecord
    <3>3. QED
      BY <3>2
  <2>4. p.text \in SUBSET AdapterApps /\ PolicySound(b, q)
    BY <1>1, <1>2, <2>1, <2>2, <2>3 DEF PolicySound
  <2>5. QED
    BY <1>4, <2>1, <2>2, <2>3, <2>4
<1>6. ASSUME NEW text \in SUBSET AdapterApps, Adapter!WriteEnds(text) PROVE AdapterPolicyInv'
  <2>1. /\ a.pc \in {"writing", "first"}
        /\ adapterPolicy' = [p EXCEPT !.generation = @ + 1, !.text = text]
        /\ adapterAgent' = [a EXCEPT !.pc = IF @ = "writing" THEN "up" ELSE "loaded"]
        /\ adapterReader' = IF a.pc = "writing" THEN Adapter!Seeing(text) ELSE adapterReader
        /\ UNCHANGED adapterConfig
    BY <1>1, <1>6 DEF Adapter!WriteEnds, Adapter!At
  <2>2. PICK b \in AgentRecord : /\ b = adapterAgent' /\ b.life = a.life
                                 /\ b.pc = IF a.pc = "writing" THEN "up" ELSE "loaded"
    BY <2>1 DEF AgentRecord
  <2>3. PICK q \in PolicyRecord(AdapterApps) :
          q = adapterPolicy' /\ q.generation = p.generation + 1 /\ q.text = text /\ q.ready = p.ready
    <3>1. p.generation + 1 \in Nat /\ text \in (SUBSET AdapterApps) \cup {Torn}
      BY <1>2
    <3>2. /\ adapterPolicy' \in PolicyRecord(AdapterApps) /\ adapterPolicy'.generation = p.generation + 1
          /\ adapterPolicy'.text = text /\ adapterPolicy'.ready = p.ready
      BY <2>1, <3>1 DEF PolicyRecord
    <3>3. QED
      BY <3>2
  <2>4. PolicySound(b, q)
    BY <1>1, <1>2, <2>1, <2>2, <2>3, AdapterNames, Parity DEF PolicySound
  <2>5. CASE a.pc = "writing"
    BY <1>4, <2>1, <2>2, <2>3, <2>4, <2>5
  <2>6. CASE a.pc = "first"
    <3>1. PolicySound(adapterAgent, adapterPolicy)'
      BY <2>2, <2>3, <2>4 DEF PolicySound
    <3>2. QED
      BY <1>1, <2>1, <2>2, <2>3, <2>6, <3>1, AdapterUnseen DEF AdapterPolicyInv
  <2>7. QED
    BY <2>1, <2>5, <2>6
<1>7. QED
  BY <1>3, <1>5, <1>6, AdapterNames

\* The host's record of what it reads, and what happens elsewhere.
LEMMA AdapterHostTurn ==
  ASSUME AdapterPolicyInv,
         Adapter!Leave \/ Adapter!Snapshot \/ Adapter!Publish \/ Adapter!TornDown
           \/ \E t \in AdapterThreads : Adapter!Decides(t)
  PROVE  AdapterPolicyInv'
<1>1. ASSUME NEW r \in Adapter!Reader, adapterReader' = [adapterReader EXCEPT ![r] = Unread(AdapterApps)],
             UNCHANGED <<adapterAgent, adapterPolicy, adapterConfig>>
      PROVE  AdapterPolicyInv'
  <2>1. Unread(AdapterApps) \in ReaderRecord(AdapterApps) /\ ReaderSound(AdapterApps, adapterAgent, adapterPolicy, Unread(AdapterApps))
    BY NotReadingSound DEF AdapterPolicyInv
  <2>2. QED
    BY <1>1, <2>1, AdapterTurn
<1>2. CASE Adapter!Leave \/ Adapter!Publish \/ Adapter!TornDown
  BY <1>1, <1>2, AdapterNames DEF Adapter!Leave, Adapter!Publish, Adapter!TornDown
<1>3. ASSUME NEW t \in AdapterThreads, Adapter!Decides(t) PROVE AdapterPolicyInv'
  BY <1>1, <1>3, AdapterNames DEF Adapter!Decides, Adapter!Put
<1>4. CASE Adapter!Snapshot
  <2>1. PICK n : n = Using(AdapterApps, adapterReader["host"].got)
    OBVIOUS
  <2>2. adapterReader' = [adapterReader EXCEPT !["host"] = n] /\ UNCHANGED <<adapterAgent, adapterPolicy, adapterConfig>>
    BY <1>4, <2>1, AdapterNames DEF Adapter!Snapshot, Using
  <2>3. n \in ReaderRecord(AdapterApps) /\ ReaderSound(AdapterApps, adapterAgent, adapterPolicy, n)
    BY <2>1, AdapterNames, UsingSound DEF AdapterPolicyInv, AdapterReadersSound
  <2>4. QED
    BY <2>2, <2>3, AdapterNames, AdapterTurn
<1>5. QED
  BY <1>2, <1>3, <1>4

LEMMA AdapterElsewhere ==
  ASSUME AdapterPolicyInv, UNCHANGED <<adapterAgent, adapterPolicy, adapterReader>>, adapterConfig' \in AdapterConfig
  PROVE  AdapterPolicyInv'
BY DEF AdapterPolicyInv, AdapterReadersSound, ReaderSound, PolicySound

LEMMA AdapterPolicyStep ==
  ASSUME AdapterPolicyInv, Adapter!Next
  PROVE  AdapterPolicyInv'
<1>1. ASSUME NEW text \in Adapter!Text, Adapter!Edit(text) PROVE AdapterPolicyInv'
  <2>1. PICK c \in AdapterConfig : c = adapterConfig
    BY DEF AdapterPolicyInv
  <2>2. adapterConfig' = [c EXCEPT !.text = text, !.edits = @ + 1]
    BY <1>1, <2>1 DEF Adapter!Edit
  <2>3. adapterConfig' \in AdapterConfig
    <3>1. text \in SUBSET AdapterApps /\ c.edits + 1 \in Nat
      BY AdapterNames DEF AdapterConfig
    <3>2. QED
      BY <2>2, <3>1 DEF AdapterConfig
  <2>4. QED
    BY <1>1, <2>3, AdapterElsewhere DEF Adapter!Edit
<1>2. CASE Adapter!Worker
  <2>1. ASSUME UNCHANGED <<adapterAgent, adapterPolicy, adapterConfig, adapterReader>> PROVE AdapterPolicyInv'
    BY <2>1, AdapterElsewhere DEF AdapterPolicyInv
  <2>2. CASE Adapter!Open
    BY <2>1, <2>2 DEF Adapter!Open
  <2>3. ASSUME NEW state, Adapter!Attach(state) PROVE AdapterPolicyInv'
    BY <2>1, <2>3 DEF Adapter!Attach
  <2>4. ASSUME NEW p \in {}, Adapter!Consider(p) PROVE AdapterPolicyInv'
    BY <2>1, <2>4 DEF Adapter!Consider, Adapter!Recorded
  <2>5. CASE Adapter!HostReads
    BY <2>5, AdapterReads, AdapterNames DEF Adapter!HostReads
  <2>6. QED
    BY <1>2, <2>2, <2>3, <2>4, <2>5, AdapterHostTurn DEF Adapter!Worker
<1>3. ASSUME NEW t \in AdapterThreads, Adapter!AdapterReads(t) PROVE AdapterPolicyInv'
  BY <1>3, AdapterReads, AdapterNames DEF Adapter!AdapterReads
<1>4. CASE Adapter!Timer \/ \E p \in {} : Adapter!Exits(p) \/ \E app \in AdapterApps, born \in 1..0 : Adapter!Launched(p, app, born)
  <2>1. UNCHANGED <<adapterAgent, adapterPolicy, adapterConfig, adapterReader>>
    BY <1>4 DEF Adapter!Timer, Adapter!Exits, Adapter!Launched
  <2>2. QED
    BY <2>1, AdapterElsewhere DEF AdapterPolicyInv
<1>5. QED
  BY <1>1, <1>2, <1>3, <1>4, AdapterAgentStep, AdapterWriteStep, AdapterHostTurn DEF Adapter!Next

LEMMA AdapterPolicyStarts ==
  ASSUME Adapter!Init
  PROVE  AdapterPolicyInv
<1>1. AgentLives \in Nat /\ AgentTries \in Nat
  BY Instances DEF Adapter!AgentAssumption
<1>2. adapterAgent \in AgentRecord /\ adapterAgent.pc = "down"
  BY <1>1 DEF Adapter!Init, AgentRecord
<1>3. adapterPolicy \in PolicyRecord(AdapterApps) /\ ~adapterPolicy.ready /\ adapterPolicy.text # Torn
  <2>1. {} \in (SUBSET AdapterApps) \cup {Torn}
    OBVIOUS
  <2>2. QED
    BY <2>1 DEF Adapter!Init, PolicyRecord, Torn
<1>4. adapterConfig \in AdapterConfig
  <2>1. PICK text \in SUBSET AdapterApps : adapterConfig = [text |-> text, enabled |-> TRUE, edits |-> 0]
    BY AdapterNames DEF Adapter!Init
  <2>2. QED
    BY <2>1 DEF AdapterConfig
<1>5. adapterReader = [r \in Adapter!Reader |-> Unread(AdapterApps)]
  BY AdapterNames DEF Adapter!Init
<1>6. AdapterReadersSound
  BY <1>2, <1>3, <1>5, NotReadingSound DEF AdapterReadersSound
<1>7. PolicySound(adapterAgent, adapterPolicy)
  BY <1>2, <1>3 DEF PolicySound
<1>8. QED
  BY <1>2, <1>3, <1>4, <1>6, <1>7 DEF AdapterPolicyInv

-----------------------------------------------------------------------------
(***************************************************************************)
(* The processes that the host attaches to, and its records of them.       *)
(***************************************************************************)
HostRecord(P) ==
  [pc : {"down", "top", "scan", "opening", "attaching"}, stop : BOOLEAN, todo : SUBSET P,
   pid : P \cup {0}, stamp : Nat]
Process ==
  [live : BOOLEAN, born : Nat, app : Apps \cup {Agent!NoProcess.app}, adapter : {"none", "attached"}]
Status ==
  [born : Nat, attempts : 0..AgentTries, state : {"none", "excluded", "barred", "failed", "attached"},
   seen : BOOLEAN]

AttachTyped ==
  /\ agentHost \in HostRecord(AppPids) /\ agentProcess \in [AppPids -> Process]
  /\ agentRecords \in [AppPids -> Status]

\* From its scan on, the host goes by what it has read; the process that it opens, if it
\* is still the one that was looked at, and the one that it attaches to are not excluded.
HostSound(h, g, processes) ==
  /\ h.pc \in {"scan", "opening", "attaching"} => g.pc = "using"
  /\ h.pc = "opening" =>
       /\ h.pid \in AppPids /\ h.stamp <= processes[h.pid].born
       /\ h.stamp = processes[h.pid].born => processes[h.pid].app \notin g.got
  /\ h.pc = "attaching" =>
       h.pid \in AppPids /\ processes[h.pid].live /\ processes[h.pid].app \notin g.got

\* A record is of a process with this pid, of now or of before.
StatusSound(c, q) ==
  /\ c.born <= q.born
  /\ c.born = q.born /\ c.state = "attached" /\ q.live => q.adapter = "attached"

AttachInv ==
  /\ AttachTyped /\ HostSound(agentHost, agentReader["host"], agentProcess)
  /\ \A p \in AppPids : StatusSound(agentRecords[p], agentProcess[p])

LEMMA PidsAre == 0 \notin AppPids /\ AgentTries \in Nat /\ AgentBorn \in Nat
BY Instances DEF Agent!AgentAssumption

LEMMA NoHostIs ==
  ASSUME NEW P
  PROVE  [pc |-> "down", stop |-> FALSE, todo |-> {}, pid |-> 0, stamp |-> 0] \in HostRecord(P)
BY DEF HostRecord

\* What the host has read is not touched from its scan on.
LEMMA Aside ==
  ASSUME AttachInv, UNCHANGED <<agentHost, agentRecords, agentProcess>>,
         agentHost.pc \in {"scan", "opening", "attaching"} => agentReader'["host"] = agentReader["host"]
  PROVE  AttachInv'
BY DEF AttachInv, AttachTyped, HostSound, StatusSound

LEMMA AsideStep ==
  ASSUME AgentPolicyInv, AttachInv,
         \/ Agent!Start \/ Agent!WriteBegins \/ Agent!Ready \/ Agent!Crash
         \/ \E text \in Agent!Text : Agent!WriteEnds(text) \/ Agent!Edit(text)
         \/ \E fresh \in BOOLEAN : Agent!Beat(fresh)
         \/ \E enable \in BOOLEAN : Agent!Command(enable)
         \/ \E t \in AgentThreads : Agent!AdapterReads(t) \/ Agent!Decides(t)
         \/ Agent!HostReads
  PROVE  AttachInv'
<1>1. CASE \/ Agent!Start \/ Agent!WriteBegins \/ Agent!Crash
           \/ \E text \in Agent!Text : Agent!Edit(text)
           \/ \E fresh \in BOOLEAN : Agent!Beat(fresh)
           \/ \E enable \in BOOLEAN : Agent!Command(enable)
  BY <1>1, Aside
  DEF Agent!Start, Agent!WriteBegins, Agent!Crash, Agent!Edit, Agent!Beat, Agent!Command
<1>2. ASSUME NEW text, agentReader' = Agent!Seeing(text) \/ UNCHANGED agentReader,
             UNCHANGED <<agentHost, agentRecords, agentProcess>>
      PROVE  AttachInv'
  <2>1. agentReader["host"].pc = "using" => agentReader'["host"] = agentReader["host"]
    BY <1>2, AgentNames DEF Agent!Seeing
  <2>2. QED
    BY <1>2, <2>1, Aside DEF AttachInv, HostSound
<1>3. CASE Agent!Ready \/ \E text \in Agent!Text : Agent!WriteEnds(text)
  BY <1>2, <1>3 DEF Agent!Ready, Agent!WriteEnds
<1>4. ASSUME NEW r \in Agent!Reader, NEW n, Agent!Put(r, n), UNCHANGED agentHost,
             r # "host" \/ agentHost.pc = "top"
      PROVE  AttachInv'
  <2>1. agentReader' = [agentReader EXCEPT ![r] = n] /\ UNCHANGED <<agentHost, agentRecords, agentProcess>>
    BY <1>4 DEF Agent!Put
  <2>2. r # "host" => agentReader'["host"] = agentReader["host"]
    BY <2>1, AgentNames DEF AgentPolicyInv, AgentReadersSound
  <2>3. QED
    BY <1>4, <2>1, <2>2, Aside
<1>5. ASSUME NEW r \in Agent!Reader, Agent!Reads(r), UNCHANGED agentHost,
             r # "host" \/ agentHost.pc = "top"
      PROVE  AttachInv'
  <2>1. \E n : Agent!Put(r, n)
    BY <1>5 DEF Agent!Reads, Agent!Check, Agent!See, Agent!Begin, Agent!End, Agent!GiveUp, Agent!Read,
         Agent!Again
  <2>2. QED
    BY <1>4, <1>5, <2>1
<1>6. CASE Agent!HostReads
  BY <1>5, <1>6, AgentNames DEF Agent!HostReads, Agent!HostAt
<1>7. CASE \E t \in AgentThreads : Agent!AdapterReads(t) \/ Agent!Decides(t)
  BY <1>4, <1>5, <1>7, AgentNames DEF Agent!AdapterReads, Agent!Decides
<1>8. QED
  BY <1>1, <1>3, <1>6, <1>7

\* The host stops, begins, or leaves its scan: it is not about to attach.
LEMMA AtRest ==
  ASSUME AttachInv, NEW h \in HostRecord(AppPids), agentHost' = h, h.pc \in {"down", "top"},
         UNCHANGED agentProcess, agentRecords' \in [AppPids -> Status],
         \A p \in AppPids : \/ agentRecords'[p].born = 0 /\ agentRecords'[p].state = "none"
                            \/ /\ agentRecords'[p].born = agentRecords[p].born
                               /\ agentRecords'[p].state = agentRecords[p].state
  PROVE  AttachInv'
<1>1. AttachTyped'
  BY DEF AttachInv, AttachTyped
<1>2. HostSound(agentHost', agentReader'["host"], agentProcess')
  BY DEF HostSound
<1>3. ASSUME NEW p \in AppPids PROVE StatusSound(agentRecords'[p], agentProcess'[p])
  BY <1>3 DEF AttachInv, AttachTyped, StatusSound, Process
<1>4. QED
  BY <1>1, <1>2, <1>3 DEF AttachInv, HostSound, StatusSound

LEMMA RestStep ==
  ASSUME AgentPolicyInv, AttachInv,
         Agent!SpawnHost \/ Agent!Leave \/ Agent!Publish \/ Agent!TornDown
  PROVE  AttachInv'
<1> DEFINE none == [born |-> 0, attempts |-> 0, state |-> "none", seen |-> FALSE]
<1>1. /\ none \in Status /\ none.born = 0 /\ none.state = "none"
      /\ agentHost \in HostRecord(AppPids) /\ agentRecords \in [AppPids -> Status]
  BY PidsAre DEF Status, AttachInv, AttachTyped
<1> HIDE DEF none
<1>2. Agent!NoRecord = none /\ Agent!NoHost = [pc |-> "down", stop |-> FALSE, todo |-> {}, pid |-> 0, stamp |-> 0]
  BY DEF Agent!NoRecord, Agent!NoHost, none, Agent!NoPid
<1>3. Agent!NoHost \in HostRecord(AppPids) /\ Agent!NoHost.pc = "down"
  BY <1>2, NoHostIs
<1>4. CASE Agent!Leave \/ Agent!TornDown
  BY <1>1, <1>3, <1>4, AtRest DEF Agent!Leave, Agent!TornDown
<1>5. CASE Agent!SpawnHost
  <2>1. PICK h : h = [Agent!NoHost EXCEPT !.pc = "top"]
    OBVIOUS
  <2>2. h \in HostRecord(AppPids) /\ h.pc = "top"
    BY <1>3, <2>1 DEF HostRecord
  <2>3. UNCHANGED <<agentReader, agentProcess>>
    BY <1>5 DEF Agent!SpawnHost
  <2>4. CASE agentHost' = h /\ agentRecords' = [p \in AppPids |-> none]
    BY <1>1, <2>2, <2>3, <2>4, AtRest
  <2>5. CASE UNCHANGED <<agentHost, agentRecords>>
    BY <2>3, <2>5, Aside
  <2>6. QED
    BY <1>2, <1>5, <2>1, <2>4, <2>5 DEF Agent!SpawnHost
<1>6. CASE Agent!Publish
  <2>1. PICK h \in HostRecord(AppPids) : h = agentHost
    BY <1>1
  <2>2. PICK new : new = [h EXCEPT !.pc = "top", !.todo = {}]
    OBVIOUS
  <2>3. new \in HostRecord(AppPids) /\ new.pc = "top"
    BY <2>2 DEF HostRecord
  <2>4. /\ agentHost' = new /\ UNCHANGED agentProcess
        /\ agentRecords' = [p \in AppPids |-> IF agentRecords[p].seen THEN agentRecords[p] ELSE none]
    BY <1>2, <1>6, <2>1, <2>2 DEF Agent!Publish
  <2>5. agentRecords' \in [AppPids -> Status]
    BY <1>1, <2>4
  <2>6. QED
    BY <1>1, <2>3, <2>4, <2>5, AtRest
<1>7. QED
  BY <1>4, <1>5, <1>6

\* Quit and the window's timer tell the host to stop.
LEMMA StopStep ==
  ASSUME AttachInv, Agent!Quit \/ Agent!Timer
  PROVE  AttachInv'
<1>1. PICK h \in HostRecord(AppPids) : h = agentHost
  BY DEF AttachInv, AttachTyped
<1>2. PICK stop \in BOOLEAN : agentHost' = [h EXCEPT !.stop = stop]
  BY <1>1 DEF Agent!Quit, Agent!Timer
<1>3. PICK new \in HostRecord(AppPids) :
        new = agentHost' /\ new.pc = h.pc /\ new.pid = h.pid /\ new.stamp = h.stamp
  BY <1>2 DEF HostRecord
<1>4. UNCHANGED <<agentReader, agentRecords, agentProcess>>
  BY DEF Agent!Quit, Agent!Timer
<1>5. HostSound(new, agentReader["host"], agentProcess)
  BY <1>1, <1>3 DEF AttachInv, HostSound
<1>6. QED
  BY <1>3, <1>4, <1>5 DEF AttachInv, AttachTyped, HostSound, StatusSound

LEMMA SnapshotStep ==
  ASSUME AgentPolicyInv, AttachInv, Agent!Snapshot
  PROVE  AttachInv'
<1>1. PICK h \in HostRecord(AppPids) : h = agentHost
  BY DEF AttachInv, AttachTyped
<1>2. PICK todo \in SUBSET AppPids : agentHost' = [h EXCEPT !.pc = "scan", !.todo = todo]
  BY <1>1 DEF Agent!Snapshot
<1>3. PICK new \in HostRecord(AppPids) : new = agentHost' /\ new.pc = "scan"
  <2>1. agentHost' \in HostRecord(AppPids) /\ agentHost'.pc = "scan"
    BY <1>2 DEF HostRecord
  <2>2. QED
    BY <2>1
<1>4. agentReader'["host"].pc = "using"
  <2>1. PICK n : n = Using(Apps, agentReader["host"].got)
    OBVIOUS
  <2>2. agentReader' = [agentReader EXCEPT !["host"] = n]
    BY <2>1, AgentNames DEF Agent!Snapshot, Using
  <2>3. n.pc = "using"
    BY <2>1, UsingIs
  <2>4. QED
    BY <2>2, <2>3, AgentNames DEF AgentPolicyInv, AgentReadersSound
<1>5. /\ agentRecords' \in [AppPids -> Status] /\ UNCHANGED agentProcess
      /\ \A p \in AppPids : agentRecords'[p].born = agentRecords[p].born
                            /\ agentRecords'[p].state = agentRecords[p].state
  <2>1. /\ agentRecords' = [p \in AppPids |-> [agentRecords[p] EXCEPT !.seen = FALSE]]
        /\ UNCHANGED agentProcess
    BY DEF Agent!Snapshot
  <2>2. ASSUME NEW c \in Status, NEW d, d = [c EXCEPT !.seen = FALSE]
        PROVE  d \in Status /\ d.born = c.born /\ d.state = c.state
    BY <2>2 DEF Status
  <2>3. \A p \in AppPids : agentRecords[p] \in Status
    BY DEF AttachInv, AttachTyped
  <2>4. QED
    BY <2>1, <2>2, <2>3
<1>6. HostSound(agentHost, agentReader["host"], agentProcess)'
  BY <1>3, <1>4 DEF HostSound
<1>7. \A p \in AppPids : StatusSound(agentRecords[p], agentProcess[p])'
  BY <1>5 DEF AttachInv, StatusSound
<1>8. QED
  BY <1>3, <1>5, <1>6, <1>7 DEF AttachInv, AttachTyped

-----------------------------------------------------------------------------
\* A record that is renewed is of the process there is, and says of it what it said.
LEMMA RenewedIs ==
  ASSUME AttachInv, NEW p \in AppPids,
         NEW c, c = Agent!Renewed(p) \/ c = Agent!Reset(Agent!Renewed(p))
  PROVE  /\ c \in Status /\ c.born = agentProcess[p].born
         /\ c.state = "attached" => agentRecords[p].born = c.born /\ agentRecords[p].state = "attached"
<1>1. agentRecords[p] \in Status /\ agentProcess[p] \in Process
  BY DEF AttachInv, AttachTyped
<1>2. PICK born \in Nat : born = agentProcess[p].born
  BY <1>1 DEF Process
<1>3. ASSUME NEW r, r = Agent!Renewed(p)
      PROVE  /\ r \in Status /\ r.born = born
             /\ r.state = "attached" => agentRecords[p].born = born /\ agentRecords[p].state = "attached"
  <2>1. CASE agentRecords[p].born = born
    BY <1>1, <1>2, <1>3, <2>1 DEF Agent!Renewed
  <2>2. CASE agentRecords[p].born # born
    <3>1. r = [Agent!NoRecord EXCEPT !.born = born]
      BY <1>2, <1>3, <2>2 DEF Agent!Renewed
    <3>2. r = [born |-> born, attempts |-> 0, state |-> "none", seen |-> FALSE]
      BY <3>1 DEF Agent!NoRecord
    <3>3. QED
      BY <3>2, PidsAre DEF Status
  <2>3. QED
    BY <2>1, <2>2
<1>4. PICK r : r = Agent!Renewed(p)
  OBVIOUS
<1>5. /\ r \in Status /\ r.born = born
      /\ r.state = "attached" => agentRecords[p].born = born /\ agentRecords[p].state = "attached"
  BY <1>3, <1>4
<1>6. CASE c = r
  BY <1>2, <1>5, <1>6
<1>7. CASE c = [r EXCEPT !.attempts = 0]
  <2>1. c \in Status /\ c.born = r.born /\ c.state = r.state
    BY <1>5, <1>7, PidsAre DEF Status
  <2>2. QED
    BY <1>2, <1>5, <2>1
<1>8. QED
  BY <1>4, <1>6, <1>7 DEF Agent!Reset

\* The scan is past a candidate, or opens it, with a record that is of it.
LEMMA Noted ==
  ASSUME AttachInv, NEW p \in AppPids, NEW c \in Status, c.born = agentProcess[p].born,
         c.state = "attached" => agentRecords[p].born = c.born /\ agentRecords[p].state = "attached",
         agentRecords' = [agentRecords EXCEPT ![p] = [c EXCEPT !.seen = TRUE]],
         UNCHANGED <<agentReader, agentProcess>>,
         NEW h \in HostRecord(AppPids), agentHost' = h,
         HostSound(h, agentReader["host"], agentProcess)
  PROVE  AttachInv'
<1>1. PICK d \in Status : /\ d = [c EXCEPT !.seen = TRUE] /\ d.born = c.born /\ d.state = c.state
  <2>1. PICK d : d = [c EXCEPT !.seen = TRUE]
    OBVIOUS
  <2>2. d \in Status /\ d.born = c.born /\ d.state = c.state
    BY <2>1 DEF Status
  <2>3. QED
    BY <2>1, <2>2
<1>2. /\ agentRecords' \in [AppPids -> Status] /\ agentRecords'[p] = d
      /\ \A q \in AppPids \ {p} : agentRecords'[q] = agentRecords[q]
  BY <1>1 DEF AttachInv, AttachTyped
<1>3. c.born \in Nat /\ agentProcess[p] \in Process
  BY DEF Status, AttachInv, AttachTyped
<1>4. StatusSound(d, agentProcess[p])
  BY <1>1, <1>3 DEF AttachInv, StatusSound
<1>5. \A q \in AppPids : StatusSound(agentRecords'[q], agentProcess[q])
  BY <1>2, <1>4 DEF AttachInv
<1>6. QED
  BY <1>2, <1>5 DEF AttachInv, AttachTyped, StatusSound, HostSound

LEMMA PastIs ==
  ASSUME AttachInv, NEW p, Agent!Past(p)
  PROVE  \E h \in HostRecord(AppPids) : agentHost' = h /\ h.pc = "scan"
<1>1. PICK stop \in BOOLEAN, todo \in SUBSET AppPids : stop = agentHost.stop /\ todo = agentHost.todo \ {p}
  BY DEF AttachInv, AttachTyped, HostRecord
<1>2. agentHost' = [Agent!NoHost EXCEPT !.pc = "scan", !.stop = stop, !.todo = todo]
  BY <1>1 DEF Agent!Past
<1>3. agentHost' = [pc |-> "scan", stop |-> stop, todo |-> todo, pid |-> 0, stamp |-> 0]
  BY <1>2 DEF Agent!NoHost, Agent!NoPid
<1>4. QED
  BY <1>3 DEF HostRecord

LEMMA ConsiderStep ==
  ASSUME AttachInv, NEW p \in AppPids, Agent!Consider(p)
  PROVE  AttachInv'
<1> DEFINE renewed == Agent!Renewed(p)
           record0 == Agent!Reset(renewed)
<1>1. /\ renewed \in Status /\ renewed.born = agentProcess[p].born
      /\ renewed.state = "attached" => agentRecords[p].born = renewed.born /\ agentRecords[p].state = "attached"
  BY RenewedIs
<1>2. /\ record0 \in Status /\ record0.born = agentProcess[p].born
      /\ record0.state = "attached" => agentRecords[p].born = record0.born /\ agentRecords[p].state = "attached"
  BY RenewedIs
<1>3. agentHost.pc = "scan" /\ agentReader["host"].pc = "using" /\ UNCHANGED <<agentReader, agentProcess>>
  BY DEF Agent!Consider, Agent!HostAt, AttachInv, HostSound, Agent!Recorded
<1>4. ASSUME NEW c \in Status, c.born = agentProcess[p].born,
             c.state = "attached" => agentRecords[p].born = c.born /\ agentRecords[p].state = "attached",
             Agent!Past(p), Agent!Recorded(p, c)
      PROVE  AttachInv'
  <2>1. PICK h \in HostRecord(AppPids) : agentHost' = h /\ h.pc = "scan"
    BY <1>4, PastIs
  <2>2. HostSound(h, agentReader["host"], agentProcess)
    BY <1>3, <2>1 DEF HostSound
  <2>3. agentRecords' = [agentRecords EXCEPT ![p] = [c EXCEPT !.seen = TRUE]]
    BY <1>4 DEF Agent!Recorded
  <2>4. QED
    BY <1>3, <1>4, <2>1, <2>2, <2>3, Noted
<1>5. CASE Agent!Past(p) /\ UNCHANGED agentRecords
  <2>1. PICK h \in HostRecord(AppPids) : agentHost' = h /\ h.pc = "scan"
    BY <1>5, PastIs
  <2>2. QED
    BY <1>3, <1>5, <2>1 DEF AttachInv, AttachTyped, HostSound, StatusSound
<1> HIDE DEF renewed, record0
<1>6. CASE Agent!Past(p) /\ Agent!Recorded(p, [renewed EXCEPT !.state = "excluded"])
  <2>1. PICK c : c = [renewed EXCEPT !.state = "excluded"]
    OBVIOUS
  <2>2. c \in Status /\ c.born = renewed.born /\ c.state = "excluded"
    BY <1>1, <2>1 DEF Status
  <2>3. QED
    BY <1>1, <1>4, <1>6, <2>1, <2>2
<1>7. CASE Agent!Past(p) /\ Agent!Recorded(p, record0)
  BY <1>2, <1>4, <1>7
<1>8. ASSUME record0.attempts < AgentTries PROVE record0.attempts + 1 \in 0..AgentTries
  BY <1>2, <1>8, PidsAre DEF Status
<1>9. ASSUME NEW state \in {"barred", "failed"}, record0.attempts < AgentTries, Agent!Past(p),
             Agent!Recorded(p, [record0 EXCEPT !.attempts = @ + 1, !.state = state])
      PROVE  AttachInv'
  <2>1. PICK c : c = [record0 EXCEPT !.attempts = @ + 1, !.state = state]
    OBVIOUS
  <2>2. c \in Status /\ c.born = record0.born /\ c.state = state
    BY <1>2, <1>8, <1>9, <2>1 DEF Status
  <2>3. QED
    BY <1>2, <1>4, <1>9, <2>1, <2>2
<1>10. ASSUME record0.attempts < AgentTries, ~Agent!Excluding(p),
              agentHost' = [agentHost EXCEPT !.pc = "opening", !.pid = p, !.stamp = agentProcess[p].born],
              Agent!Recorded(p, [record0 EXCEPT !.attempts = @ + 1])
       PROVE  AttachInv'
  <2>1. PICK c : c = [record0 EXCEPT !.attempts = @ + 1]
    OBVIOUS
  <2>2. c \in Status /\ c.born = record0.born /\ c.state = record0.state
    BY <1>2, <1>8, <1>10, <2>1 DEF Status
  <2>3. PICK h \in HostRecord(AppPids), born \in Nat : h = agentHost /\ born = agentProcess[p].born
    BY DEF AttachInv, AttachTyped, Process
  <2>4. PICK new : new = [h EXCEPT !.pc = "opening", !.pid = p, !.stamp = born]
    OBVIOUS
  <2>5. new \in HostRecord(AppPids) /\ new.pc = "opening" /\ new.pid = p /\ new.stamp = born
    BY <2>4 DEF HostRecord
  <2>6. HostSound(new, agentReader["host"], agentProcess)
    BY <1>3, <1>10, <2>3, <2>5, AgentNames DEF HostSound, Agent!Excluding
  <2>7. agentRecords' = [agentRecords EXCEPT ![p] = [c EXCEPT !.seen = TRUE]]
    BY <1>10, <2>1 DEF Agent!Recorded
  <2>8. agentHost' = new
    BY <1>10, <2>3, <2>4
  <2>9. QED
    BY <1>2, <1>3, <2>2, <2>5, <2>6, <2>7, <2>8, Noted
<1>11. QED
  BY <1>5, <1>6, <1>7, <1>9, <1>10 DEF Agent!Consider, renewed, record0

LEMMA OpenStep ==
  ASSUME AttachInv, Agent!Open
  PROVE  AttachInv'
<1>1. PICK h \in HostRecord(AppPids) : h = agentHost /\ h.pc = "opening" /\ h.pid \in AppPids
  BY DEF AttachInv, AttachTyped, Agent!Open, Agent!HostAt, HostSound
<1>2. UNCHANGED <<agentReader, agentRecords, agentProcess>>
  BY DEF Agent!Open
<1>3. \E new \in HostRecord(AppPids) : agentHost' = new /\ HostSound(new, agentReader["host"], agentProcess)
  <2>1. CASE agentProcess[h.pid].live /\ agentProcess[h.pid].born = h.stamp
    <3>1. agentHost' = [h EXCEPT !.pc = "attaching"]
      BY <1>1, <2>1 DEF Agent!Open, Agent!Same
    <3>2. PICK new \in HostRecord(AppPids) : new = agentHost' /\ new.pc = "attaching" /\ new.pid = h.pid
      BY <3>1 DEF HostRecord
    <3>3. HostSound(new, agentReader["host"], agentProcess)
      BY <1>1, <2>1, <3>2 DEF AttachInv, HostSound
    <3>4. QED
      BY <3>2, <3>3
  <2>2. CASE Agent!Past(h.pid)
    <3>1. PICK new \in HostRecord(AppPids) : agentHost' = new /\ new.pc = "scan"
      BY <2>2, PastIs
    <3>2. HostSound(new, agentReader["host"], agentProcess)
      BY <1>1, <3>1 DEF AttachInv, HostSound
    <3>3. QED
      BY <3>1, <3>2
  <2>3. QED
    BY <1>1, <2>1, <2>2 DEF Agent!Open, Agent!Same
<1>4. QED
  BY <1>2, <1>3 DEF AttachInv, AttachTyped, HostSound, StatusSound

LEMMA AttachStep ==
  ASSUME AttachInv, NEW state \in {"attached", "barred", "failed", "timeout"}, Agent!Attach(state)
  PROVE  AttachInv'
<1>1. PICK p \in AppPids : p = agentHost.pid /\ agentReader["host"].pc = "using"
  BY DEF AttachInv, Agent!Attach, Agent!HostAt, HostSound
<1>2. PICK c \in Status, q \in Process : c = agentRecords[p] /\ q = agentProcess[p] /\ StatusSound(c, q)
  BY DEF AttachInv, AttachTyped
<1>3. PICK new \in HostRecord(AppPids) : agentHost' = new /\ new.pc = "scan"
  BY PastIs DEF Agent!Attach
<1>4. PICK d \in Status : /\ agentRecords' = [agentRecords EXCEPT ![p] = d] /\ d.born = c.born
                          /\ d.state = "attached" => state = "attached"
  <2>1. CASE state = "timeout"
    <3>1. PICK d : d = [c EXCEPT !.state = "failed", !.attempts = AgentTries]
      OBVIOUS
    <3>2. d \in Status /\ d.born = c.born /\ d.state = "failed"
      <4>1. AgentTries \in 0..AgentTries
        BY PidsAre
      <4>2. d \in Status
        BY <3>1, <4>1 DEF Status
      <4>3. QED
        BY <3>1, <4>2 DEF Status
    <3>3. agentRecords' = [agentRecords EXCEPT ![p] = d]
      BY <1>1, <1>2, <2>1, <3>1 DEF Agent!Attach
    <3>4. QED
      BY <3>2, <3>3
  <2>2. CASE state # "timeout"
    <3>1. PICK d : d = [c EXCEPT !.state = state]
      OBVIOUS
    <3>2. d \in Status /\ d.born = c.born /\ d.state = state
      BY <2>2, <3>1 DEF Status
    <3>3. agentRecords' = [agentRecords EXCEPT ![p] = d]
      BY <1>1, <1>2, <2>2, <3>1 DEF Agent!Attach
    <3>4. QED
      BY <3>2, <3>3
  <2>3. QED
    BY <2>1, <2>2
<1>5. PICK r \in Process : /\ agentProcess' = [agentProcess EXCEPT ![p] = r] /\ r.born = q.born /\ r.live = q.live
                           /\ r.adapter = IF state = "attached" THEN "attached" ELSE q.adapter
  <2>1. PICK adapter \in {"none", "attached"} : adapter = IF state = "attached" THEN "attached" ELSE q.adapter
    BY DEF Process
  <2>2. PICK r : r = [q EXCEPT !.adapter = adapter]
    OBVIOUS
  <2>3. r \in Process /\ r.born = q.born /\ r.live = q.live /\ r.adapter = adapter
    BY <2>2 DEF Process
  <2>4. agentProcess' = [agentProcess EXCEPT ![p] = r]
    BY <1>1, <1>2, <2>1, <2>2 DEF Agent!Attach, AttachInv, AttachTyped
  <2>5. QED
    BY <2>1, <2>3, <2>4
<1>6. /\ agentRecords' \in [AppPids -> Status] /\ agentProcess' \in [AppPids -> Process]
      /\ agentRecords'[p] = d /\ agentProcess'[p] = r
      /\ \A s \in AppPids \ {p} : agentRecords'[s] = agentRecords[s] /\ agentProcess'[s] = agentProcess[s]
  BY <1>4, <1>5 DEF AttachInv, AttachTyped
<1>7. StatusSound(d, r)
  BY <1>2, <1>4, <1>5 DEF StatusSound
<1>8. \A s \in AppPids : StatusSound(agentRecords'[s], agentProcess'[s])
  BY <1>6, <1>7 DEF AttachInv
<1>9. HostSound(new, agentReader'["host"], agentProcess')
  BY <1>1, <1>3 DEF HostSound, Agent!Attach
<1>10. QED
  BY <1>3, <1>6, <1>8, <1>9 DEF AttachInv, AttachTyped, HostSound, StatusSound

\* A process ends; or a later one gets its pid.
LEMMA ProcessStep ==
  ASSUME AttachInv, NEW p \in AppPids,
         Agent!Exits(p) \/ \E app \in Apps, born \in 1..AgentBorn : Agent!Launched(p, app, born)
  PROVE  AttachInv'
<1>1. PICK h \in HostRecord(AppPids), q \in Process :
        h = agentHost /\ q = agentProcess[p] /\ agentRecords[p] \in Status
  BY DEF AttachInv, AttachTyped
<1>2. UNCHANGED <<agentReader, agentHost, agentRecords>>
  BY DEF Agent!Exits, Agent!Launched
<1>3. ASSUME NEW r \in Process, agentProcess' = [agentProcess EXCEPT ![p] = r],
             \/ r.born = q.born /\ r.app = q.app /\ ~r.live
             \/ r.born > q.born,
             ~(h.pc = "attaching" /\ h.pid = p)
      PROVE  AttachInv'
  <2>1. /\ agentProcess' \in [AppPids -> Process] /\ agentProcess'[p] = r
        /\ \A s \in AppPids \ {p} : agentProcess'[s] = agentProcess[s]
    BY <1>3 DEF AttachInv, AttachTyped
  <2>2. StatusSound(agentRecords[p], r)
    BY <1>1, <1>3 DEF AttachInv, StatusSound, Status, Process
  <2>3. \A s \in AppPids : StatusSound(agentRecords[s], agentProcess'[s])
    BY <2>1, <2>2 DEF AttachInv
  <2>4. HostSound(h, agentReader["host"], agentProcess')
    <3>1. HostSound(h, agentReader["host"], agentProcess)
      BY <1>1 DEF AttachInv
    <3>2. q.born \in Nat /\ r.born \in Nat /\ h.stamp \in Nat
      BY <1>1, <1>3 DEF Process, HostRecord
    <3>3. CASE h.pc = "opening" /\ h.pid = p
      BY <1>1, <1>3, <2>1, <3>1, <3>2, <3>3 DEF HostSound
    <3>4. CASE ~(h.pc = "opening" /\ h.pid = p)
      BY <1>3, <2>1, <3>1, <3>4 DEF HostSound
    <3>5. QED
      BY <3>3, <3>4
  <2>5. QED
    BY <1>1, <1>2, <2>1, <2>3, <2>4 DEF AttachInv, AttachTyped, HostSound, StatusSound
<1>4. CASE Agent!Exits(p)
  <2>1. PICK r \in Process : r = [q EXCEPT !.live = FALSE] /\ r.born = q.born /\ r.app = q.app /\ ~r.live
    <3>1. PICK r : r = [q EXCEPT !.live = FALSE]
      OBVIOUS
    <3>2. r \in Process /\ r.born = q.born /\ r.app = q.app /\ ~r.live
      BY <3>1 DEF Process
    <3>3. QED
      BY <3>1, <3>2
  <2>2. agentProcess' = [agentProcess EXCEPT ![p] = r] /\ ~(h.pc = "attaching" /\ h.pid = p)
    BY <1>1, <1>4, <2>1 DEF Agent!Exits, Agent!HostAt, AttachInv, AttachTyped
  <2>3. QED
    BY <1>3, <2>1, <2>2
<1>5. ASSUME NEW app \in Apps, NEW born \in 1..AgentBorn, Agent!Launched(p, app, born)
      PROVE  AttachInv'
  <2>1. PICK r : r = [live |-> TRUE, born |-> born, app |-> app, adapter |-> "none"]
    OBVIOUS
  <2>2. r \in Process /\ r.born = born
    BY <2>1 DEF Process
  <2>3. agentProcess' = [agentProcess EXCEPT ![p] = r] /\ born > q.born /\ ~q.live
    BY <1>1, <1>5, <2>1 DEF Agent!Launched, Process
  <2>4. ~(h.pc = "attaching" /\ h.pid = p)
    BY <1>1, <2>3 DEF AttachInv, HostSound
  <2>5. QED
    BY <1>3, <2>2, <2>3, <2>4
<1>6. QED
  BY <1>4, <1>5

LEMMA AttachInvStep ==
  ASSUME AgentPolicyInv, AttachInv, Agent!Next
  PROVE  AttachInv'
<1>1. CASE Agent!Worker
  BY <1>1, AsideStep, RestStep, SnapshotStep, ConsiderStep, OpenStep, AttachStep DEF Agent!Worker
<1>2. QED
  BY <1>1, AsideStep, RestStep, StopStep, ProcessStep DEF Agent!Next

LEMMA AttachStarts ==
  ASSUME Agent!Init
  PROVE  AttachInv
<1>1. /\ agentHost = Agent!NoHost /\ agentRecords = [p \in AppPids |-> Agent!NoRecord]
      /\ agentProcess = [p \in AppPids |-> Agent!NoProcess]
  BY DEF Agent!Init
<1>2. agentHost \in HostRecord(AppPids) /\ agentHost.pc = "down"
  BY <1>1, NoHostIs DEF Agent!NoHost, Agent!NoPid
<1>3. Agent!NoRecord \in Status /\ Agent!NoRecord.born = 0 /\ Agent!NoRecord.state = "none"
  BY PidsAre DEF Agent!NoRecord, Status
<1>4. PICK app : app = Agent!NoProcess.app
  OBVIOUS
<1>5. Agent!NoProcess \in Process /\ Agent!NoProcess.born = 0
  BY DEF Agent!NoProcess, Process
<1>6. QED
  BY <1>1, <1>2, <1>3, <1>5 DEF AttachInv, AttachTyped, HostSound, StatusSound

-----------------------------------------------------------------------------
\* The adapter's instance has a host, too, with nothing to attach to.
LEMMA AdapterHostStep ==
  ASSUME adapterHost \in HostRecord({}), Adapter!Next
  PROVE  adapterHost' \in HostRecord({})
<1>1. PICK h \in HostRecord({}) : h = adapterHost
  OBVIOUS
<1>2. PICK none : none = Adapter!NoHost
  OBVIOUS
<1>3. none \in HostRecord({})
  BY <1>2, NoHostIs DEF Adapter!NoHost, Adapter!NoPid
<1>4. ASSUME NEW p, Adapter!Past(p) PROVE adapterHost' \in HostRecord({})
  <2>1. PICK stop \in BOOLEAN, todo \in SUBSET {} : stop = h.stop /\ todo = h.todo \ {p}
    BY DEF HostRecord
  <2>2. adapterHost' = [none EXCEPT !.pc = "scan", !.stop = stop, !.todo = todo]
    BY <1>1, <1>2, <1>4, <2>1 DEF Adapter!Past
  <2>3. QED
    BY <1>3, <2>2 DEF HostRecord
<1>5. CASE Adapter!Quit \/ Adapter!Timer
  <2>1. PICK stop \in BOOLEAN : adapterHost' = [h EXCEPT !.stop = stop]
    BY <1>1, <1>5 DEF Adapter!Quit, Adapter!Timer
  <2>2. QED
    BY <2>1 DEF HostRecord
<1>6. CASE Adapter!SpawnHost
  <2>1. adapterHost' = [none EXCEPT !.pc = "top"] \/ adapterHost' = h
    BY <1>1, <1>2, <1>6 DEF Adapter!SpawnHost
  <2>2. [none EXCEPT !.pc = "top"] \in HostRecord({})
    BY <1>3 DEF HostRecord
  <2>3. QED
    BY <2>1, <2>2
<1>7. CASE Adapter!Worker
  <2>1. CASE Adapter!Leave
    BY <1>2, <1>3, <2>1 DEF Adapter!Leave
  <2>2. CASE Adapter!HostReads
    BY <2>2 DEF Adapter!HostReads
  <2>3. CASE Adapter!Snapshot
    <3>1. adapterHost' = [h EXCEPT !.pc = "scan", !.todo = {}]
      BY <1>1, <2>3 DEF Adapter!Snapshot
    <3>2. QED
      BY <3>1 DEF HostRecord
  <2>4. CASE Adapter!Open
    <3>1. adapterHost' = [h EXCEPT !.pc = "attaching"] \/ Adapter!Past(h.pid)
      BY <1>1, <2>4 DEF Adapter!Open
    <3>2. [h EXCEPT !.pc = "attaching"] \in HostRecord({})
      BY DEF HostRecord
    <3>3. QED
      BY <1>4, <3>1, <3>2
  <2>5. CASE Adapter!Publish
    <3>1. adapterHost' = [h EXCEPT !.pc = "top", !.todo = {}]
      BY <1>1, <2>5 DEF Adapter!Publish
    <3>2. QED
      BY <3>1 DEF HostRecord
  <2>6. ASSUME NEW state, Adapter!Attach(state) PROVE adapterHost' \in HostRecord({})
    BY <1>4, <2>6 DEF Adapter!Attach
  <2>7. QED
    BY <1>7, <2>1, <2>2, <2>3, <2>4, <2>5, <2>6 DEF Adapter!Worker
<1>8. CASE Adapter!TornDown
  BY <1>2, <1>3, <1>8 DEF Adapter!TornDown
<1>9. ASSUME UNCHANGED adapterHost PROVE adapterHost' \in HostRecord({})
  BY <1>9
<1>10. CASE \/ Adapter!Start \/ Adapter!WriteBegins \/ Adapter!Ready \/ Adapter!Crash
            \/ \E text \in Adapter!Text : Adapter!WriteEnds(text) \/ Adapter!Edit(text)
            \/ \E fresh \in BOOLEAN : Adapter!Beat(fresh)
            \/ \E enable \in BOOLEAN : Adapter!Command(enable)
            \/ \E t \in AdapterThreads : Adapter!AdapterReads(t) \/ Adapter!Decides(t)
  BY <1>9, <1>10
  DEF Adapter!Start, Adapter!WriteBegins, Adapter!Ready, Adapter!Crash, Adapter!Edit, Adapter!Beat,
      Adapter!Command, Adapter!WriteEnds, Adapter!AdapterReads, Adapter!Decides
<1>11. QED
  BY <1>5, <1>6, <1>7, <1>8, <1>10 DEF Adapter!Next

-----------------------------------------------------------------------------
LEMMA AgentHolds == Spec => [](On("agent") => AgentPolicyInv /\ AttachInv)
<1>1. Init => (On("agent") => AgentPolicyInv /\ AttachInv)
  BY AgentPolicyStarts, AttachStarts DEF Init, AgentInit
<1>2. (On("agent") => AgentPolicyInv /\ AttachInv) /\ [Next]_vars => (On("agent") => AgentPolicyInv /\ AttachInv)'
  <2> SUFFICES ASSUME On("agent") => AgentPolicyInv /\ AttachInv, [Next]_vars, On("agent")'
               PROVE  AgentPolicyInv' /\ AttachInv'
    OBVIOUS
  <2>1. CASE UNCHANGED vars
    <3>1. UNCHANGED <<moving, agentAgent, agentPolicy, agentConfig, agentReader, agentHost,
                      agentRecords, agentProcess>>
      BY <2>1 DEF vars, AgentVars
    <3>2. AgentPolicyInv /\ AttachInv /\ agentConfig \in AgentConfig
      BY <3>1 DEF On, AgentPolicyInv
    <3>3. QED
      BY <3>1, <3>2, AgentElsewhere, Aside
  <2>2. CASE Next
    <3>1. AgentPolicyInv /\ AttachInv /\ Agent!Next
      BY <2>2 DEF Next, AgentNext, On
    <3>2. QED
      BY <3>1, AgentPolicyStep, AttachInvStep
  <2>3. QED
    BY <2>1, <2>2
<1>3. QED
  BY <1>1, <1>2, PTL DEF Spec

LEMMA AdapterHolds == Spec => [](On("adapter") => AdapterPolicyInv /\ adapterHost \in HostRecord({}))
<1>1. Init => (On("adapter") => AdapterPolicyInv /\ adapterHost \in HostRecord({}))
  <2>1. Adapter!Init => adapterHost \in HostRecord({})
    BY NoHostIs DEF Adapter!Init, Adapter!NoHost, Adapter!NoPid
  <2>2. QED
    BY <2>1, AdapterPolicyStarts DEF Init, AdapterInit
<1>2. (On("adapter") => AdapterPolicyInv /\ adapterHost \in HostRecord({})) /\ [Next]_vars
        => (On("adapter") => AdapterPolicyInv /\ adapterHost \in HostRecord({}))'
  <2> SUFFICES ASSUME On("adapter") => AdapterPolicyInv /\ adapterHost \in HostRecord({}), [Next]_vars, On("adapter")'
               PROVE  AdapterPolicyInv' /\ adapterHost' \in HostRecord({})
    OBVIOUS
  <2>1. CASE UNCHANGED vars
    <3>1. UNCHANGED <<moving, adapterAgent, adapterPolicy, adapterConfig, adapterReader, adapterHost>>
      BY <2>1 DEF vars, AdapterVars
    <3>2. AdapterPolicyInv /\ adapterHost \in HostRecord({}) /\ adapterConfig \in AdapterConfig
      BY <3>1 DEF On, AdapterPolicyInv
    <3>3. QED
      BY <3>1, <3>2, AdapterElsewhere
  <2>2. CASE Next
    <3>1. AdapterPolicyInv /\ adapterHost \in HostRecord({}) /\ Adapter!Next
      BY <2>2 DEF Next, AdapterNext, On
    <3>2. QED
      BY <3>1, AdapterPolicyStep, AdapterHostStep
  <2>3. QED
    BY <2>1, <2>2
<1>3. QED
  BY <1>1, <1>2, PTL DEF Spec

\* What hosts and adapters go by was published as a whole by the agent that they found
\* alive, however its writing, its death and the next agent fall between their reading
\* (agent.cpp; agent_host.cpp patterns; adapter.cpp); and no process is attached to that
\* was excluded, though its pid was another's when it was looked at.
THEOREM PolicyIsObeyed == Spec => []PolicyObeyed
<1>1. ASSUME AgentPolicyInv, AttachInv
      PROVE  Agent!TypeOK /\ Agent!WholePolicy /\ Agent!OnlyIncluded /\ Agent!StatusTrue
  <2>1. Agent!TypeOK
    <3>1. agentAgent.life \in 0..AgentLives /\ agentAgent.tries \in 0..AgentTries
      BY <1>1 DEF AgentPolicyInv, AgentRecord
    <3>2. /\ agentPolicy.text \in (SUBSET Apps) \cup {Torn}
          /\ agentPolicy.text = Torn => agentPolicy.generation % 2 = 1
      BY <1>1 DEF AgentPolicyInv, PolicyRecord, PolicySound
    <3>3. \A r \in Agent!Reader : agentReader[r].tries \in 0..AgentTries
      BY <1>1 DEF AgentPolicyInv, AgentReadersSound, ReaderRecord
    <3>4. /\ agentHost.pc \in {"down", "top", "scan", "opening", "attaching"}
          /\ \A p \in AppPids : agentRecords[p].attempts \in 0..AgentTries
      BY <1>1 DEF AttachInv, AttachTyped, HostRecord, Status
    <3>5. QED
      BY <3>1, <3>2, <3>3, <3>4, AgentNames DEF Agent!TypeOK
  <2>2. Agent!WholePolicy
    BY <1>1, AgentNames DEF AgentPolicyInv, AgentReadersSound, ReaderSound, Agent!WholePolicy, Agent!Whole
  <2>3. Agent!OnlyIncluded
    BY <1>1, AgentNames DEF AttachInv, HostSound, Agent!OnlyIncluded, Agent!HostAt, Agent!Excluding
  <2>4. Agent!StatusTrue
    BY <1>1 DEF AttachInv, StatusSound, Agent!StatusTrue
  <2>5. QED
    BY <2>1, <2>2, <2>3, <2>4
<1>2. ASSUME AdapterPolicyInv, adapterHost \in HostRecord({})
      PROVE  Adapter!TypeOK /\ Adapter!WholePolicy
  <2>1. Adapter!TypeOK
    <3>1. adapterAgent.life \in 0..AgentLives /\ adapterAgent.tries \in 0..AgentTries
      BY <1>2 DEF AdapterPolicyInv, AgentRecord
    <3>2. /\ adapterPolicy.text \in (SUBSET AdapterApps) \cup {Torn}
          /\ adapterPolicy.text = Torn => adapterPolicy.generation % 2 = 1
      BY <1>2 DEF AdapterPolicyInv, PolicyRecord, PolicySound
    <3>3. \A r \in Adapter!Reader : adapterReader[r].tries \in 0..AgentTries
      BY <1>2 DEF AdapterPolicyInv, AdapterReadersSound, ReaderRecord
    <3>4. adapterHost.pc \in {"down", "top", "scan", "opening", "attaching"}
      BY <1>2 DEF HostRecord
    <3>5. QED
      BY <3>1, <3>2, <3>3, <3>4, AdapterNames DEF Adapter!TypeOK
  <2>2. Adapter!WholePolicy
    BY <1>2, AdapterNames DEF AdapterPolicyInv, AdapterReadersSound, ReaderSound, Adapter!WholePolicy, Adapter!Whole
  <2>3. QED
    BY <2>1, <2>2
<1>3. (On("agent") => AgentPolicyInv /\ AttachInv)
        /\ (On("adapter") => AdapterPolicyInv /\ adapterHost \in HostRecord({})) => PolicyObeyed
  BY <1>1, <1>2 DEF PolicyObeyed
<1>4. QED
  BY <1>3, AgentHolds, AdapterHolds, PTL
=============================================================================
