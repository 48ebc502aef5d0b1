----------------------------- MODULE ChildDelivery -----------------------------
(***************************************************************************)
(* Putting the adapter into a process.  A browser's adapter creates its    *)
(* utility child suspended, attaches to it before it runs, and resumes it  *)
(* unless its caller wanted it suspended; the host attaches to processes   *)
(* it discovers, this one perhaps among them, at any time.  Each has a     *)
(* thread of the child run LoadLibrary, and then the adapter's             *)
(* FilePilotAgentAttach, on memory that it has allocated there; it waits   *)
(* 5 s for the thread, and a mutex that names the child keeps others away. *)
(*                                                                         *)
(* Next does not use ResumeAlways and FreeAlways (wrong variants of the    *)
(* definitions they precede, to test properties).                          *)
(***************************************************************************)
EXTENDS Integers, FiniteSets

CONSTANTS MaxTries  \* bound: attempts of hosts at the child (three, or more after a change of exclusions)

\* What every instance assumes of its constants.
DeliveryAssumption == MaxTries \in Nat

VARIABLES
  child,    \* its main thread, its loader, the adapter in it, what it was created for
  parent,   \* the step of the hook, whether it adds a suspension, and what it recorded
  attach,   \* of each attacher: the step of attachProcess
  lock,     \* the holder of the mutex
  threads,  \* remote threads in the child: whose, what for, and their step
  memory    \* allocations in the child that remote threads were given, by attacher

vars == <<child, parent, attach, lock, threads, memory>>

Attacher == {"parent", "host"}
NoOne == "nobody"

Init ==
  /\ child \in [main : {"none"}, loaded : {FALSE}, adapter : {"none", "older"}, hooks : {FALSE},
                installs : {0}, entered : {"no"}]
  /\ parent = [pc |-> "idle", asked |-> FALSE, early |-> FALSE, report |-> "none"]
  /\ attach = [a \in Attacher |-> [pc |-> "idle", result |-> "none", tries |-> 0]]
  /\ lock = NoOne /\ threads = {} /\ memory = {}

-----------------------------------------------------------------------------
\* launch and complete: the hook of CreateProcess.
Create(asked, early) ==
  /\ parent.pc = "idle"
  /\ child' = [child EXCEPT !.main = IF asked \/ early THEN "suspended" ELSE "ready"]
  /\ parent' = [parent EXCEPT !.pc = IF early THEN "identity" ELSE "returned",
                              !.asked = asked, !.early = early]
  /\ UNCHANGED <<attach, lock, threads, memory>>

ParentAt(pc) == parent.pc = pc
ParentTo(pc) == parent' = [parent EXCEPT !.pc = pc]
AttachAt(a, pc) == attach[a].pc = pc
AttachTo(a, pc) == attach' = [attach EXCEPT ![a].pc = pc]

\* Another user, an app container, another image: no attachment.
Identified(ok) ==
  /\ ParentAt("identity")
  /\ IF ok THEN ParentTo("locking") /\ UNCHANGED attach
     ELSE ParentTo("attached") /\ attach' = [attach EXCEPT !["parent"].result = "failed"]
  /\ UNCHANGED <<child, lock, threads, memory>>

Failed(a) == attach' = [attach EXCEPT ![a].pc = "done", ![a].result = "failed"]
Freed(a) == lock' = IF lock = a THEN NoOne ELSE lock

\* An AttachmentLock is had, or not within 5 s.
ParentLocks ==
  /\ ParentAt("locking")
  /\ \/ lock = NoOne /\ lock' = "parent" /\ ParentTo("loader") /\ UNCHANGED attach
     \/ lock # NoOne /\ Failed("parent") /\ ParentTo("attached") /\ UNCHANGED lock
  /\ UNCHANGED <<child, threads, memory>>

\* Mitigations, and a thread that initializes the loader and exits.
Prepared(ok) ==
  /\ ParentAt("loader")
  /\ IF ok THEN /\ ParentTo("attaching") /\ AttachTo("parent", "look")
                /\ child' = [child EXCEPT !.loaded = TRUE]
                /\ UNCHANGED lock
     ELSE ParentTo("attached") /\ Failed("parent") /\ Freed("parent") /\ UNCHANGED child
  /\ UNCHANGED <<threads, memory>>

Attached ==
  /\ ParentAt("attaching") /\ AttachAt("parent", "done") /\ ParentTo("attached")
  /\ UNCHANGED <<child, attach, lock, threads, memory>>

\* Only the suspension that was added is removed.
ResumeAlways == TRUE
Needed == ~parent.asked

Resume ==
  /\ ParentAt("attached") /\ ParentTo("recording")
  /\ child' = [child EXCEPT !.main = IF Needed THEN "ready" ELSE @]
  /\ UNCHANGED <<attach, lock, threads, memory>>

Record ==
  /\ ParentAt("recording")
  /\ parent' = [parent EXCEPT !.pc = "returned",
       !.report = IF attach["parent"].result = "attached" THEN "installed" ELSE "fallback"]
  /\ UNCHANGED <<child, attach, lock, threads, memory>>

-----------------------------------------------------------------------------
\* attachProcess.  The host begins it when it finds the modules of a program with windows.
HostBegins ==
  /\ AttachAt("host", "idle") /\ child.loaded /\ attach["host"].tries < MaxTries
  /\ attach' = [attach EXCEPT !["host"] = [pc |-> "locking", result |-> "none", tries |-> @.tries + 1]]
  /\ UNCHANGED <<child, parent, lock, threads, memory>>

HostLocks ==
  /\ AttachAt("host", "locking")
  /\ \/ lock = NoOne /\ lock' = "host" /\ AttachTo("host", "look")
     \/ lock # NoOne /\ Failed("host") /\ UNCHANGED lock
  /\ UNCHANGED <<child, parent, threads, memory>>

\* An older adapter is left alone.
Look(a) ==
  /\ AttachAt(a, "look")
  /\ CASE child.adapter = "loaded" -> AttachTo(a, "init") /\ UNCHANGED lock
       [] child.adapter = "older" -> Failed(a) /\ Freed(a)
       [] OTHER -> AttachTo(a, "load") /\ UNCHANGED lock
  /\ UNCHANGED <<child, parent, threads, memory>>

Block(a, job) == <<a, job, attach[a].tries>>
\* RemoteMemory and CreateRemoteThread, for the adapter's path or for the reply.
Invoke(a, job) ==
  /\ AttachAt(a, job) /\ AttachTo(a, IF job = "load" THEN "loading" ELSE "initialising")
  /\ memory' = memory \cup {Block(a, job)}
  /\ threads' = threads \cup
       {[by |-> a, use |-> Block(a, job), job |-> job, pc |-> "begun", todo |-> FALSE, ok |-> TRUE,
         kept |-> TRUE]}
  /\ UNCHANGED <<child, parent, lock>>

Waiting(a) == attach[a].pc \in {"loading", "initialising"}
Job(a) == IF AttachAt(a, "loading") THEN "load" ELSE "init"
Mine(a) == {t \in threads : t.by = a /\ t.job = Job(a) /\ t.kept}

\* The thread has ended, and its memory is given back.
Waited(a) ==
  /\ Waiting(a) /\ \E t \in Mine(a) :
       /\ t.pc = "ended" /\ threads' = threads \ {t} /\ memory' = memory \ {t.use}
       /\ IF ~t.ok THEN Failed(a) /\ Freed(a)
          ELSE IF Job(a) = "load" THEN AttachTo(a, "init") /\ UNCHANGED lock
          ELSE attach' = [attach EXCEPT ![a].pc = "done", ![a].result = "attached"] /\ Freed(a)
  /\ UNCHANGED <<child, parent>>

\* It has not, in 5 s: the memory stays, for it may still use it.
FreeAlways(a) == memory \ {Block(a, Job(a))}
Retained(a) == memory

TimesOut(a) ==
  /\ Waiting(a) /\ \E t \in Mine(a) :
       t.pc # "ended" /\ threads' = (threads \ {t}) \cup {[t EXCEPT !.kept = FALSE]}
  /\ Failed(a) /\ Freed(a) /\ memory' = Retained(a)
  /\ UNCHANGED <<child, parent>>

HostEnds ==
  /\ AttachAt("host", "done") /\ AttachTo("host", "idle")
  /\ UNCHANGED <<child, parent, lock, threads, memory>>

-----------------------------------------------------------------------------
\* In the child.  External: LoadLibrary.
To(t, pc, ok) == threads' = (threads \ {t}) \cup
  (IF pc = "ended" /\ ~t.kept THEN {} ELSE {[t EXCEPT !.pc = pc, !.ok = ok]})

Loads(t) ==
  /\ t.job = "load" /\ t.pc = "begun"
  /\ \/ To(t, "ended", TRUE) /\ child' = [child EXCEPT !.adapter = "loaded"]
     \/ To(t, "ended", FALSE) /\ UNCHANGED child
  /\ UNCHANGED <<parent, attach, lock, memory>>

\* FilePilotAgentAttach, under agentAttachMutex: it finds the hooks installed, or not.
Inside == \E t \in threads : t.job = "init" /\ t.pc = "inside"

Enters(t) ==
  /\ t.job = "init" /\ t.pc = "begun" /\ ~Inside
  /\ threads' = (threads \ {t}) \cup {[t EXCEPT !.pc = "inside", !.todo = ~child.hooks]}
  /\ UNCHANGED <<child, parent, attach, lock, memory>>

\* FilePilotInstall hooks everything or, without a policy or with one hook failing, nothing.
Installs(t) ==
  /\ t.job = "init" /\ t.pc = "inside"
  /\ \/ /\ To(t, "ended", TRUE)
        /\ child' = IF t.todo THEN [child EXCEPT !.hooks = TRUE, !.installs = @ + 1] ELSE child
     \/ To(t, "ended", FALSE) /\ UNCHANGED child
  /\ UNCHANGED <<parent, attach, lock, memory>>

\* The main thread gets to the program's entry; its caller may have to resume it.
Runs ==
  /\ child.main = "ready"
  /\ child' = [child EXCEPT !.main = "running", !.loaded = TRUE,
                            !.entered = IF child.hooks THEN "hooked" ELSE "unhooked"]
  /\ UNCHANGED <<parent, attach, lock, threads, memory>>

CallerResumes ==
  /\ ParentAt("returned") /\ parent.asked /\ child.main = "suspended"
  /\ child' = [child EXCEPT !.main = "ready"]
  /\ parent' = [parent EXCEPT !.asked = FALSE]
  /\ UNCHANGED <<attach, lock, threads, memory>>

-----------------------------------------------------------------------------
Parent ==
  \/ \E asked, early \in BOOLEAN : Create(asked, early)
  \/ \E ok \in BOOLEAN : Identified(ok) \/ Prepared(ok)
  \/ ParentLocks \/ Attached \/ Resume \/ Record
Attaches(a) == Look(a) \/ Waited(a) \/ TimesOut(a) \/ \E job \in {"load", "init"} : Invoke(a, job)

Next ==
  \/ Parent \/ HostBegins \/ HostLocks \/ HostEnds \/ Runs \/ CallerResumes
  \/ \E a \in Attacher : Attaches(a)
  \/ \E t \in threads : Loads(t) \/ Enters(t) \/ Installs(t)

Spec == Init /\ [][Next]_vars

-----------------------------------------------------------------------------
\* Every variable keeps its type.
TypeOK ==
  /\ child.main \in {"none", "suspended", "ready", "running"}
  /\ lock \in Attacher \cup {NoOne} /\ memory \subseteq Attacher \X {"load", "init"} \X (0..MaxTries)
  /\ \A a \in Attacher : attach[a].tries \in 0..MaxTries

\* When the hook returns, the child's main thread is suspended if, and only if, the
\* caller asked for that (whatever became of the attachment), and it has not run before.
Balanced ==
  /\ ParentAt("returned") => (child.main = "suspended" <=> parent.asked)
  /\ parent.pc \in {"identity", "locking", "loader", "attaching", "attached"} =>
       child.main = "suspended"

\* "hooks installed before entry" is true when the parent's diagnostics say so.
ReportTrue == parent.report = "installed" /\ child.entered # "no" => child.entered = "hooked"

\* A thread in the child has the memory it was given as long as it runs.
MemoryKept == \A t \in threads : t.pc # "ended" => t.use \in memory

\* The hooks are installed once, though an attempt that timed out still runs when
\* the next one comes.
InstalledOnce == child.installs <= 1
=============================================================================
