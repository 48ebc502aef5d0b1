---------------------------- MODULE ShellSelection ----------------------------
(***************************************************************************)
(* "Open file location": a window registers itself with the Shell as a     *)
(* view of the folder it was started for, under one or two identifiers of  *)
(* it, and selects the item that a caller asks for when a panel that it    *)
(* has seen displays it.  The host draws only when something asks it to.   *)
(*                                                                         *)
(* COM gives the facade one call at a time; frames are drawn at any time.  *)
(* Panels are not closed here.                                             *)
(*                                                                         *)
(* Next does not use WokenFirst and AttemptsKept (wrong variants of the    *)
(* definitions they precede, to test properties).                          *)
(***************************************************************************)
EXTENDS Integers, FiniteSets

CONSTANTS
  Panel, Name,
  Nothing,
  Pidl,         \* identifiers of the folder: that of the path, and the desktop's
  MaxStates,    \* panels remembered: 16
  MaxAttempts,  \* frames in which one name is sought: 65536
  MaxCalls      \* bound: calls of SelectItem

\* What every instance assumes of its constants.
SelectionAssumption == MaxStates \in Nat /\ MaxAttempts \in Nat \ {0} /\ MaxCalls \in Nat

VARIABLES
  window,   \* whether it is registered: `g_initialized', and the Shell's list
  caller,   \* SelectItem in progress
  pending,  \* the name sought, and whether it still is
  states,   \* panels remembered; `primary' is the one that was selected in last
  host,     \* what each panel displays and whether it is live; the frame that is due
  selected, \* the name selected in each panel
  calls,    \* auxiliary
  frames    \* auxiliary: frames since the last name was published

vars == <<window, caller, pending, states, host, selected, calls, frames>>

NoCall == [at |-> "idle", name |-> Nothing]

Init ==
  /\ window = [initialized |-> FALSE, registering |-> FALSE, list |-> {}, waiting |-> {}]
  /\ caller = NoCall
  /\ pending = [name |-> Nothing, ready |-> FALSE, attempts |-> 0]
  /\ states = [known |-> {}, primary |-> Nothing]
  /\ host = [display |-> [p \in Panel |-> {}], live |-> {}, frame |-> TRUE]
  /\ selected = [p \in Panel |-> Nothing]
  /\ calls = 0 /\ frames = 0

-----------------------------------------------------------------------------
(***************************************************************************)
(* RegisterShellWindow, once, from the host's start or a frame.            *)
(***************************************************************************)
Register ==
  /\ ~window.initialized
  /\ \E pidls \in SUBSET Pidl :  \* none if started without a folder, or without the Shell
       window' = [window EXCEPT !.initialized = TRUE, !.registering = pidls # {},
                                !.waiting = pidls]
  /\ UNCHANGED <<caller, pending, states, host, selected, calls, frames>>

\* RegisterShellWindowAlias: pending, then registered and navigated, or revoked.
Alias(pidl) ==
  /\ window.registering /\ pidl \in window.waiting
  /\ \E list \in {window.list, window.list \cup {pidl}} :
       window' = [window EXCEPT !.list = list, !.waiting = @ \ {pidl},
                                !.registering = window.waiting # {pidl}]
  /\ UNCHANGED <<caller, pending, states, host, selected, calls, frames>>

(***************************************************************************)
(* PublishSelection: the name under the lock, then the frame.              *)
(***************************************************************************)
SelectItem(name) ==
  /\ window.list # {} /\ caller = NoCall /\ calls < MaxCalls
  /\ caller' = [at |-> "publishing", name |-> name] /\ calls' = calls + 1
  /\ UNCHANGED <<window, pending, states, host, selected, frames>>

AttemptsKept(name) == [pending EXCEPT !.name = name, !.ready = TRUE]
Sought(name) == [name |-> name, ready |-> TRUE, attempts |-> 0]

WokenFirst ==
  \/ /\ caller.at = "publishing" /\ caller' = [caller EXCEPT !.at = "waking"]
     /\ host' = [host EXCEPT !.frame = TRUE]
     /\ UNCHANGED <<window, pending, states, selected, calls, frames>>
  \/ /\ caller.at = "waking" /\ caller' = NoCall
     /\ pending' = Sought(caller.name) /\ frames' = 0
     /\ UNCHANGED <<window, states, host, selected, calls>>

Publish ==
  \/ /\ caller.at = "publishing" /\ caller' = [caller EXCEPT !.at = "waking"]
     /\ pending' = Sought(caller.name) /\ frames' = 0
     /\ UNCHANGED <<window, states, host, selected, calls>>
  \/ /\ caller.at = "waking" /\ caller' = NoCall
     /\ host' = [host EXCEPT !.frame = TRUE]
     /\ UNCHANGED <<window, pending, states, selected, calls, frames>>

-----------------------------------------------------------------------------
\* LiveSelectionHook, of a panel's list that is drawn; a full table takes no more.
Remembered ==
  IF Cardinality(states.known \cup host.live) <= MaxStates THEN {states.known \cup host.live}
  ELSE {k \in SUBSET (states.known \cup host.live) :
          states.known \subseteq k /\ Cardinality(k) = MaxStates}

\* ApplyPendingSelection: the panel that was selected in last, then the others.
Shows(known) == {p \in known : pending.name \in host.display[p]}
Chosen(known) ==
  IF states.primary \in Shows(known) THEN {states.primary} ELSE Shows(known)

\* FrameHook, after the host's own drawing.
Frame ==
  /\ host.frame /\ host' = [host EXCEPT !.frame = FALSE]
  /\ frames' = IF pending.ready /\ frames < MaxAttempts THEN frames + 1 ELSE frames
  /\ \E known \in Remembered :
       IF ~pending.ready
       THEN states' = [states EXCEPT !.known = known] /\ UNCHANGED <<pending, selected>>
       ELSE IF Shows(known) = {}
       THEN /\ states' = [states EXCEPT !.known = known]
            /\ pending' = [pending EXCEPT !.attempts = @ + 1,
                                          !.ready = pending.attempts + 1 < MaxAttempts]
            /\ UNCHANGED selected
       ELSE \E p \in Chosen(known) :
              /\ states' = [known |-> known, primary |-> p]
              /\ pending' = [pending EXCEPT !.ready = FALSE]
              /\ selected' = [selected EXCEPT ![p] = pending.name]
  /\ UNCHANGED <<window, caller, calls>>

\* The host: a panel is drawn from now on; its list changes; something else asks for a frame.
Live(p) ==
  /\ p \notin host.live
  /\ host' = [host EXCEPT !.live = @ \cup {p}, !.frame = TRUE]
  /\ UNCHANGED <<window, caller, pending, states, selected, calls, frames>>

List(p, names) ==
  /\ names # host.display[p]
  /\ host' = [host EXCEPT !.display[p] = names, !.frame = TRUE]
  /\ selected' = [selected EXCEPT ![p] = IF @ \in names THEN @ ELSE Nothing]
  /\ UNCHANGED <<window, caller, pending, states, calls, frames>>

Next ==
  \/ Register \/ Publish \/ Frame
  \/ \E pidl \in Pidl : Alias(pidl)
  \/ \E name \in Name : SelectItem(name)
  \/ \E p \in Panel : Live(p)
  \/ \E p \in Panel, names \in SUBSET Name : List(p, names)

Spec == Init /\ [][Next]_vars

-----------------------------------------------------------------------------
\* Every variable keeps its type.
TypeOK ==
  /\ window.list \subseteq Pidl /\ Cardinality(states.known) <= MaxStates
  /\ pending.attempts \in 0..MaxAttempts /\ pending.ready \in BOOLEAN
  /\ states.primary \in Panel \cup {Nothing}

\* The window does not fall asleep over a name: when no frame is due and no call
\* is about to ask for one, no panel that it knows displays the name it seeks.
NotAsleep ==
  pending.ready /\ ~host.frame /\ caller = NoCall =>
    \A p \in states.known : pending.name \notin host.display[p]

\* A name is given up only after as many frames as it is due, however many were
\* spent on names before it, and never when it was displayed in the last of them.
SeeksFully ==
  pending.ready /\ ~pending'.ready =>
    \/ frames' = MaxAttempts
    \/ \E p \in Panel : selected'[p] = pending.name
=============================================================================
