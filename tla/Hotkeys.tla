------------------------------- MODULE Hotkeys -------------------------------
(***************************************************************************)
(* The keys of the undo and redo commands.  The host (external) clears all *)
(* keys when it loads its settings and gives commands the keys that the    *)
(* document lists; it writes only commands that have keys.  settingsHook   *)
(* gives a command that the document does not name its default, so         *)
(* saveSettingsHook names the commands that the user has taken keys from.  *)
(*                                                                         *)
(* Next does not use KeysDefaulted and OnlyBound (wrong variants of the    *)
(* definitions they precede, to test properties).                          *)
(***************************************************************************)
CONSTANTS
  Command,    \* those of `bindings'
  Key,
  NoKey,
  Absent,     \* a command that a document does not name
  DefaultOf

\* What every instance assumes of its constants.
KeyAssumption ==
  /\ NoKey \notin Key /\ Absent \notin Key \cup {NoKey} /\ DefaultOf \in [Command -> Key]

VARIABLES
  keys,      \* the active registry
  document,  \* the settings on the disk, and whether they have the list
  running,
  chosen     \* auxiliary: the key that each command should have after a start

vars == <<keys, document, running, chosen>>

Init ==
  /\ keys = DefaultOf /\ chosen = DefaultOf /\ running = FALSE
  /\ document = [list |-> TRUE, of |-> [c \in Command |-> Absent]]

-----------------------------------------------------------------------------
\* configuredCommand.  A document without the list is not completed.
Configured(c) == ~document.list \/ document.of[c] # Absent
Restored(c) == IF document.list /\ document.of[c] # Absent THEN document.of[c] ELSE NoKey

KeysDefaulted == [c \in Command |-> IF Restored(c) = NoKey THEN DefaultOf[c] ELSE Restored(c)]
Loaded == [c \in Command |-> IF Configured(c) THEN Restored(c) ELSE DefaultOf[c]]

\* registerHook, then the loading of the settings: settingsHook.
Start ==
  /\ ~running /\ running' = TRUE
  /\ keys' = Loaded
  /\ chosen' = IF document.list THEN chosen ELSE Loaded
  /\ UNCHANGED document

\* The user gives a command a key or takes it away.
Change(c, key) ==
  /\ running /\ keys' = [keys EXCEPT ![c] = key] /\ chosen' = [chosen EXCEPT ![c] = key]
  /\ UNCHANGED <<document, running>>

\* saveSettingsHook; without memory for the addition, the host's document stays.
OnlyBound == [c \in Command |-> IF keys[c] = NoKey THEN Absent ELSE keys[c]]
Written == keys

Save ==
  /\ running /\ document' = [list |-> TRUE, of |-> Written]
  /\ UNCHANGED <<keys, running, chosen>>

Defaulted(of) == [c \in Command |-> IF of[c] = Absent THEN DefaultOf[c] ELSE of[c]]
SaveFails ==
  /\ running /\ document' = [list |-> TRUE, of |-> OnlyBound] /\ running' = FALSE
  /\ chosen' = Defaulted(OnlyBound)
  /\ UNCHANGED keys

\* The host saves its settings when it ends, or is killed.
End ==
  /\ running /\ running' = FALSE
  /\ \/ document' = [list |-> TRUE, of |-> Written] /\ UNCHANGED chosen
     \/ UNCHANGED document /\ chosen' = Defaulted(document.of)
  /\ UNCHANGED keys

\* A document of an earlier version, or edited by hand, or damaged.
Edit(list, of) ==
  /\ ~running /\ document' = [list |-> list, of |-> of]
  /\ chosen' = Defaulted(of)
  /\ UNCHANGED <<keys, running>>

Next ==
  \/ Start \/ Save \/ SaveFails \/ End
  \/ \E c \in Command, key \in Key \cup {NoKey} : Change(c, key)
  \/ \E list \in BOOLEAN, of \in [Command -> Key \cup {NoKey, Absent}] : Edit(list, of)

Spec == Init /\ [][Next]_vars

-----------------------------------------------------------------------------
\* Every variable keeps its type.
TypeOK ==
  /\ keys \in [Command -> Key \cup {NoKey}]
  /\ document.of \in [Command -> Key \cup {NoKey, Absent}] /\ running \in BOOLEAN

\* Across starts, a command has the key that the user last gave it, none if the
\* user took it away, and its default if no document has ever named it.
AsChosen == running => keys = chosen
=============================================================================
