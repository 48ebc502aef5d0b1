------------------------------ MODULE DialogHooks ------------------------------
(***************************************************************************)
(* The hooks through which an application's thread gets a file dialog:     *)
(* CoCreateInstance and CoGetClassObject (in ole32 and in combase), Ex,    *)
(* class factories, GetOpenFileName and GetSaveFileName, and Show of the   *)
(* dialog that they wrap.  Windows implements one with another, so that a  *)
(* hook is entered within a hook; the thread's `bypass' tells them.        *)
(*                                                                         *)
(* Next does not use MakesAlone (a wrong variant of the definition it      *)
(* precedes, to test a property).                                          *)
(***************************************************************************)
EXTENDS Integers, Sequences

CONSTANTS MaxDepth  \* bound: hooks within hooks

\* What every instance assumes of its constants.
HooksAssumption == MaxDepth \in Nat \ {0}

VARIABLES
  enabled,  \* replacementsEnabled, which changes at any time
  bypass,   \* of the thread
  stack,    \* its hooks' calls: which, whether it wraps, whether it holds a Guard, its object's kind
  object    \* FilePilot's wrappers around the dialog that the last call returned

vars == <<enabled, bypass, stack, object>>

Init == enabled = TRUE /\ bypass = 0 /\ stack = <<>> /\ object = 0

-----------------------------------------------------------------------------
Makers == {"create", "createEx", "combase", "instance"}
Guards == {"legacy", "Show"}     \* whichever dialog they then show

\* External: what Windows calls to do a call.
Within(fn) ==
  CASE fn = "createEx" -> {"create", "combase"}
    [] fn = "create" -> {"combase", "instance"}
    [] fn = "combase" -> {"instance"}
    [] fn \in Guards -> {"create", "createEx"}
    [] OTHER -> {}

\* The interfaces asked for are known, and there is no aggregation or server.
Wraps(fn, supported) == fn \in Makers /\ bypass = 0 /\ supported /\ enabled

MakesAlone(fn, wraps) == fn \in Guards
Guarded(fn, wraps) == fn \in Guards \/ wraps

Enter(fn, supported) ==
  LET wraps == Wraps(fn, supported)
      guarded == Guarded(fn, wraps) IN
    /\ stack' = Append(stack, [fn |-> fn, wraps |-> wraps, guarded |-> guarded,
                               supported |-> supported])
    /\ bypass' = IF guarded THEN bypass + 1 ELSE bypass
    /\ object' = 0
    /\ UNCHANGED enabled

Top == stack[Len(stack)]

\* The application calls, from Show's modal loop too.
Call(fn, supported) ==
  /\ stack # <<>> => Top.fn = "Show" /\ Len(stack) < MaxDepth
  /\ Enter(fn, supported)

\* The original asks for IUnknown under a Guard, and for what it was asked for without.
Nested(fn) ==
  /\ stack # <<>> /\ Len(stack) < MaxDepth /\ fn \in Within(Top.fn)
  /\ Enter(fn, Top.guarded \/ Top.supported)

\* Guard's destructor, or ActiveShow's, and the wrapper around what the original made.
Return ==
  /\ stack # <<>>
  /\ stack' = SubSeq(stack, 1, Len(stack) - 1)
  /\ bypass' = IF Top.guarded THEN bypass - 1 ELSE bypass
  /\ object' = IF Top.wraps THEN object + 1 ELSE object
  /\ UNCHANGED enabled

Switch == enabled' = ~enabled /\ UNCHANGED <<bypass, stack, object>>

Next ==
  \/ \E fn \in Makers \cup Guards, supported \in BOOLEAN : Call(fn, supported)
  \/ \E fn \in Makers : Nested(fn)
  \/ Return \/ Switch

Spec == Init /\ [][Next]_vars

-----------------------------------------------------------------------------
\* Every variable keeps its type.
TypeOK == bypass \in 0..MaxDepth /\ object \in 0..MaxDepth /\ Len(stack) \in 0..MaxDepth

\* A dialog is wrapped at most once, and not at all if it is for a hook's own use,
\* whatever calls what and whenever interception is paused; and no bypass is left.
WrappedOnce ==
  /\ object <= 1
  /\ \A i, j \in 1..Len(stack) : i < j /\ stack[i].guarded => ~stack[j].wraps
  /\ stack = <<>> => bypass = 0
=============================================================================
