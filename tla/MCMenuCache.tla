----------------------------- MODULE MCMenuCache -----------------------------
(* Finite instances of MenuCache. *)
EXTENDS MenuCache, TLC
Alike == Permutations(Wrapper) \cup Permutations(Selected \ Uncachable)

\* Each wrapper has one owner, by which it is released; its slot counts the menus
\* shown from it, and gives it out only for the key it was built for
\* (menu_payload.cpp MenuAcquireHook, MenuReleaseHook, EvictMenuSlot).
WrappersAccounted == TypeOK /\ OwnedOnce /\ UsesCounted /\ SlotsSound
=============================================================================
