--------------------------- MODULE MCStandbyLaunch ---------------------------
(* Finite instances of StandbyLaunch. *)
EXTENDS StandbyLaunch, TLC

Alike ==
  Permutations(Caller) \cup Permutations(Standby) \cup Permutations(Spawner)
    \cup Permutations(Ticket) \cup Permutations(Birth)
=============================================================================
