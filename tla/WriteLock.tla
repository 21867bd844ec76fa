------------------------------ MODULE WriteLock ------------------------------
(***************************************************************************)
(* What a lock directory is for: it is taken when it is free, and given up *)
(* by the one who took it.  Who dies with it keeps it.                     *)
(***************************************************************************)
CONSTANTS
  Writer,   \* who may take it
  None      \* nobody

VARIABLES
  holder,   \* who took it last and has not given it up
  inside    \* who is between taking it and giving it up

vars == <<holder, inside>>

Init == holder = None /\ inside = {}

Take(p) ==
  /\ holder = None /\ inside = {}
  /\ holder' = p /\ inside' = {p}

Give(p) ==
  /\ holder = p /\ inside = {p}
  /\ holder' = None /\ inside' = {}

Die(p) ==
  /\ inside = {p}
  /\ inside' = {}
  /\ UNCHANGED holder

Next == \E p \in Writer : Take(p) \/ Give(p) \/ Die(p)

Spec == Init /\ [][Next]_vars
=============================================================================
