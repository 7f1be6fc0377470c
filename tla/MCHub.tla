-------------------------------- MODULE MCHub --------------------------------
(* Small instances of Hub for TLC. *)
EXTENDS Hub, TLC

CONSTANTS r1, r2, c1, c2, s1, s2, h1, h2, alice

OneOwner == [x \in Sessions \cup Hooks |-> alice]

Symmetry ==
  Permutations(Receivers) \cup Permutations(Callers) \cup Permutations(Sessions)
    \cup Permutations(Hooks)
==============================================================================
