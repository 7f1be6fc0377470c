----------------------------- MODULE MCTingStore -----------------------------
(* Small instances of TingStore for TLC. *)
EXTENDS TingStore, TLC

CONSTANTS app, alice, appScope, k1, k2, m1, m2

Request(scopes, required) ==
  [app |-> app, recipient |-> alice, scopes |-> scopes, required |-> required, data |-> "d"]

(* One optional and one required type. *)
TwoModes == {Request(<<appScope>>, FALSE), Request(<<appScope>>, TRUE)}
OneMode == {Request(<<>>, FALSE)}

Symmetry == Permutations(Messages) \cup Permutations(Receivers) \cup Permutations(Hooks)
==============================================================================
