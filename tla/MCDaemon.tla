------------------------------ MODULE MCDaemon ------------------------------
(* Small instances of Daemon for TLC. *)
EXTENDS Daemon, TLC

Symmetry == Permutations(Messages) \cup Permutations(Tokens)
==============================================================================
