-------------------------- MODULE MCGlobalLogger --------------------------
(* Instances of GlobalLogger for TLC. *)
EXTENDS GlobalLogger, TLC

Symmetry == Permutations(Loggers) \cup Permutations(Strings)
=============================================================================
