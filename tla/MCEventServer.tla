--------------------------- MODULE MCEventServer ---------------------------
(* Instances of EventServer for TLC. *)
EXTENDS EventServer, TLC

CONSTANT a

NoMessages == {}
OneByte  == {<<a>>}
TwoBytes == {<<a, a>>}

Symmetry == Permutations(Fds) \cup Permutations(Conns)
=============================================================================
