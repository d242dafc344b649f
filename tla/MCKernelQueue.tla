--------------------------- MODULE MCKernelQueue ---------------------------
(* Instances of KernelQueue for TLC. *)
EXTENDS KernelQueue, TLC

\* The default, and a negative value that is less than a second.
OneTime   == {5}
SomeTimes == {5, -1}

Symmetry == Permutations(Fds)
=============================================================================
