----------------------------- MODULE MCNetwork -----------------------------
(* Instances of Network for TLC. *)
EXTENDS Network, TLC

CONSTANTS a, b

\* One message of one byte and one of two, in which the order shows.
ShortMessages == {<<a>>, <<a, b>>}
NoMessages    == {}
MixedMessages == ShortMessages \cup {<<>>}

\* Everything, and up to an end string of two bytes, which may arrive in two
\* pieces.
AllEndStrings == {<<>>, <<a, b>>}

Symmetry == Permutations(Fds) \cup Permutations(Conns)
=============================================================================
