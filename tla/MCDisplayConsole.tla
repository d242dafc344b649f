-------------------------- MODULE MCDisplayConsole --------------------------
(* Instances of DisplayConsole for TLC. *)
EXTENDS DisplayConsole

CONSTANTS a, bracket

\* What a shell leaves the terminal in.
OneMode == {{"ICANON", "ECHO"}}

\* And a program that reads keys itself.
TwoModes == OneMode \cup {{"ECHO"}}

\* A window that is too small, and two that show one line and two lines.
ThreeSizes == {[h |-> 3, w |-> 2], [h |-> 4, w |-> 2], [h |-> 5, w |-> 3]}
TwoSizes   == {[h |-> 3, w |-> 2], [h |-> 4, w |-> 2]}
OneSize    == {[h |-> 5, w |-> 3]}

OneKey == {<<a>>}

\* An arrow key sends three characters.
Arrow   == <<Esc, bracket, a>>
AllKeys == {<<a>>, <<Enter>>, <<Eot>>, <<Del>>, Arrow}

\* The Escape key sends one.
WithEscape == AllKeys \cup {<<Esc>>}
=============================================================================
