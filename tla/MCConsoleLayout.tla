-------------------------- MODULE MCConsoleLayout --------------------------
(* Instances of ConsoleLayout for TLC.  A is an ASCII character, Bar3 one  *)
(* of three bytes in one column, Accent one of two, Syllable one of three  *)
(* bytes in two columns.                                                   *)
EXTENDS ConsoleLayout

A        == 97
Bar3     == <<-30, -108, -128>>
Accent   == <<-61, -87>>
Syllable == <<-22, -80, -128>>

Of(n) == [i \in 1 .. n |-> A]

\* Too small by a column and by a row, just large enough, and larger.
FourSizes == {[h |-> 4, w |-> 17], [h |-> 3, w |-> 20], [h |-> 4, w |-> 18], [h |-> 5, w |-> 20]}
TwoSizes  == {[h |-> 4, w |-> 18], [h |-> 5, w |-> 20]}
OneSize   == {[h |-> 4, w |-> 18]}

\* A bar of 18 columns holds the first and cuts the second.
TwoTexts == {Of(17), Of(18)}
Short    == {Of(3)}
Accented == {Of(16) \o Accent}

\* With the timestamp 8 columns are left of 18, without it all; each line fits
\* in some of the widths and is cut in others.
Lines     == {Of(7) \o Bar3, Of(6) \o Bar3 \o Of(2), Of(19)}
\* A buffer whose capacity was lowered below what it holds.
OneOther == {[lines |-> <<Of(19), Of(7) \o Bar3>>, capacity |-> 0]}
LineBreak == {Of(2) \o <<LF>> \o Of(2)}
ZeroByte  == {Of(2) \o <<0>> \o Of(2)}
Accents   == {Of(2) \o Accent}
Syllables == {Of(3) \o Syllable \o Syllable \o Syllable}

Ascii   == {Of(1)}
Korean  == {Syllable}
Ones    == {Bar3, Accent}
Twos    == {Syllable}
=============================================================================
