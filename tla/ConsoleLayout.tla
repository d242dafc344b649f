---------------------------- MODULE ConsoleLayout ----------------------------
(***************************************************************************)
(* The layout of a frame of gdf::DisplayConsole, byte by byte: the header  *)
(* and the footer as bars, the latest lines with their timestamps, cut     *)
(* where they are too long, and the end of the prompt.  DisplayConsole     *)
(* says when a frame is rendered and how it is written; here it is taken   *)
(* to be rendered and written in every state.                              *)
(*                                                                         *)
(* A string is a sequence of bytes, and a byte the value of a signed char. *)
(* An escape sequence is one symbol, a number no byte has; the colours are *)
(* left out.                                                               *)
(***************************************************************************)
EXTENDS DisplayBuffer

CONSTANTS
  Texts,           (* headers and footers                                  *)
  Typed,           (* the characters the user types                        *)
  MaxPrompt,       (* bound: bytes in the prompt                           *)
  Echoing,         (* the application pushes the lines it polls as content *)
  Sizes,           (* sizes of the window: records [h, w]                  *)
  MinHeight, MinWidth, (* 8 and 18                                         *)
  Wide, Narrow     (* terminal: the characters of more than one byte it    *)
                   (* shows in two columns and in one                      *)

VARIABLES
  mHeader, mFooter, bIsTimestampEnabled,
  mPromptBuffer,
  mConsoleSize

settings == <<mHeader, mFooter, bIsTimestampEnabled>>
layoutVars == <<bufferVars, settings, mPromptBuffer, mConsoleSize>>

ASSUME ConsoleLayoutAssumption ==
  /\ \A size \in Sizes : size.h \in Nat /\ size.w \in Nat
  /\ MinHeight \in Nat /\ MinHeight > 3     (* rows that are always there    *)
  /\ MinWidth \in Nat /\ MinWidth > 12      (* a timestamp and the dots      *)
  /\ MaxPrompt \in Nat /\ Echoing \in BOOLEAN

S == INSTANCE SequencesExt

LF     == 10
Space  == 32
Stamp  == [i \in 1 .. 10 |-> 58] (* 12:34 -!-                              *)
Status == [i \in 1 .. 11 |-> 91] (* [(status)]                             *)
Dots   == <<46, 46, 46>>

Clears == <<256>>
cursorToLine(line) == <<256 + line>>
-----------------------------------------------------------------------------
(* The frame.                                                              *)

\* A byte below zero is taken to begin a character of three bytes.  Defect: of
\* four.
Step_Four(byte) == IF byte < 0 THEN 4 ELSE 1

Step(byte) == IF byte < 0 THEN 3 ELSE 1

\* How many characters there are before the first zero byte, and where the
\* reading of c_str() ends: on a zero byte, or past the one that is its last.
strlenMultiByte(str) ==
  LET c_str == Append(str, 0)
      from[i \in 1 .. Len(c_str) + 3] ==
        IF i > Len(c_str) \/ c_str[i] = 0 THEN [width |-> 0, end |-> i]
        ELSE [from[i + Step(c_str[i])] EXCEPT !.width = @ + 1]
  IN  from[1]

\* The first n characters.  The loop does not ask where the string ends, and
\* copies what lies behind it, here zero bytes.
Copied(str, n) ==
  LET c_str(i) == IF i <= Len(str) THEN str[i] ELSE 0
      bytes[j \in 0 .. n] ==
        IF j = 0 THEN <<>>
        ELSE LET done == bytes[j - 1]
                 strIndex == Len(done)
             IN  done \o [k \in 1 .. Step(c_str(strIndex + 1)) |-> c_str(strIndex + k)]
  IN  bytes[n]

\* The header and the footer, cut or filled with spaces to the width.
Bar(str) ==
  LET w == mConsoleSize.w
  IN  <<Space>> \o IF Len(str) + 1 <= w THEN str \o [i \in 1 .. w - (Len(str) + 1) |-> Space]
                   ELSE SubSeq(str, 1, w - 1)

\* A line of content.  Defect: its bytes are counted.
ContentLine_Bytes(str) ==
  LET stamp == IF bIsTimestampEnabled THEN Stamp ELSE <<>>
      left  == mConsoleSize.w - Len(stamp)
  IN  stamp \o (IF Len(str) > left THEN Copied(str, left - 3) \o Dots ELSE str) \o <<LF>>

ContentLine(str) ==
  LET stamp == IF bIsTimestampEnabled THEN Stamp ELSE <<>>
      left  == mConsoleSize.w - Len(stamp)
  IN  stamp \o (IF strlenMultiByte(str).width > left THEN Copied(str, left - 3) \o Dots ELSE str)
            \o <<LF>>

appendHeader == Bar(mHeader) \o <<LF>>

appendContent ==
  LET visible == Last(mContentBuffer, Fewer(mConsoleSize.h - 3, Len(mContentBuffer)))
  IN  S!FlattenSeq([i \in DOMAIN visible |-> ContentLine(visible[i])])

appendFooter == cursorToLine(mConsoleSize.h - 1) \o Bar(mFooter) \o <<LF>>

appendPrompt ==
  cursorToLine(mConsoleSize.h) \o Status
    \o Last(mPromptBuffer, Fewer(mConsoleSize.w - 11, Len(mPromptBuffer)))

renderScreenString ==
  Clears \o IF mConsoleSize.h < MinHeight \/ mConsoleSize.w < MinWidth THEN <<>>
            ELSE appendHeader \o appendContent \o appendFooter \o appendPrompt

\* Refresh writes what strlen() counts.
Written ==
  LET frame == renderScreenString
      zeros == {i \in DOMAIN frame : frame[i] = 0}
  IN  IF zeros = {} THEN frame
      ELSE SubSeq(frame, 1, (CHOOSE i \in zeros : \A j \in zeros : i <= j) - 1)
-----------------------------------------------------------------------------
(* What the display is to show and what changes it.                        *)

Setting ==
  /\ \/ \E str \in Texts : mHeader' = str /\ UNCHANGED <<mFooter, bIsTimestampEnabled>>
     \/ \E str \in Texts : mFooter' = str /\ UNCHANGED <<mHeader, bIsTimestampEnabled>>
     \/ \E on \in BOOLEAN : bIsTimestampEnabled' = on /\ UNCHANGED <<mHeader, mFooter>>
  /\ UNCHANGED <<bufferVars, mPromptBuffer, mConsoleSize>>

Content == Next /\ UNCHANGED <<settings, mPromptBuffer, mConsoleSize>>

\* The user types a character: its bytes come one by one, and no frame is
\* rendered between them.
Grows(char) ==
  /\ Len(mPromptBuffer) + Len(char) <= MaxPrompt
  /\ mPromptBuffer' = mPromptBuffer \o char
  /\ UNCHANGED <<bufferVars, settings, mConsoleSize>>

\* Delete takes a byte back.
Erases ==
  /\ mPromptBuffer # <<>>
  /\ mPromptBuffer' = SubSeq(mPromptBuffer, 1, Len(mPromptBuffer) - 1)
  /\ UNCHANGED <<bufferVars, settings, mConsoleSize>>

\* Enter ends the line; the application polls it.
Ends ==
  /\ mPromptBuffer' = <<>>
  /\ IF Echoing THEN PushContent(mPromptBuffer) ELSE UNCHANGED bufferVars
  /\ UNCHANGED <<settings, mConsoleSize>>

updateConsoleSize ==
  /\ mConsoleSize' \in Sizes
  /\ UNCHANGED <<bufferVars, settings, mPromptBuffer>>

LayoutInit ==
  /\ Init
  /\ mHeader \in Texts /\ mFooter \in Texts /\ bIsTimestampEnabled = TRUE
  /\ mPromptBuffer = <<>> /\ mConsoleSize \in Sizes

LayoutNext ==
  \/ Setting \/ Content
  \/ \E char \in Typed : Grows(char)
  \/ Erases \/ Ends \/ updateConsoleSize

LayoutSpec == LayoutInit /\ [][LayoutNext]_layoutVars
-----------------------------------------------------------------------------
(* The terminal: what of the bytes it takes ends up in which place.  A     *)
(* picture is its rows, each a sequence of characters (followed by <<>> if *)
(* one fills two columns), and the place of the cursor.                    *)

\* How many of the bytes make the first character: a byte that begins none is
\* shown for itself.
CharLength(bytes) ==
  LET fits == {c \in Wide \cup Narrow : SubSeq(bytes, 1, Fewer(Len(c), Len(bytes))) = c}
  IN  IF fits = {} THEN 1 ELSE Len(CHOOSE c \in fits : TRUE)

Cells(char) == IF char \in Wide THEN <<char, <<>> >> ELSE <<char>>

MoveTo(p, line) == [p EXCEPT !.row = line, !.col = 1]

NewLine(p) ==
  IF p.row < mConsoleSize.h THEN MoveTo(p, p.row + 1)
  ELSE [p EXCEPT !.rows = [r \in DOMAIN @ |-> IF r < p.row THEN @[r + 1] ELSE <<>>], !.col = 1]

Put(p, char) ==
  LET n  == Len(Cells(char))
      at == IF p.col + n - 1 > mConsoleSize.w THEN NewLine(p) ELSE p
  IN  [at EXCEPT !.rows[at.row] = SubSeq(@, 1, at.col - 1) \o Cells(char) \o
                                  SubSeq(@, at.col + n, Len(@)),
                 !.col = at.col + n]

Blank == [rows |-> [r \in 1 .. mConsoleSize.h |-> <<>>], row |-> 1, col |-> 1]

\* The terminal takes a character; below its last row it shows nothing.
Draw(p, char) ==
  IF p.row \notin DOMAIN p.rows THEN p
  ELSE CASE char = Clears    -> Blank
         [] char = <<LF>>    -> NewLine(p)
         [] char[1] > 256    -> MoveTo(p, char[1] - 256)
         [] OTHER            -> Put(p, char)

\* The bytes, character by character.
Characters(bytes) ==
  LET from[i \in 1 .. Len(bytes) + 1] ==
        IF i > Len(bytes) THEN <<>>
        ELSE LET n == CharLength(SubSeq(bytes, i, Len(bytes)))
             IN  <<SubSeq(bytes, i, i + n - 1)>> \o from[i + n]
  IN  from[1]

Picture(p, bytes) ==
  LET chars == Characters(bytes)
      after[k \in 0 .. Len(chars)] == IF k = 0 THEN p ELSE Draw(after[k - 1], chars[k])
  IN  after[Len(chars)]

CellsOf(bytes) ==
  LET chars == Characters(bytes)
  IN  S!FlattenSeq([k \in DOMAIN chars |-> Cells(chars[k])])
-----------------------------------------------------------------------------
(* What the rows of the screen are meant to be, character by character.    *)

MeantBar(str) ==
  SubSeq(CellsOf(<<Space>> \o str \o [i \in 1 .. mConsoleSize.w |-> Space]), 1, mConsoleSize.w)

MeantLine(str) ==
  LET cells == CellsOf((IF bIsTimestampEnabled THEN Stamp ELSE <<>>) \o str)
  IN  IF Len(cells) <= mConsoleSize.w THEN cells
      ELSE SubSeq(cells, 1, mConsoleSize.w - 3) \o CellsOf(Dots)

MeantPrompt ==
  LET cells == CellsOf(mPromptBuffer)
  IN  CellsOf(Status) \o Last(cells, Fewer(mConsoleSize.w - Len(Status), Len(cells)))

MeantRow(r) ==
  LET lines == Fewer(mConsoleSize.h - 3, Len(mContentBuffer))
  IN  IF mConsoleSize.h < MinHeight \/ mConsoleSize.w < MinWidth THEN <<>>
      ELSE CASE r = 1                  -> MeantBar(mHeader)
             [] r = mConsoleSize.h - 1 -> MeantBar(mFooter)
             [] r = mConsoleSize.h     -> MeantPrompt
             [] r \in 2 .. lines + 1   -> MeantLine(Last(mContentBuffer, lines)[r - 1])
             [] OTHER                  -> <<>>
-----------------------------------------------------------------------------
(* Properties.                                                             *)

\* What the terminal makes of the bytes written is what is meant: the header
\* above, the latest lines that fit below it, one row each, whole or cut with
\* dots, the footer and the end of the prompt in the last two rows, nothing
\* wrapped, scrolled away, overwritten or cut inside a character.
ScreenShowsTheDisplay ==
  Picture(Blank, Written).rows = [r \in 1 .. mConsoleSize.h |-> MeantRow(r)]

\* strlenMultiByte, which steps over bytes it has not looked at, does not step
\* over the zero byte that ends the string.
ReadsInside ==
  \A i \in DOMAIN mContentBuffer :
    strlenMultiByte(mContentBuffer[i]).end <= Len(mContentBuffer[i]) + 1
=============================================================================
