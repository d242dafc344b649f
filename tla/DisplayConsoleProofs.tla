------------------------ MODULE DisplayConsoleProofs ------------------------
(***************************************************************************)
(* The proofs about DisplayConsole, for every size of the window, every    *)
(* room the terminal has for what is written and every content.            *)
(***************************************************************************)
EXTENDS DisplayConsole, FiniteSetTheorems, SequenceTheorems, TLAPS

(***************************************************************************)
(* The terminal mode: for every set of consoles and every mode others may  *)
(* leave the terminal in, if consoles are not copied.                      *)
(***************************************************************************)

\* The count is the number of consoles, and what the first console found is
\* kept as long as one lives.
Counted ==
  /\ living \subseteq Consoles
  /\ sStaticInstanceCount = Cardinality(living)
  /\ living # {} => sStaticOldTerminal = theirs

ModeInv == Counted /\ ModeFollowsConsoles
-----------------------------------------------------------------------------
\* The numbers of consoles there can be: far from the limit of the count.
LEMMA FewConsoles ==
  ASSUME NEW L \in SUBSET Consoles
  PROVE  /\ IsFiniteSet(L) /\ Cardinality(L) \in Nat
         /\ Cardinality(L) < CountLimit
         /\ (Cardinality(L) = 0) <=> (L = {})
<1>1. IsFiniteSet(Consoles)
  BY TerminalModeAssumption
<1>2. IsFiniteSet(L) /\ Cardinality(L) <= Cardinality(Consoles)
  BY <1>1, FS_Subset
<1>3. Cardinality(L) \in Nat /\ Cardinality(Consoles) \in Nat
  BY <1>1, <1>2, FS_CardinalityType
<1>4. CountLimit \in Nat /\ Cardinality(Consoles) < CountLimit
  BY TerminalModeAssumption
<1>5. (Cardinality(L) = 0) <=> (L = {})
  BY <1>2, FS_EmptySet
<1> QED BY <1>2, <1>3, <1>4, <1>5

\* Below the limit, uint64 arithmetic is that of the numbers.
LEMMA NoWrap ==
  ASSUME NEW n \in Nat, n < CountLimit
  PROVE  n % CountLimit = n
<1>1. CountLimit \in Nat
  BY TerminalModeAssumption
<1> QED BY <1>1

LEMMA ModeInit == TerminalInit => ModeInv
<1> SUFFICES ASSUME TerminalInit PROVE ModeInv
  OBVIOUS
<1>1. Cardinality({}) = 0
  BY FS_EmptySet
<1> QED BY <1>1 DEF TerminalInit, ModeInv, Counted, ModeFollowsConsoles

\* The first console finds the mode others set and saves it; the others find
\* a count that is not zero and leave both alone.
LEMMA ModeConstruct ==
  ASSUME ModeInv, NEW k \in Consoles, Construct(k)
  PROVE  ModeInv'
<1>1. living' = living \cup {k} /\ living' \subseteq Consoles /\ living' # {} /\ k \notin living
  BY DEF Construct, ModeInv, Counted
<1>2. /\ IsFiniteSet(living) /\ Cardinality(living) \in Nat
      /\ (Cardinality(living) = 0) <=> (living = {})
  BY FewConsoles DEF ModeInv, Counted
<1>3. Cardinality(living') = Cardinality(living) + 1
  BY <1>1, <1>2, FS_AddElement
<1>4. sStaticInstanceCount' = Cardinality(living')
  <2>1. Cardinality(living') \in Nat /\ Cardinality(living') < CountLimit
    BY <1>1, FewConsoles
  <2>2. sStaticInstanceCount' = Cardinality(living') % CountLimit
    BY <1>3 DEF Construct, ModeInv, Counted
  <2> QED BY <2>1, <2>2, NoWrap
<1>5. theirs' = theirs
  BY DEF Construct
<1>6. CASE living = {}
  <2>1. sStaticOldTerminal' = mode /\ mode' = Raw(mode) /\ mode = theirs
    BY <1>2, <1>6 DEF Construct, setTerminalMode, ModeInv, Counted, ModeFollowsConsoles
  <2> QED BY <1>1, <1>4, <1>5, <2>1 DEF ModeInv, Counted, ModeFollowsConsoles
<1>7. CASE living # {}
  <2>1. UNCHANGED <<sStaticOldTerminal, mode>> /\ mode = Raw(theirs)
    BY <1>2, <1>7 DEF Construct, ModeInv, Counted, ModeFollowsConsoles
  <2> QED BY <1>1, <1>4, <1>5, <1>7, <2>1 DEF ModeInv, Counted, ModeFollowsConsoles
<1> QED BY <1>6, <1>7

\* The count is zero again with the last console, and only then.
LEMMA ModeDestroy ==
  ASSUME ModeInv, NEW k \in Consoles, Destroy(k)
  PROVE  ModeInv'
<1>1. living' = living \ {k} /\ living' \subseteq Consoles /\ living # {} /\ k \in living
  BY DEF Destroy, ModeInv, Counted
<1>2. /\ IsFiniteSet(living) /\ Cardinality(living) \in Nat
      /\ Cardinality(living') \in Nat /\ Cardinality(living') < CountLimit
      /\ (Cardinality(living') = 0) <=> (living' = {})
  BY <1>1, FewConsoles DEF ModeInv, Counted
<1>3. Cardinality(living') = Cardinality(living) - 1
  BY <1>1, <1>2, FS_RemoveElement
<1>4. sStaticInstanceCount' = Cardinality(living')
  <2>1. sStaticInstanceCount' = Cardinality(living') % CountLimit
    BY <1>3 DEF Destroy, ModeInv, Counted
  <2> QED BY <1>2, <2>1, NoWrap
<1>5. theirs' = theirs /\ sStaticOldTerminal = theirs /\ mode = Raw(theirs)
  BY <1>1 DEF Destroy, ModeInv, Counted, ModeFollowsConsoles
<1>6. CASE living' = {}
  <2>1. mode' = sStaticOldTerminal
    BY <1>2, <1>4, <1>6 DEF Destroy, setTerminalMode
  <2> QED BY <1>1, <1>4, <1>5, <1>6, <2>1 DEF ModeInv, Counted, ModeFollowsConsoles
<1>7. CASE living' # {}
  <2>1. UNCHANGED <<sStaticOldTerminal, mode>>
    BY <1>2, <1>4, <1>7 DEF Destroy
  <2> QED BY <1>1, <1>4, <1>5, <1>7, <2>1 DEF ModeInv, Counted, ModeFollowsConsoles
<1> QED BY <1>6, <1>7

LEMMA ModeNext ==
  ASSUME ~Copying, ModeInv, [TerminalNext]_consoleVars
  PROVE  ModeInv'
<1>1. ASSUME NEW k \in Consoles, Copy(k) PROVE ModeInv'
  BY <1>1 DEF Copy
<1>2. ASSUME NEW m \in Modes, OthersSetMode(m) PROVE ModeInv'
  BY <1>2 DEF OthersSetMode, ModeInv, Counted, ModeFollowsConsoles
<1>3. CASE UNCHANGED consoleVars
  BY <1>3 DEF consoleVars, ModeInv, Counted, ModeFollowsConsoles
<1> QED BY <1>1, <1>2, <1>3, ModeConstruct, ModeDestroy DEF TerminalNext

\* While a console lives the terminal hands over single characters and echoes
\* none, and without one it is as others left it: however many consoles are
\* made and destroyed, in whatever order, if none is copied.
THEOREM ModeCorrect == ~Copying => (TerminalSpec => []ModeFollowsConsoles)
<1>1. ~Copying /\ ModeInv /\ [TerminalNext]_consoleVars => ModeInv'
  BY ModeNext
<1>2. ModeInv => ModeFollowsConsoles
  BY DEF ModeInv
<1>3. SUFFICES ASSUME ~Copying PROVE TerminalSpec => []ModeFollowsConsoles
  OBVIOUS
<1>4. ModeInv /\ [TerminalNext]_consoleVars => ModeInv'
  BY <1>1, <1>3
<1> QED BY <1>2, <1>4, ModeInit, PTL DEF TerminalSpec

\* To the count of consoles and the mode, every step is one of TerminalMode.
LEMMA ConsoleStep == [Next]_vars => [TerminalNext]_consoleVars
<1> SUFFICES ASSUME [Next]_vars PROVE TerminalNext \/ UNCHANGED consoleVars
  OBVIOUS
<1> USE DisplayConsoleAssumption DEF TerminalNext
<1>1. CASE Make \/ End
  BY <1>1 DEF Make, End
<1>2. CASE Elsewhere
  BY <1>2 DEF Elsewhere
<1>3. CASE Console /\ ~(Make \/ End)
  BY <1>3 DEF Console, Refresh, PushContent, ClearContent, Set, SetIsScreenUpdated,
              PushCharPrompt, Skip, PollPromptQueue
<1>4. CASE Terminal /\ ~Elsewhere
  BY <1>4 DEF Terminal, UserTypes, WindowResizes, TerminalDrains
<1>5. CASE UNCHANGED vars
  BY <1>5 DEF vars
<1> QED BY <1>1, <1>2, <1>3, <1>4, <1>5 DEF Next

LEMMA ConsoleMode == ~Copying => (Spec => []ModeInv)
<1>1. ~Copying /\ ModeInv /\ [Next]_vars => ModeInv'
  BY ConsoleStep, ModeNext
<1>2. Init => ModeInv
  BY ModeInit DEF Init
<1> SUFFICES ASSUME ~Copying PROVE Spec => []ModeInv
  OBVIOUS
<1>3. ModeInv /\ [Next]_vars => ModeInv'
  BY <1>1
<1> QED BY <1>2, <1>3, PTL DEF Spec

\* The terminal is in the mode the console needs while it lives, and in the
\* mode others gave it while none does.
THEOREM ConsoleModeCorrect == ~Copying => (Spec => []ModeFollowsConsoles)
<1> SUFFICES ASSUME ~Copying PROVE Spec => []ModeFollowsConsoles
  OBVIOUS
<1>1. ModeInv => ModeFollowsConsoles
  BY DEF ModeInv
<1>2. Spec => []ModeInv
  BY ConsoleMode
<1> QED BY <1>1, <1>2, PTL
-----------------------------------------------------------------------------
(* No change is forgotten.                                                 *)

\* What a frame is rendered from.
Shown == <<mContentBuffer, look, mPromptBuffer>>

LEMMA CurrentNext == FrameIsCurrent /\ [Next]_vars => FrameIsCurrent'
<1> SUFFICES ASSUME FrameIsCurrent, [Next]_vars PROVE FrameIsCurrent'
  OBVIOUS
<1>1. ASSUME UNCHANGED <<Shown, bIsScreenUpdated, suppressed, mScreenBuffer, mConsoleSize>>,
             Self \in living' => Self \in living
      PROVE  FrameIsCurrent'
  <2>1. renderScreenString(mConsoleSize)' = renderScreenString(mConsoleSize)
    BY <1>1 DEF Shown, renderScreenString, Visible
  <2> QED BY <1>1, <2>1 DEF FrameIsCurrent
<1>2. CASE bIsScreenUpdated'
  BY <1>2 DEF FrameIsCurrent
<1>3. CASE Make \/ End
  <2>1. CASE Make
    BY <1>2, <2>1 DEF Make
  <2>2. CASE End
    BY <2>2 DEF End, Destroy, FrameIsCurrent
  <2> QED BY <1>3, <2>1, <2>2
<1>4. CASE Elsewhere
  <2>1. UNCHANGED <<Shown, bIsScreenUpdated, suppressed, mScreenBuffer, mConsoleSize>>
    BY <1>4 DEF Elsewhere, Shown, display, prompt, frame
  <2>2. Self \in living' => Self \in living
    BY <1>4 DEF Elsewhere, Construct, Destroy, Copy, OthersSetMode
  <2> QED BY <1>1, <2>1, <2>2
<1>5. CASE Refresh
  <2>1. PICK found \in Measured, size \in Measured :
          /\ mScreenBuffer' = Pending(found, size).rows
          /\ mConsoleSize' = Pending(found, size).size
          /\ suppressed' = (suppressed /\ ~IsDue(found))
    BY <1>5 DEF Refresh
  <2>2. UNCHANGED <<Shown, living>>
    BY <1>5 DEF Refresh, Shown, display, prompt, consoleVars
  <2>3. CASE IsDue(found)
    <3>1. mScreenBuffer' = renderScreenString(size) /\ mConsoleSize' = size
      BY <2>1, <2>3 DEF Pending
    <3>2. renderScreenString(mConsoleSize)' = renderScreenString(size)
      BY <2>2, <3>1 DEF Shown, renderScreenString, Visible
    <3> QED BY <3>1, <3>2 DEF FrameIsCurrent
  <2>4. CASE ~IsDue(found)
    <3>1. mScreenBuffer' = mScreenBuffer /\ mConsoleSize' = mConsoleSize /\ ~bIsScreenUpdated
      BY <2>1, <2>4 DEF Pending, IsDue
    <3>2. ~suppressed' => ~suppressed
      BY <2>1, <2>4
    <3>3. renderScreenString(mConsoleSize)' = renderScreenString(mConsoleSize)
      BY <2>2, <3>1 DEF Shown, renderScreenString, Visible
    <3> QED BY <2>2, <3>1, <3>2, <3>3 DEF FrameIsCurrent
  <2> QED BY <2>3, <2>4
<1>6. ASSUME NEW status \in BOOLEAN, SetIsScreenUpdated(status) PROVE FrameIsCurrent'
  <2>1. UNCHANGED <<Shown, mScreenBuffer, mConsoleSize, living>>
    BY <1>6 DEF SetIsScreenUpdated, Shown, display, prompt, frame, consoleVars
  <2>2. renderScreenString(mConsoleSize)' = renderScreenString(mConsoleSize)
    BY <2>1 DEF Shown, renderScreenString, Visible
  <2>3. ~bIsScreenUpdated' /\ ~suppressed' => ~bIsScreenUpdated /\ ~suppressed
    BY <1>6 DEF SetIsScreenUpdated
  <2> QED BY <2>1, <2>2, <2>3 DEF FrameIsCurrent
<1>7. CASE \/ \E str \in Contents : PushContent(str)
           \/ ClearContent
           \/ \E field \in Fields, value \in Values : Set(field, value)
           \/ PushCharPrompt
  BY <1>2, <1>7 DEF PushContent, ClearContent, Set, PushCharPrompt
<1>8. CASE \/ Skip \/ PollPromptQueue
           \/ \E key \in Keys : UserTypes(key)
           \/ \E size \in Sizes : WindowResizes(size)
           \/ TerminalDrains
  BY <1>1, <1>8 DEF Skip, PollPromptQueue, UserTypes, WindowResizes, TerminalDrains,
                    Shown, display, prompt, frame, consoleVars
<1>9. CASE UNCHANGED vars
  BY <1>1, <1>9 DEF vars, Shown, display, prompt, frame, consoleVars
<1> QED BY <1>3, <1>4, <1>5, <1>6, <1>7, <1>8, <1>9 DEF Next, Console, Terminal

\* Whatever is changed, resized or measured wrongly, in any order with partial
\* and failed writes: once nothing is left to render, the frame is the current
\* one, but for what the application told the console to forget.
THEOREM FrameIsCurrentCorrect == Spec => []FrameIsCurrent
<1>1. Init => FrameIsCurrent
  BY DEF Init, TerminalInit, FrameIsCurrent
<1> QED BY <1>1, CurrentNext, PTL DEF Spec
-----------------------------------------------------------------------------
(* No frame is torn.                                                       *)

\* A frame clears the screen with its first row, and with no other.
IsFrame(rows) ==
  /\ \E S : rows \in Seq(S)
  /\ rows # <<>> => rows[1] = ClearRow
  /\ \A i \in 2 .. Len(rows) : rows[i] # ClearRow

LEMMA Framed ==
  ASSUME NEW S, NEW c \in S, NEW h \in S, NEW middle \in Seq(S), NEW f \in S, NEW p \in S,
         c = ClearRow, \A row \in S \ {c} : row # ClearRow,
         h # c, f # c, p # c, \A i \in 1 .. Len(middle) : middle[i] # c
  PROVE  IsFrame(<<c, h>> \o middle \o <<f, p>>)
<1> DEFINE top == <<c, h>>
           bottom == <<f, p>>
           all == top \o middle \o bottom
<1>1. /\ top \in Seq(S) /\ Len(top) = 2 /\ top[1] = c /\ top[2] = h
      /\ bottom \in Seq(S) /\ Len(bottom) = 2 /\ bottom[1] = f /\ bottom[2] = p
  OBVIOUS
<1>2. Len(middle) \in Nat
  BY LenProperties
<1> HIDE DEF top, bottom
<1>3. /\ top \o middle \in Seq(S) /\ Len(top \o middle) = Len(middle) + 2
      /\ \A i \in 1 .. Len(middle) + 2 :
           (top \o middle)[i] = IF i <= 2 THEN top[i] ELSE middle[i - 2]
  <2>1. /\ top \o middle \in Seq(S) /\ Len(top \o middle) = Len(top) + Len(middle)
        /\ \A i \in 1 .. Len(top) + Len(middle) :
             (top \o middle)[i] = IF i <= Len(top) THEN top[i] ELSE middle[i - Len(top)]
    BY <1>1, ConcatProperties
  <2>2. Len(top) + Len(middle) = Len(middle) + 2
    BY <1>1, <1>2
  <2> QED BY <1>1, <2>1, <2>2
<1>4. /\ all \in Seq(S) /\ Len(all) = Len(middle) + 4
      /\ \A i \in 1 .. Len(middle) + 4 :
           all[i] = IF i <= Len(middle) + 2 THEN (top \o middle)[i] ELSE bottom[i - (Len(middle) + 2)]
  BY <1>1, <1>2, <1>3, ConcatProperties
<1>5. all[1] = ClearRow
  BY <1>1, <1>2, <1>3, <1>4
<1>6. ASSUME NEW i \in 2 .. Len(all) PROVE all[i] # ClearRow
  <2>1. CASE i = 2
    BY <2>1, <1>1, <1>2, <1>3, <1>4
  <2>2. CASE i > 2 /\ i <= Len(middle) + 2
    <3>1. all[i] = middle[i - 2] /\ i - 2 \in 1 .. Len(middle)
      BY <2>2, <1>2, <1>3, <1>4
    <3> QED BY <3>1
  <2>3. CASE i = Len(middle) + 3
    <3>1. all[i] = bottom[1]
      BY <2>3, <1>2, <1>4
    <3> QED BY <3>1, <1>1
  <2>4. CASE i = Len(middle) + 4
    <3>1. all[i] = bottom[2]
      BY <2>4, <1>2, <1>4
    <3> QED BY <3>1, <1>1
  <2>5. i \in Nat /\ 2 <= i /\ i <= Len(middle) + 4
    BY <1>2, <1>4
  <2>6. i = 2 \/ (i > 2 /\ i <= Len(middle) + 2) \/ i = Len(middle) + 3 \/ i = Len(middle) + 4
    BY <1>2, <2>5
  <2> QED BY <2>1, <2>2, <2>3, <2>4, <2>6
<1>7. IsFrame(all)
  BY <1>4, <1>5, <1>6 DEF IsFrame
<1> QED BY <1>7 DEF top, bottom

LEMMA RenderedIsFrame ==
  ASSUME mContentBuffer \in Seq(Contents), NEW size \in Sizes
  PROVE  IsFrame(renderScreenString(size))
<1> DEFINE lines == Visible(size)
           row(i) == <<"content", lines[i], look, size.w>>
           head == <<"header", look, size.w>>
           foot == <<"footer", look, size.w>>
           last == <<"prompt", <<mPromptBuffer, size.w>> >>
           middle == [i \in 1 .. Len(lines) |-> row(i)]
           S == {ClearRow, head, foot, last} \cup {row(i) : i \in 1 .. Len(lines)}
<1>1. CASE size.h < MinHeight \/ size.w < MinWidth
  <2>1. renderScreenString(size) = <<ClearRow>>
    BY <1>1 DEF renderScreenString
  <2>2. <<ClearRow>> \in Seq({ClearRow}) /\ Len(<<ClearRow>>) = 1 /\ <<ClearRow>>[1] = ClearRow
    OBVIOUS
  <2> DEFINE rows == <<ClearRow>>
  <2>3. \E T : rows \in Seq(T)
    BY <2>2
  <2>4. \A i \in 2 .. Len(rows) : FALSE
    BY <2>2
  <2>5. rows[1] = ClearRow
    BY <2>2
  <2> HIDE DEF rows
  <2>6. IsFrame(rows)
    BY <2>3, <2>4, <2>5 DEF IsFrame
  <2> QED BY <2>1, <2>6 DEF rows
<1>2. CASE ~(size.h < MinHeight \/ size.w < MinWidth)
  <2>1. Len(lines) \in Nat
    <3> DEFINE n == D!Fewer(size.h - 3, Len(mContentBuffer))
    <3>1. Len(mContentBuffer) \in Nat
      BY LenProperties
    <3>2. size.h \in Nat /\ size.h - 3 \in Nat
      BY <1>2, DisplayConsoleAssumption
    <3>3. n \in 0 .. Len(mContentBuffer)
      BY <3>1, <3>2 DEF D!Fewer
    <3>4. \A i \in Len(mContentBuffer) - n + 1 .. Len(mContentBuffer) : mContentBuffer[i] \in Contents
      BY <3>1, <3>3, ElementOfSeq
    <3>5. lines = SubSeq(mContentBuffer, Len(mContentBuffer) - n + 1, Len(mContentBuffer))
      BY DEF Visible, D!Last
    <3>6. lines \in Seq(Contents)
      BY <3>1, <3>3, <3>4, <3>5, SubSeqProperties
    <3> QED BY <3>6, LenProperties
  <2>2. middle \in Seq(S) /\ Len(middle) = Len(lines)
    BY <2>1
  <2>3. /\ head # ClearRow /\ foot # ClearRow /\ last # ClearRow
        /\ \A i \in 1 .. Len(lines) : row(i) # ClearRow
    <3>1. ClearRow[1] = "clear"
      BY DEF ClearRow
    <3>2. /\ head[1] = "header" /\ foot[1] = "footer" /\ last[1] = "prompt"
          /\ \A i \in 1 .. Len(lines) : row(i)[1] = "content"
      OBVIOUS
    <3> QED BY <3>1, <3>2
  <2>4. \A i \in 1 .. Len(middle) : middle[i] # ClearRow
    BY <2>1, <2>2, <2>3
  <2>5. renderScreenString(size) = <<ClearRow, head>> \o middle \o <<foot, last>>
    BY <1>2 DEF renderScreenString
  <2>6. ClearRow \in S /\ head \in S /\ foot \in S /\ last \in S
    OBVIOUS
  <2> HIDE DEF middle, head, foot, last, S
  <2> QED BY <2>2, <2>3, <2>4, <2>5, <2>6, Framed
<1> QED BY <1>1, <1>2

\* Rows of a frame that are written, after the rows before them.
LEMMA WrittenRows ==
  ASSUME NEW rows, IsFrame(rows), rows # <<>>,
         NEW i \in 0 .. Len(rows), NEW n \in 0 .. Len(rows) - i, i = 0 => n > 0,
         NEW before, i > 0 => before = SubSeq(rows, 1, i)
  PROVE  LET chunk == SubSeq(rows, i + 1, i + n)
         IN  (IF chunk # <<>> /\ Head(chunk) = ClearRow THEN chunk ELSE before \o chunk)
             = SubSeq(rows, 1, i + n)
<1> DEFINE chunk == SubSeq(rows, i + 1, i + n)
<1>1. PICK S : rows \in Seq(S)
  BY DEF IsFrame
<1>2. Len(rows) \in Nat
  BY <1>1, LenProperties
<1>3. CASE i = 0
  <2>1. Head(chunk) = rows[1]
    BY <1>1, <1>2, <1>3, HeadTailOfSubSeq
  <2>2. Len(chunk) = n
    <3>1. \A j \in i + 1 .. i + n : rows[j] \in S
      BY <1>1, <1>2, ElementOfSeq
    <3> QED BY <1>2, <1>3, <3>1, SubSeqProperties
  <2>3. chunk # <<>>
    BY <1>3, <2>2
  <2> QED BY <1>3, <2>1, <2>3 DEF IsFrame
<1>4. CASE i > 0
  <2>1. before \o chunk = SubSeq(rows, 1, i + n)
    <3>1. i + n \in i .. Len(rows) /\ 1 \in 1 .. Len(rows) + 1 /\ i \in 1 - 1 .. Len(rows)
      BY <1>2, <1>4
    <3>2. SubSeq(rows, 1, i) \o SubSeq(rows, i + 1, i + n) = SubSeq(rows, 1, i + n)
      BY <1>1, <3>1, ConcatAdjacentSubSeq
    <3> QED BY <1>4, <3>2
  <2>2. chunk # <<>> => Head(chunk) # ClearRow
    <3>1. CASE n = 0
      BY <1>2, <3>1, SubSeqEmpty
    <3>2. CASE n > 0
      <4>1. i + 1 \in 1 .. Len(rows) /\ i + n \in i + 1 .. Len(rows)
        BY <1>2, <1>4, <3>2
      <4>2. Head(chunk) = rows[i + 1]
        BY <1>1, <4>1, HeadTailOfSubSeq
      <4> QED BY <1>2, <1>4, <4>1, <4>2 DEF IsFrame
    <3> QED BY <1>2, <3>1, <3>2
  <2> QED BY <2>1, <2>2
<1> QED BY <1>2, <1>3, <1>4

\* The rest of a frame, and the part of it the terminal takes.
LEMMA RestOfFrame ==
  ASSUME NEW rows, IsFrame(rows), NEW i \in 0 .. Len(rows)
  PROVE  LET rest == SubSeq(rows, i + 1, Len(rows))
         IN  /\ Len(rest) = Len(rows) - i
             /\ (rest = <<>>) <=> (i = Len(rows))
             /\ \A n \in 0 .. Len(rows) - i : SubSeq(rest, 1, n) = SubSeq(rows, i + 1, i + n)
<1> DEFINE rest == SubSeq(rows, i + 1, Len(rows))
<1>1. PICK S : rows \in Seq(S)
  BY DEF IsFrame
<1>2. Len(rows) \in Nat
  BY <1>1, LenProperties
<1>3. rest \in Seq(S) /\ Len(rest) = Len(rows) - i
  <2>1. \A j \in i + 1 .. Len(rows) : rows[j] \in S
    BY <1>1, <1>2, ElementOfSeq
  <2> QED BY <1>2, <2>1, SubSeqProperties
<1>4. (rest = <<>>) <=> (i = Len(rows))
  <2>1. i = Len(rows) <=> Len(rest) = 0
    BY <1>2, <1>3
  <2> HIDE DEF rest
  <2>2. (rest = <<>>) <=> (Len(rest) = 0)
    BY <1>3, EmptySeq
  <2> QED BY <2>1, <2>2
<1>5. ASSUME NEW n \in 0 .. Len(rows) - i PROVE SubSeq(rest, 1, n) = SubSeq(rows, i + 1, i + n)
  <2>1. CASE n = 0
    <3>1. SubSeq(rest, 1, n) = <<>> /\ SubSeq(rows, i + 1, i + n) = <<>>
      BY <1>2, <2>1, SubSeqEmpty
    <3> QED BY <3>1
  <2>2. CASE n > 0
    <3>1. /\ i + 1 \in 1 .. Len(rows) /\ Len(rows) \in 1 .. Len(rows)
          /\ 1 \in 1 .. Len(rows) - (i + 1) + 1 /\ n \in 1 .. Len(rows) - (i + 1) + 1
      BY <1>2, <2>2
    <3>2. SubSeq(rest, 1, n) = SubSeq(rows, i + 1 + 1 - 1, i + 1 + n - 1)
      BY <1>1, <3>1, SubSeqOfSubSeq
    <3>3. i + 1 + 1 - 1 = i + 1 /\ i + 1 + n - 1 = i + n
      BY <1>2
    <3> QED BY <3>2, <3>3
  <2> QED BY <1>2, <2>1, <2>2
<1> QED BY <1>3, <1>4, <1>5

\* The frame, what is written of it and what the terminal shows go together.
FrameInv ==
  /\ room \in Nat /\ window \in Sizes /\ mContentBuffer \in Seq(Contents)
  /\ bIsScreenBufferRemain \in BOOLEAN
  /\ IsFrame(mScreenBuffer)
  /\ bIsScreenBufferRemain => mScreenBufferIndex \in 0 .. Len(mScreenBuffer)
  /\ NoTornFrame

LEMMA FrameInit == Init => FrameInv
<1> SUFFICES ASSUME Init PROVE FrameInv
  OBVIOUS
<1>1. IsFrame(<<>>) /\ <<>> \in Seq(Contents)
  <2>1. <<>> \in Seq(Contents) /\ Len(<<>>) = 0
    OBVIOUS
  <2>2. \A i \in 2 .. Len(<<>>) : FALSE
    BY <2>1
  <2> QED BY <2>1, <2>2 DEF IsFrame
<1>2. room \in Nat
  BY DisplayConsoleAssumption DEF Init
<1> QED BY <1>1, <1>2 DEF Init, TerminalInit, FrameInv, NoTornFrame, D!Init

\* The three ends of Refresh, from a frame of which index rows are shown.
LEMMA FrameRefreshed ==
  ASSUME room \in Nat,
         NEW p, IsFrame(p.rows), p.remain \in BOOLEAN,
         p.remain => p.index \in 0 .. Len(p.rows),
         p.remain /\ p.index > 0 => screen = SubSeq(p.rows, 1, p.index),
         ~p.remain /\ p.rows # <<>> => screen = p.rows,
         Refresh_Nothing(p) \/ Refresh_Writes(p) \/ Refresh_Fails(p)
  PROVE  /\ room' \in Nat /\ bIsScreenBufferRemain' \in BOOLEAN
         /\ bIsScreenBufferRemain' => mScreenBufferIndex' \in 0 .. Len(p.rows)
         /\ bIsScreenBufferRemain' /\ mScreenBufferIndex' > 0
              => screen' = SubSeq(p.rows, 1, mScreenBufferIndex')
         /\ ~bIsScreenBufferRemain' /\ p.rows # <<>> => screen' = p.rows
<1>1. CASE Refresh_Nothing(p)
  BY <1>1 DEF Refresh_Nothing
<1>2. CASE Refresh_Fails(p)
  BY <1>2 DEF Refresh_Fails
<1>3. CASE Refresh_Writes(p)
  <2> DEFINE rest == Rest(p)
             wrote == D!Fewer(Len(rest), room)
  <2>1. PICK S : p.rows \in Seq(S)
    BY DEF IsFrame
  <2>2. Len(p.rows) \in Nat /\ p.remain /\ p.index \in 0 .. Len(p.rows)
    BY <1>3, <2>1, LenProperties DEF Refresh_Writes
  <2>3. /\ Len(rest) = Len(p.rows) - p.index
        /\ (rest = <<>>) <=> (p.index = Len(p.rows))
        /\ \A n \in 0 .. Len(p.rows) - p.index :
             SubSeq(rest, 1, n) = SubSeq(p.rows, p.index + 1, p.index + n)
    BY <2>2, RestOfFrame DEF Rest
  <2>4. /\ wrote \in 0 .. Len(p.rows) - p.index /\ wrote <= room /\ wrote \in Nat
        /\ p.index < Len(p.rows) => wrote > 0
    <3>1. wrote \in {Len(rest), room} /\ wrote <= room /\ wrote <= Len(rest)
      BY <2>2, <2>3 DEF D!Fewer
    <3>2. p.index < Len(p.rows) => rest # <<>>
      BY <2>2, <2>3
    <3>3. p.index < Len(p.rows) => room > 0
      BY <1>3, <3>2 DEF Refresh_Writes
    <3> QED BY <2>2, <2>3, <3>1, <3>3
  <2>5. /\ Shows(SubSeq(rest, 1, wrote))
        /\ IF wrote = Len(rest)
           THEN bIsScreenBufferRemain' = FALSE /\ mScreenBufferIndex' = 0
           ELSE bIsScreenBufferRemain' = TRUE /\ mScreenBufferIndex' = p.index + wrote
    BY <1>3 DEF Refresh_Writes
  <2> DEFINE chunk == SubSeq(p.rows, p.index + 1, p.index + wrote)
  <2>6. SubSeq(rest, 1, wrote) = chunk
    BY <2>3, <2>4
  <2>7. Len(chunk) = wrote
    <3>1. \A j \in p.index + 1 .. p.index + wrote : p.rows[j] \in S
      BY <2>1, <2>2, <2>4, ElementOfSeq
    <3> QED BY <2>2, <2>4, <3>1, SubSeqProperties
  <2>8. room' \in Nat
    BY <2>4, <2>5, <2>6, <2>7 DEF Shows
  <2>9. p.rows # <<>> => screen' = SubSeq(p.rows, 1, p.index + wrote)
    <3> SUFFICES ASSUME p.rows # <<>> PROVE screen' = SubSeq(p.rows, 1, p.index + wrote)
      OBVIOUS
    <3>1. Len(p.rows) > 0
      BY <2>1, <2>2, EmptySeq
    <3>2. p.index = 0 => wrote > 0
      BY <2>2, <2>4, <3>1
    <3>3. p.index > 0 => screen = SubSeq(p.rows, 1, p.index)
      BY <2>2
    <3>4. (IF chunk # <<>> /\ Head(chunk) = ClearRow THEN chunk ELSE screen \o chunk)
          = SubSeq(p.rows, 1, p.index + wrote)
      BY <2>2, <2>4, <3>2, <3>3, WrittenRows
    <3> QED BY <2>5, <2>6, <3>4 DEF Shows
  <2>10. CASE wrote = Len(rest)
    <3>1. p.index + wrote = Len(p.rows)
      BY <2>2, <2>3, <2>10
    <3>2. SubSeq(p.rows, 1, Len(p.rows)) = p.rows
      BY <2>1, SubSeqFull
    <3> QED BY <2>5, <2>8, <2>9, <2>10, <3>1, <3>2
  <2>11. CASE wrote # Len(rest)
    <3>1. p.rows # <<>>
      <4>1. p.rows = <<>> => Len(p.rows) = 0
        BY <2>1, EmptySeq
      <4> QED BY <2>2, <2>3, <2>4, <2>11, <4>1
    <3>2. p.index + wrote \in 0 .. Len(p.rows)
      BY <2>2, <2>4
    <3> QED BY <2>5, <2>8, <2>9, <2>11, <3>1, <3>2
  <2> QED BY <2>10, <2>11
<1> QED BY <1>1, <1>2, <1>3

LEMMA FrameNext == ModeInv /\ FrameInv /\ [Next]_vars => FrameInv'
<1> SUFFICES ASSUME ModeInv, FrameInv, [Next]_vars PROVE FrameInv'
  OBVIOUS
<1>1. IsFrame(<<>>) /\ <<>> \in Seq(Contents)
  <2>1. <<>> \in Seq(Contents) /\ Len(<<>>) = 0
    OBVIOUS
  <2>2. \A i \in 2 .. Len(<<>>) : FALSE
    BY <2>1
  <2> QED BY <2>1, <2>2 DEF IsFrame
<1>2. ASSUME UNCHANGED <<mScreenBuffer, mScreenBufferIndex, bIsScreenBufferRemain, screen>>,
             room' \in Nat, window' \in Sizes, mContentBuffer' \in Seq(Contents),
             Self \in living' => Self \in living
      PROVE  FrameInv'
  BY <1>2 DEF FrameInv, NoTornFrame
<1>3. CASE Make
  <2>1. Len(mScreenBuffer) \in Nat
    BY LenProperties DEF FrameInv, IsFrame
  <2> QED BY <1>3, <2>1 DEF Make, FrameInv, NoTornFrame, display, terminal
<1>4. CASE End
  BY <1>1, <1>4 DEF End, FrameInv, NoTornFrame, terminal
<1>5. CASE Elsewhere
  <2>1. Self \in living' => Self \in living
    BY <1>5 DEF Elsewhere, Construct, Destroy, Copy, OthersSetMode
  <2> QED BY <1>2, <1>5, <2>1 DEF Elsewhere, FrameInv, display, frame, terminal
<1>6. CASE Refresh
  <2>1. PICK found \in Measured, size \in Measured :
          /\ \/ Refresh_Nothing(Pending(found, size))
             \/ Refresh_Writes(Pending(found, size))
             \/ Refresh_Fails(Pending(found, size))
          /\ mScreenBuffer' = Pending(found, size).rows
    BY <1>6 DEF Refresh
  <2> DEFINE p == Pending(found, size)
  <2>2. UNCHANGED <<mContentBuffer, window, living>> /\ Self \in living
    BY <1>6 DEF Refresh, CanCall, display, consoleVars
  <2>3. size \in Sizes
    BY DEF Measured, FrameInv
  <2>4. /\ IsFrame(p.rows) /\ p.remain \in BOOLEAN
        /\ p.remain => p.index \in 0 .. Len(p.rows)
        /\ p.remain /\ p.index > 0 => screen = SubSeq(p.rows, 1, p.index)
        /\ ~p.remain /\ p.rows # <<>> => screen = p.rows
    <3>1. CASE IsDue(found)
      <4>1. p.rows = renderScreenString(size) /\ p.index = 0 /\ p.remain = TRUE
        BY <3>1 DEF Pending
      <4>2. IsFrame(renderScreenString(size))
        BY <2>3, RenderedIsFrame DEF FrameInv
      <4>3. Len(renderScreenString(size)) \in Nat
        BY <4>2, LenProperties DEF IsFrame
      <4> HIDE DEF p
      <4>4. 0 \in 0 .. Len(renderScreenString(size))
        BY <4>3
      <4>5. p.remain \in BOOLEAN /\ p.remain
        BY <4>1
      <4>6. IsFrame(p.rows) /\ p.index \in 0 .. Len(p.rows)
        BY <4>1, <4>2, <4>4
      <4> QED BY <4>1, <4>5, <4>6
    <3>2. CASE ~IsDue(found)
      <4>1. /\ p.rows = mScreenBuffer /\ p.index = mScreenBufferIndex
            /\ p.remain = bIsScreenBufferRemain
        BY <3>2 DEF Pending
      <4>2. /\ IsFrame(mScreenBuffer) /\ bIsScreenBufferRemain \in BOOLEAN
            /\ bIsScreenBufferRemain => mScreenBufferIndex \in 0 .. Len(mScreenBuffer)
            /\ bIsScreenBufferRemain /\ mScreenBufferIndex > 0
                 => screen = SubSeq(mScreenBuffer, 1, mScreenBufferIndex)
            /\ ~bIsScreenBufferRemain /\ mScreenBuffer # <<>> => screen = mScreenBuffer
        BY <2>2 DEF FrameInv, NoTornFrame
      <4> HIDE DEF p
      <4> QED BY <4>1, <4>2
    <3> QED BY <3>1, <3>2
  <2>5. room \in Nat /\ (Refresh_Nothing(p) \/ Refresh_Writes(p) \/ Refresh_Fails(p))
    BY <2>1 DEF FrameInv
  <2>6. mScreenBuffer' = p.rows
    BY <2>1
  <2> HIDE DEF p
  <2>7. /\ room' \in Nat /\ bIsScreenBufferRemain' \in BOOLEAN
        /\ bIsScreenBufferRemain' => mScreenBufferIndex' \in 0 .. Len(p.rows)
        /\ bIsScreenBufferRemain' /\ mScreenBufferIndex' > 0
             => screen' = SubSeq(p.rows, 1, mScreenBufferIndex')
        /\ ~bIsScreenBufferRemain' /\ p.rows # <<>> => screen' = p.rows
    BY <2>4, <2>5, FrameRefreshed
  <2>8. /\ bIsScreenBufferRemain' => mScreenBufferIndex' \in 0 .. Len(mScreenBuffer')
        /\ IsFrame(mScreenBuffer') /\ window' \in Sizes /\ mContentBuffer' \in Seq(Contents)
    BY <2>2, <2>4, <2>6, <2>7 DEF FrameInv
  <2>9. NoTornFrame'
    BY <2>6, <2>7 DEF NoTornFrame
  <2> QED BY <2>7, <2>8, <2>9 DEF FrameInv, IsFrame
<1>7. ASSUME NEW str \in Contents, PushContent(str) PROVE FrameInv'
  <2>1. mContentBuffer' \in Seq(Contents)
    <3> DEFINE lines == Append(mContentBuffer, str)
    <3>1. lines \in Seq(Contents) /\ lines # <<>>
      BY AppendProperties DEF FrameInv
    <3>2. mContentBuffer' \in {lines, Tail(lines)}
      BY <1>7 DEF PushContent, D!PushContent, D!Trimmed
    <3> HIDE DEF lines
    <3>3. Tail(lines) \in Seq(Contents)
      BY <3>1, HeadTailProperties
    <3> QED BY <3>1, <3>2, <3>3
  <2> QED BY <1>2, <1>7, <2>1 DEF PushContent, FrameInv, frame, terminal, consoleVars
<1>8. CASE ClearContent
  BY <1>1, <1>2, <1>8 DEF ClearContent, D!Clear, FrameInv, frame, terminal, consoleVars
<1>9. CASE \/ \E field \in Fields, value \in Values : Set(field, value)
           \/ \E status \in BOOLEAN : SetIsScreenUpdated(status)
           \/ PushCharPrompt \/ Skip \/ PollPromptQueue
  BY <1>2, <1>9 DEF Set, SetIsScreenUpdated, PushCharPrompt, Skip, PollPromptQueue,
                    FrameInv, display, frame, terminal, consoleVars
<1>10. ASSUME NEW key \in Keys, UserTypes(key) PROVE FrameInv'
  <2>1. "ECHO" \notin mode
    BY <1>10 DEF UserTypes, ModeInv, ModeFollowsConsoles, Raw
  <2>2. screen' = screen
    BY <1>10, <2>1 DEF UserTypes
  <2> QED BY <1>2, <1>10, <2>2 DEF UserTypes, FrameInv, display, frame, consoleVars
<1>11. ASSUME NEW size \in Sizes, WindowResizes(size) PROVE FrameInv'
  BY <1>2, <1>11 DEF WindowResizes, FrameInv, display, frame, consoleVars
<1>12. CASE TerminalDrains
  BY <1>2, <1>12 DEF TerminalDrains, FrameInv, display, frame, consoleVars
<1>13. CASE UNCHANGED vars
  BY <1>2, <1>13 DEF vars, FrameInv, display, frame, terminal, consoleVars
<1> QED BY <1>3, <1>4, <1>5, <1>6, <1>7, <1>8, <1>9, <1>10, <1>11, <1>12, <1>13
    DEF Next, Console, Terminal

\* While the console lives the terminal shows the beginning of one frame, and
\* the whole of it when nothing remains to be written: over partial and failed
\* writes, changes, any sizes, and any other consoles, if none is copied.
THEOREM NoTornFrameCorrect == ~Copying => (Spec => []NoTornFrame)
<1> SUFFICES ASSUME ~Copying PROVE Spec => []NoTornFrame
  OBVIOUS
<1>1. Spec => []ModeInv
  BY ConsoleMode
<1>2. FrameInv => NoTornFrame
  BY DEF FrameInv
<1> QED BY <1>1, <1>2, FrameInit, FrameNext, PTL DEF Spec
-----------------------------------------------------------------------------
(***************************************************************************)
(* The prompt.  What has been typed and not read determines, character by  *)
(* character, the lines there will be: the run of the reader over it.      *)
(***************************************************************************)

\* The keys a terminal sends: a character, or an escape sequence of three, as
\* the arrows send.  The Escape key alone is none of them.
KeysAreWhole ==
  \A key \in Keys :
    /\ \E S : key \in Seq(S)
    /\ \/ Len(key) = 1 /\ key[1] # Esc
       \/ Len(key) = 3 /\ key[1] = Esc

Chars == UNION {{key[i] : i \in 1 .. Len(key)} : key \in Keys}
Lines == Seq(Chars)

\* How far the reader is: the lines that are done, the one being edited, and
\* the characters it will throw away.
Readings == [done : Seq(Lines), line : Lines, skip : 0 .. 2]

Shorter(line) == IF line = <<>> THEN <<>> ELSE SubSeq(line, 1, Len(line) - 1)

\* The reader reads a character.
Read(s, ch) ==
  CASE s.skip > 0         -> [done |-> s.done, line |-> s.line, skip |-> s.skip - 1]
    [] s.skip = 0 /\ ch \in {Enter, Eot} ->
         [done |-> Append(s.done, s.line), line |-> <<>>, skip |-> 0]
    [] s.skip = 0 /\ ch = Del -> [done |-> s.done, line |-> Shorter(s.line), skip |-> 0]
    [] s.skip = 0 /\ ch = Esc -> [done |-> s.done, line |-> s.line, skip |-> 2]
    [] OTHER              -> [done |-> s.done, line |-> Append(s.line, ch), skip |-> 0]

\* Reading text takes the reader from one place to another.
Reads(from, text, to) ==
  \E run \in [0 .. Len(text) -> Readings] :
    /\ run[0] = from /\ run[Len(text)] = to
    /\ \A i \in 1 .. Len(text) : run[i] = Read(run[i - 1], text[i])

Reader == [done |-> polled \o mPromptQueue, line |-> mPromptBuffer, skip |-> skipping]

\* When all that is typed is read, the reader has the lines the user meant and
\* is in the middle of none of the keys.
PromptInv ==
  /\ typed \in Seq(Chars)
  /\ mPromptBuffer \in Lines /\ mPromptQueue \in Seq(Lines) /\ polled \in Seq(Lines)
  /\ skipping \in 0 .. 2
  /\ \E to \in Readings :
       Reads(Reader, typed, to) /\ to.skip = 0 /\ meant = Append(to.done, to.line)

LEMMA ShorterLine == ASSUME NEW line \in Lines PROVE Shorter(line) \in Lines
<1>1. CASE line = <<>>
  BY <1>1 DEF Shorter, Lines
<1>2. CASE line # <<>>
  <2>1. Len(line) \in Nat
    BY LenProperties DEF Lines
  <2>2. \A i \in 1 .. Len(line) - 1 : line[i] \in Chars
    BY <2>1, ElementOfSeq DEF Lines
  <2>3. SubSeq(line, 1, Len(line) - 1) \in Seq(Chars)
    BY <2>1, <2>2, SubSeqProperties
  <2> QED BY <1>2, <2>3 DEF Shorter, Lines
<1> QED BY <1>1, <1>2

LEMMA ReadType ==
  ASSUME NEW s \in Readings, NEW ch \in Chars
  PROVE  Read(s, ch) \in Readings
<1>1. s.done \in Seq(Lines) /\ s.line \in Lines /\ s.skip \in 0 .. 2
  BY DEF Readings
<1>2. /\ Append(s.done, s.line) \in Seq(Lines) /\ Append(s.line, ch) \in Lines
      /\ Shorter(s.line) \in Lines /\ <<>> \in Lines
  BY <1>1, AppendProperties, ShorterLine DEF Lines
<1>3. s.skip > 0 => s.skip - 1 \in 0 .. 2
  BY <1>1
<1> QED BY <1>1, <1>2, <1>3 DEF Read, Readings

\* Reading nothing leaves the reader where it is.
LEMMA ReadsNothing ==
  ASSUME NEW from \in Readings, NEW to
  PROVE  Reads(from, <<>>, to) <=> from = to
<1>1. Len(<<>>) = 0 /\ 0 .. 0 = {0} /\ 1 .. 0 = {}
  OBVIOUS
<1>2. ASSUME from = to PROVE Reads(from, <<>>, to)
  <2> DEFINE run == [i \in 0 .. 0 |-> from]
  <2>1. run \in [0 .. Len(<<>>) -> Readings] /\ run[0] = from
    BY <1>1
  <2> QED BY <1>1, <1>2, <2>1 DEF Reads
<1>3. ASSUME Reads(from, <<>>, to) PROVE from = to
  BY <1>1, <1>3 DEF Reads
<1> QED BY <1>2, <1>3

\* The first character is read.
LEMMA ReadsFirst ==
  ASSUME NEW from, NEW text \in Seq(Chars), text # <<>>, NEW to, Reads(from, text, to)
  PROVE  Reads(Read(from, Head(text)), Tail(text), to)
<1> DEFINE n == Len(text)
<1>1. n \in Nat \ {0} /\ Len(Tail(text)) = n - 1 /\ Head(text) = text[1]
  BY EmptySeq, HeadTailProperties
<1>2. \A i \in 1 .. n - 1 : Tail(text)[i] = text[i + 1]
  BY <1>1, HeadTailProperties
<1>3. PICK run \in [0 .. n -> Readings] :
        /\ run[0] = from /\ run[n] = to
        /\ \A i \in 1 .. n : run[i] = Read(run[i - 1], text[i])
  BY DEF Reads
<1> DEFINE later == [i \in 0 .. n - 1 |-> run[i + 1]]
<1>4. later \in [0 .. Len(Tail(text)) -> Readings]
  BY <1>1
<1>5. later[0] = Read(from, Head(text))
  <2>1. later[0] = run[1]
    BY <1>1
  <2>2. run[1] = Read(run[0], text[1])
    BY <1>1, <1>3
  <2> QED BY <1>1, <1>3, <2>1, <2>2
<1>6. later[Len(Tail(text))] = to
  BY <1>1, <1>3
<1>7. ASSUME NEW i \in 1 .. Len(Tail(text)) PROVE later[i] = Read(later[i - 1], Tail(text)[i])
  <2>1. i \in 1 .. n - 1 /\ i \in 0 .. n - 1 /\ i - 1 \in 0 .. n - 1 /\ i + 1 \in 1 .. n
    BY <1>1
  <2>2. later[i] = run[i + 1] /\ later[i - 1] = run[i]
    BY <2>1
  <2>3. run[i + 1] = Read(run[i], text[i + 1])
    BY <1>3, <2>1
  <2> QED BY <1>2, <2>1, <2>2, <2>3
<1> HIDE DEF later
<1> QED BY <1>4, <1>5, <1>6, <1>7 DEF Reads

\* One more character is typed.
LEMMA ReadsMore ==
  ASSUME NEW from, NEW text \in Seq(Chars), NEW to, Reads(from, text, to), NEW ch \in Chars
  PROVE  Reads(from, Append(text, ch), Read(to, ch))
<1> DEFINE n == Len(text)
           more == Append(text, ch)
<1>1. /\ n \in Nat /\ Len(more) = n + 1 /\ more[n + 1] = ch
      /\ \A i \in 1 .. n : more[i] = text[i]
  BY LenProperties, AppendProperties
<1>2. PICK run \in [0 .. n -> Readings] :
        /\ run[0] = from /\ run[n] = to
        /\ \A i \in 1 .. n : run[i] = Read(run[i - 1], text[i])
  BY DEF Reads
<1> DEFINE longer == [i \in 0 .. n + 1 |-> IF i <= n THEN run[i] ELSE Read(to, ch)]
<1>3. Read(to, ch) \in Readings
  <2>1. to \in Readings
    BY <1>1, <1>2
  <2> QED BY <2>1, ReadType
<1>4. longer \in [0 .. n + 1 -> Readings]
  BY <1>1, <1>3
<1>5. longer[0] = from /\ longer[n + 1] = Read(to, ch)
  BY <1>1, <1>2
<1>6. ASSUME NEW i \in 1 .. n + 1 PROVE longer[i] = Read(longer[i - 1], more[i])
  <2>1. CASE i <= n
    <3>1. i \in 1 .. n /\ i - 1 \in 0 .. n + 1 /\ i - 1 <= n /\ i \in 0 .. n + 1
      BY <1>1, <2>1
    <3>2. longer[i] = run[i] /\ longer[i - 1] = run[i - 1]
      BY <2>1, <3>1
    <3> QED BY <1>1, <1>2, <3>1, <3>2
  <2>2. CASE i = n + 1
    <3>1. longer[i] = Read(to, ch) /\ longer[i - 1] = run[n]
      BY <1>1, <2>2
    <3> QED BY <1>1, <1>2, <2>2, <3>1
  <2> QED BY <1>1, <2>1, <2>2
<1> HIDE DEF longer, more
<1>7. Reads(from, more, Read(to, ch))
  BY <1>1, <1>4, <1>5, <1>6 DEF Reads
<1> QED BY <1>7 DEF more

\* What the user means by a key is what reading its characters comes to.
LEMMA MeantCharacter ==
  ASSUME KeysAreWhole, NEW key \in Keys, Len(key) = 1,
         NEW to \in Readings, to.skip = 0
  PROVE  /\ key[1] \in Chars /\ key = <<key[1]>>
         /\ Read(to, key[1]).skip = 0
         /\ Meant(Append(to.done, to.line), key)
              = Append(Read(to, key[1]).done, Read(to, key[1]).line)
<1> DEFINE ch == key[1]
           lines == Append(to.done, to.line)
<1>1. ch \in Chars /\ key = <<ch>> /\ ch # Esc
  <2>1. PICK S : key \in Seq(S)
    BY DEF KeysAreWhole
  <2>2. key = <<ch>>
    <3>1. ch \in S
      <4>1. 1 \in 1 .. Len(key)
        OBVIOUS
      <4> QED BY <2>1, <4>1, ElementOfSeq
    <3> DEFINE one == <<ch>>
    <3>2. one \in Seq(S) /\ Len(one) = 1 /\ one[1] = key[1]
      BY <3>1
    <3> HIDE DEF one
    <3>3. key = one
      BY <2>1, <3>2, SeqEqual
    <3> QED BY <3>3 DEF one
  <2>3. ch \in Chars
    BY DEF Chars
  <2>4. ch # Esc
    <3>1. \A k \in Keys : (Len(k) = 1 /\ k[1] # Esc) \/ Len(k) = 3
      BY Zenon DEF KeysAreWhole
    <3>2. 1 # 3
      OBVIOUS
    <3> QED BY <3>1, <3>2
  <2> QED BY <2>2, <2>3, <2>4
<1>2. /\ to.done \in Seq(Lines) /\ to.line \in Lines
      /\ lines \in Seq(Lines) /\ Len(to.done) \in Nat /\ Len(lines) = Len(to.done) + 1
      /\ lines[Len(lines)] = to.line
  BY AppendProperties, LenProperties DEF Readings
<1>3. ASSUME NEW line \in Lines
      PROVE  [lines EXCEPT ![Len(lines)] = line] = Append(to.done, line)
  <2>1. Len(lines) \in 1 .. Len(lines)
    BY <1>2
  <2>2. /\ [lines EXCEPT ![Len(lines)] = line] \in Seq(Lines)
        /\ Len([lines EXCEPT ![Len(lines)] = line]) = Len(lines)
        /\ \A j \in 1 .. Len(lines) :
             [lines EXCEPT ![Len(lines)] = line][j] = IF j = Len(lines) THEN line ELSE lines[j]
    <3> HIDE DEF lines
    <3> QED BY <1>2, <2>1, ExceptSeq
  <2>3. /\ Append(to.done, line) \in Seq(Lines) /\ Len(Append(to.done, line)) = Len(to.done) + 1
        /\ \A j \in 1 .. Len(to.done) : Append(to.done, line)[j] = to.done[j] /\ lines[j] = to.done[j]
        /\ Append(to.done, line)[Len(to.done) + 1] = line
    BY <1>2, AppendProperties
  <2> HIDE DEF lines
  <2>4. \A j \in 1 .. Len(lines) :
          [lines EXCEPT ![Len(lines)] = line][j] = Append(to.done, line)[j]
    BY <1>2, <2>2, <2>3
  <2> QED BY <1>2, <2>2, <2>3, <2>4, SeqEqual
<1> HIDE DEF ch, lines
<1>4. Esc \notin {Enter, Eot, Del} /\ Del \notin {Enter, Eot}
  BY DisplayConsoleAssumption
<1>5. key[1] = ch
  BY DEF ch
<1>6. CASE ch \in {Enter, Eot}
  <2>1. Meant(lines, key) = Append(lines, <<>>)
    <3>1. key \in {<<Enter>>, <<Eot>>}
      BY <1>1, <1>6
    <3>2. key # <<Del>> /\ key[1] # Esc
      BY <1>1, <1>4, <1>5, <1>6
    <3> QED BY <3>1, <3>2 DEF Meant
  <2>2. Read(to, ch) = [done |-> Append(to.done, to.line), line |-> <<>>, skip |-> 0]
    BY <1>4, <1>6 DEF Read
  <2> QED BY <1>1, <1>5, <2>1, <2>2 DEF lines
<1>7. CASE ch = Del
  <2>1. key = <<Del>> /\ key \notin {<<Enter>>, <<Eot>>}
    BY <1>1, <1>4, <1>7
  <2>2. Meant(lines, key) = [lines EXCEPT ![Len(lines)] = Shorter(to.line)]
    <3>1. Shorter(to.line)
            = SubSeq(to.line, 1, IF to.line = <<>> THEN 0 ELSE Len(to.line) - 1)
      <4>1. SubSeq(to.line, 1, 0) = <<>>
        BY SubSeqEmpty
      <4> QED BY <4>1 DEF Shorter
    <3>2. key[1] # Esc
      BY <1>1, <1>5
    <3> QED BY <1>2, <2>1, <3>1, <3>2 DEF Meant
  <2>3. Read(to, ch) = [done |-> to.done, line |-> Shorter(to.line), skip |-> 0]
    BY <1>4, <1>7 DEF Read
  <2>4. Shorter(to.line) \in Lines
    BY <1>2, ShorterLine
  <2> QED BY <1>1, <1>3, <1>5, <2>2, <2>3, <2>4 DEF lines
<1>8. CASE ch \notin {Enter, Eot, Del}
  <2>1. key \notin {<<Enter>>, <<Eot>>} /\ key # <<Del>> /\ key[1] # Esc
    BY <1>1, <1>5, <1>8
  <2>2. Meant(lines, key) = [lines EXCEPT ![Len(lines)] = to.line \o key]
    BY <1>2, <2>1 DEF Meant
  <2>3. to.line \o key = Append(to.line, ch)
    BY <1>1, <1>2, AppendIsConcat DEF Lines
  <2>4. Read(to, ch) = [done |-> to.done, line |-> Append(to.line, ch), skip |-> 0]
    BY <1>1, <1>8 DEF Read
  <2>5. Append(to.line, ch) \in Lines
    BY <1>1, <1>2, AppendProperties DEF Lines
  <2>6. Meant(lines, key) = Append(to.done, Append(to.line, ch))
    BY <1>3, <2>2, <2>3, <2>5
  <2>7. Read(to, ch).skip = 0 /\ Append(Read(to, ch).done, Read(to, ch).line)
                                  = Append(to.done, Append(to.line, ch))
    BY <2>4
  <2> QED BY <1>1, <1>5, <2>6, <2>7 DEF lines
<1> QED BY <1>6, <1>7, <1>8

LEMMA MeantSequence ==
  ASSUME KeysAreWhole, NEW key \in Keys, Len(key) = 3,
         NEW to \in Readings, to.skip = 0
  PROVE  /\ \A i \in 1 .. 3 : key[i] \in Chars
         /\ key = <<key[1], key[2], key[3]>>
         /\ Read(Read(Read(to, key[1]), key[2]), key[3]) = to
         /\ Meant(Append(to.done, to.line), key) = Append(to.done, to.line)
<1>1. PICK S : key \in Seq(S)
  BY DEF KeysAreWhole
<1>2. key[1] = Esc /\ \A i \in 1 .. 3 : key[i] \in Chars
  BY DEF KeysAreWhole, Chars
<1>3. key = <<key[1], key[2], key[3]>>
  BY <1>1
<1>4. Meant(Append(to.done, to.line), key) = Append(to.done, to.line)
  <2>1. key \notin {<<Enter>>, <<Eot>>} /\ key # <<Del>>
    <3>1. Len(<<Enter>>) = 1 /\ Len(<<Eot>>) = 1 /\ Len(<<Del>>) = 1
      OBVIOUS
    <3> QED BY <3>1
  <2> QED BY <1>2, <2>1 DEF Meant
<1>5. /\ Read(to, Esc) = [done |-> to.done, line |-> to.line, skip |-> 2]
      /\ Read([done |-> to.done, line |-> to.line, skip |-> 2], key[2])
           = [done |-> to.done, line |-> to.line, skip |-> 1]
      /\ Read([done |-> to.done, line |-> to.line, skip |-> 1], key[3])
           = [done |-> to.done, line |-> to.line, skip |-> 0]
  BY DisplayConsoleAssumption DEF Read
<1>6. to = [done |-> to.done, line |-> to.line, skip |-> 0]
  BY DEF Readings
<1> QED BY <1>2, <1>3, <1>4, <1>5, <1>6

\* The reader has, done and being edited, the lines polled, queued and edited.
LEMMA ReaderIs ==
  ASSUME PromptInv
  PROVE  Reader \in Readings
<1>1. polled \o mPromptQueue \in Seq(Lines)
  BY ConcatProperties DEF PromptInv
<1> QED BY <1>1 DEF PromptInv, Reader, Readings

LEMMA ReaderReads ==
  ASSUME PromptInv, PushCharPrompt \/ Skip
  PROVE  /\ Reader' = Read(Reader, Head(typed))
         /\ mPromptBuffer' \in Lines /\ mPromptQueue' \in Seq(Lines) /\ polled' \in Seq(Lines)
         /\ skipping' \in 0 .. 2
<1> DEFINE ch == Head(typed)
<1>1. /\ typed # <<>> /\ ch \in Chars
      /\ mPromptBuffer \in Lines /\ mPromptQueue \in Seq(Lines) /\ polled \in Seq(Lines)
      /\ skipping \in 0 .. 2
  BY HeadTailProperties DEF PromptInv, PushCharPrompt, Skip
<1> HIDE DEF ch
<1>2. CASE Skip
  <2>1. UNCHANGED <<mPromptBuffer, mPromptQueue, polled>> /\ skipping' = skipping - 1 /\ skipping > 0
    BY <1>2 DEF Skip, prompt
  <2>2. skipping' \in 0 .. 2
    BY <1>1, <2>1
  <2>3. Reader' = Read(Reader, ch)
    BY <2>1 DEF Reader, Read
  <2> QED BY <1>1, <2>1, <2>2, <2>3 DEF ch
<1>3. CASE PushCharPrompt
  <2>1. /\ polled' = polled /\ skipping = 0
        /\ Line_Ends(ch) \/ Line_Erases(ch) \/ Line_Escapes(ch) \/ Line_Grows(ch)
    BY <1>3 DEF PushCharPrompt, CanCall, ch
  <2>2. Reader.skip = 0
    BY <2>1 DEF Reader
  <2>3. CASE Line_Ends(ch)
    <3>1. /\ mPromptQueue' = Append(mPromptQueue, mPromptBuffer) /\ mPromptBuffer' = <<>>
          /\ skipping' = 0 /\ ch \in {Enter, Eot}
      BY <2>1, <2>3 DEF Line_Ends
    <3>2. mPromptQueue' \in Seq(Lines) /\ mPromptBuffer' \in Lines
      BY <1>1, <3>1, AppendProperties DEF Lines
    <3>3. polled \o Append(mPromptQueue, mPromptBuffer)
            = Append(polled \o mPromptQueue, mPromptBuffer)
      <4>1. <<mPromptBuffer>> \in Seq(Lines) /\ polled \o mPromptQueue \in Seq(Lines)
        BY <1>1, ConcatProperties
      <4>2. Append(mPromptQueue, mPromptBuffer) = mPromptQueue \o <<mPromptBuffer>>
        BY <1>1, AppendIsConcat
      <4>3. Append(polled \o mPromptQueue, mPromptBuffer)
              = (polled \o mPromptQueue) \o <<mPromptBuffer>>
        BY <1>1, <4>1, AppendIsConcat
      <4>4. polled \o (mPromptQueue \o <<mPromptBuffer>>)
              = (polled \o mPromptQueue) \o <<mPromptBuffer>>
        BY <1>1, <4>1, ConcatAssociative
      <4> QED BY <4>2, <4>3, <4>4
    <3>4. Reader' = Read(Reader, ch)
      BY <2>1, <2>2, <3>1, <3>3, DisplayConsoleAssumption DEF Reader, Read
    <3> QED BY <1>1, <2>1, <3>1, <3>2, <3>4 DEF ch
  <2>4. CASE Line_Erases(ch)
    <3>1. mPromptBuffer' = Shorter(mPromptBuffer) /\ mPromptQueue' = mPromptQueue
          /\ skipping' = 0 /\ ch = Del
      BY <2>1, <2>4 DEF Line_Erases, Shorter
    <3>2. Reader' = Read(Reader, ch)
      BY <2>1, <2>2, <3>1, DisplayConsoleAssumption DEF Reader, Read
    <3> QED BY <1>1, <2>1, <3>1, <3>2, ShorterLine DEF ch
  <2>5. CASE Line_Escapes(ch)
    <3>1. UNCHANGED <<mPromptBuffer, mPromptQueue>> /\ skipping' = 2 /\ ch = Esc
      BY <2>5 DEF Line_Escapes
    <3>2. Reader' = Read(Reader, ch)
      BY <2>1, <2>2, <3>1, DisplayConsoleAssumption DEF Reader, Read
    <3> QED BY <1>1, <2>1, <3>1, <3>2 DEF ch
  <2>6. CASE Line_Grows(ch)
    <3>1. /\ mPromptBuffer' = Append(mPromptBuffer, ch) /\ mPromptQueue' = mPromptQueue
          /\ skipping' = 0 /\ ch \notin {Enter, Eot, Del, Esc}
      BY <2>1, <2>6 DEF Line_Grows
    <3>2. Reader' = Read(Reader, ch)
      BY <2>1, <2>2, <3>1 DEF Reader, Read
    <3>3. mPromptBuffer' \in Lines
      BY <1>1, <3>1, AppendProperties DEF Lines
    <3> QED BY <1>1, <2>1, <3>1, <3>2, <3>3 DEF ch
  <2> QED BY <2>1, <2>3, <2>4, <2>5, <2>6
<1> QED BY <1>2, <1>3

LEMMA PromptReads ==
  ASSUME PromptInv, PushCharPrompt \/ Skip
  PROVE  PromptInv'
<1>1. typed # <<>> /\ typed' = Tail(typed) /\ meant' = meant
  BY DEF PushCharPrompt, Skip
<1>2. PICK to \in Readings : Reads(Reader, typed, to) /\ to.skip = 0
                             /\ meant = Append(to.done, to.line)
  BY DEF PromptInv
<1>3. Reads(Read(Reader, Head(typed)), Tail(typed), to)
  BY <1>1, <1>2, ReadsFirst DEF PromptInv
<1>4. typed' \in Seq(Chars)
  BY <1>1, HeadTailProperties DEF PromptInv
<1>5. Reads(Reader', typed', to)
  BY <1>1, <1>3, ReaderReads
<1>6. Reads(Reader, typed, to)' <=> Reads(Reader', typed', to)
  BY DEF Reads
<1>7. meant' = Append(to.done, to.line)
  BY <1>1, <1>2
<1> QED BY <1>2, <1>4, <1>5, <1>6, <1>7, ReaderReads DEF PromptInv

LEMMA Three ==
  ASSUME NEW S, NEW a \in S, NEW b \in S, NEW c \in S
  PROVE  /\ <<a>> \in Seq(S) /\ <<b>> \in Seq(S) /\ <<c>> \in Seq(S) /\ <<b, c>> \in Seq(S)
         /\ <<b>> \o <<c>> = <<b, c>> /\ <<a>> \o <<b, c>> = <<a, b, c>>
<1>1. <<a>> \in Seq(S) /\ <<b>> \in Seq(S) /\ <<c>> \in Seq(S) /\ <<b, c>> \in Seq(S)
  OBVIOUS
<1>2. <<b>> \o <<c>> = <<b, c>>
  <2> DEFINE s == <<b>> \o <<c>>
             t == <<b, c>>
  <2>1. s \in Seq(S) /\ Len(s) = 2 /\ s[1] = b /\ s[2] = c
    BY <1>1, ConcatProperties
  <2>2. t \in Seq(S) /\ Len(t) = 2 /\ t[1] = b /\ t[2] = c
    BY <1>1
  <2> HIDE DEF s, t
  <2>3. s = t
    BY <2>1, <2>2, SeqEqual
  <2> QED BY <2>3 DEF s, t
<1>3. <<a>> \o <<b, c>> = <<a, b, c>>
  <2> DEFINE s == <<a>> \o <<b, c>>
             t == <<a, b, c>>
  <2>1. s \in Seq(S) /\ Len(s) = 3 /\ s[1] = a /\ s[2] = b /\ s[3] = c
    BY <1>1, ConcatProperties
  <2>2. t \in Seq(S) /\ Len(t) = 3 /\ t[1] = a /\ t[2] = b /\ t[3] = c
    OBVIOUS
  <2> HIDE DEF s, t
  <2>3. s = t
    BY <2>1, <2>2, SeqEqual
  <2> QED BY <2>3 DEF s, t
<1> QED BY <1>1, <1>2, <1>3

\* A key is typed: one character, or three.
LEMMA PromptTypes ==
  ASSUME KeysAreWhole, PromptInv, NEW key \in Keys, UserTypes(key)
  PROVE  PromptInv'
<1>1. /\ typed' = typed \o key /\ meant' = Meant(meant, key)
      /\ UNCHANGED <<mPromptBuffer, mPromptQueue, polled, skipping>> /\ Reader' = Reader
  BY DEF UserTypes, prompt, Reader
<1>2. PICK to \in Readings : Reads(Reader, typed, to) /\ to.skip = 0
                             /\ meant = Append(to.done, to.line)
  BY DEF PromptInv
<1>3. typed \in Seq(Chars)
  BY DEF PromptInv
<1>4. Len(key) = 1 \/ Len(key) = 3
  BY Zenon DEF KeysAreWhole
<1>5. CASE Len(key) = 1
  <2> DEFINE ch == key[1]
             then == Read(to, ch)
  <2>1. /\ ch \in Chars /\ key = <<ch>> /\ then.skip = 0
        /\ Meant(meant, key) = Append(then.done, then.line)
    BY <1>2, <1>5, MeantCharacter
  <2>2. typed \o key = Append(typed, ch)
    BY <1>3, <2>1, AppendIsConcat
  <2>3. Append(typed, ch) \in Seq(Chars)
    BY <1>3, <2>1, AppendProperties
  <2>4. then \in Readings
    BY <1>2, <2>1, ReadType
  <2>5. Reads(Reader, Append(typed, ch), then)
    BY <1>2, <1>3, <2>1, ReadsMore
  <2> HIDE DEF ch, then
  <2>6. Reads(Reader, typed, then)'
    BY <1>1, <2>2, <2>5 DEF Reads
  <2> QED BY <1>1, <2>1, <2>2, <2>3, <2>4, <2>6 DEF PromptInv
<1>6. CASE Len(key) = 3
  <2> DEFINE one == Append(typed, key[1])
             two == Append(one, key[2])
             three == Append(two, key[3])
  <2>1. /\ key[1] \in Chars /\ key[2] \in Chars /\ key[3] \in Chars
        /\ key = <<key[1], key[2], key[3]>>
        /\ Read(Read(Read(to, key[1]), key[2]), key[3]) = to
        /\ Meant(meant, key) = meant
    <3>1. 1 \in 1 .. 3 /\ 2 \in 1 .. 3 /\ 3 \in 1 .. 3
      OBVIOUS
    <3> QED BY <1>2, <1>6, <3>1, MeantSequence
  <2>2. one \in Seq(Chars) /\ two \in Seq(Chars) /\ three \in Seq(Chars)
    BY <1>3, <2>1, AppendProperties
  <2>3. three = typed \o key
    <3>1. one = typed \o <<key[1]>>
      BY <1>3, <2>1, AppendIsConcat
    <3>2. two = one \o <<key[2]>>
      BY <2>1, <2>2, AppendIsConcat
    <3>3. three = two \o <<key[3]>>
      BY <2>1, <2>2, AppendIsConcat
    <3>4. /\ <<key[1]>> \in Seq(Chars) /\ <<key[2]>> \in Seq(Chars) /\ <<key[3]>> \in Seq(Chars)
          /\ <<key[2], key[3]>> \in Seq(Chars)
          /\ <<key[2]>> \o <<key[3]>> = <<key[2], key[3]>>
          /\ <<key[1]>> \o <<key[2], key[3]>> = <<key[1], key[2], key[3]>>
      BY <2>1, Three
    <3>5. three = one \o (<<key[2]>> \o <<key[3]>>)
      BY <2>2, <3>2, <3>3, <3>4, ConcatAssociative
    <3>6. three = typed \o (<<key[1]>> \o <<key[2], key[3]>>)
      BY <1>3, <3>1, <3>4, <3>5, ConcatAssociative
    <3> QED BY <2>1, <3>4, <3>6
  <2>4. Reads(Reader, one, Read(to, key[1]))
    BY <1>2, <1>3, <2>1, ReadsMore
  <2>5. Reads(Reader, two, Read(Read(to, key[1]), key[2]))
    BY <2>1, <2>2, <2>4, ReadsMore
  <2>6. Reads(Reader, three, to)
    BY <2>1, <2>2, <2>5, ReadsMore
  <2> HIDE DEF three
  <2>7. Reads(Reader, typed, to)'
    BY <1>1, <2>3, <2>6 DEF Reads
  <2> QED BY <1>1, <1>2, <2>1, <2>2, <2>3, <2>7 DEF PromptInv
<1> QED BY <1>4, <1>5, <1>6

\* A line is handed out: it goes from the queue to what was polled.
LEMMA PromptPolls ==
  ASSUME PromptInv, PollPromptQueue
  PROVE  PromptInv'
<1> DEFINE first == Head(mPromptQueue)
           rest == Tail(mPromptQueue)
<1>1. /\ mPromptQueue # <<>> /\ polled' = Append(polled, first) /\ mPromptQueue' = rest
      /\ UNCHANGED <<mPromptBuffer, skipping, typed, meant>>
  BY DEF PollPromptQueue, keyboard
<1>2. polled \in Seq(Lines) /\ mPromptQueue \in Seq(Lines)
  BY DEF PromptInv
<1>3. first \in Lines /\ rest \in Seq(Lines)
  BY <1>1, <1>2, HeadTailProperties
<1>4. Append(polled, first) \in Seq(Lines) /\ <<first>> \in Seq(Lines)
  BY <1>2, <1>3, AppendProperties
<1>5. mPromptQueue = <<first>> \o rest
  <2>1. Len(mPromptQueue) \in Nat \ {0}
    BY <1>1, <1>2, EmptySeq
  <2>2. /\ SubSeq(mPromptQueue, 1, Len(mPromptQueue)) = mPromptQueue
        /\ SubSeq(mPromptQueue, 2, Len(mPromptQueue)) = rest
        /\ mPromptQueue[1] = first
    BY <1>1, <1>2, <2>1, SubSeqFull, TailIsSubSeq, HeadTailOfSubSeq
  <2>3. 1 \in 1 .. Len(mPromptQueue) /\ Len(mPromptQueue) \in 1 .. Len(mPromptQueue)
    BY <2>1
  <2>4. SubSeq(mPromptQueue, 1, Len(mPromptQueue))
          = <<mPromptQueue[1]>> \o SubSeq(mPromptQueue, 1 + 1, Len(mPromptQueue))
    BY <1>2, <2>3, SubSeqRecursiveFirst
  <2> QED BY <2>2, <2>4
<1>6. Append(polled, first) \o rest = polled \o mPromptQueue
  BY <1>2, <1>3, <1>4, <1>5, AppendIsConcat, ConcatAssociative
<1>7. Reader' = Reader
  BY <1>1, <1>6 DEF Reader
<1>8. \A to : Reads(Reader, typed, to)' <=> Reads(Reader, typed, to)
  BY <1>1, <1>7 DEF Reads
<1> HIDE DEF first, rest
<1>9. PICK to \in Readings : Reads(Reader, typed, to) /\ to.skip = 0
                             /\ meant = Append(to.done, to.line)
  BY DEF PromptInv
<1>10. Reads(Reader, typed, to)'
  BY <1>8, <1>9
<1> QED BY <1>1, <1>3, <1>4, <1>9, <1>10 DEF PromptInv

\* Nothing typed, nothing read.
LEMMA PromptEmpty ==
  ASSUME mPromptBuffer = <<>>, mPromptQueue = <<>>, polled = <<>>, skipping = 0,
         typed = <<>>, meant = << <<>> >>
  PROVE  PromptInv
<1> DEFINE start == [done |-> <<>>, line |-> <<>>, skip |-> 0]
<1>1. <<>> \in Seq(Lines) /\ <<>> \in Lines /\ <<>> \in Seq(Chars)
  BY DEF Lines
<1>2. start \in Readings
  BY <1>1 DEF Readings
<1>3. Reader = start
  BY DEF Reader
<1>4. Reads(start, <<>>, start)
  BY <1>2, ReadsNothing
<1>5. meant = Append(start.done, start.line) /\ start.skip = 0
  OBVIOUS
<1>6. Reads(Reader, typed, start)
  BY <1>3, <1>4 DEF Reads
<1> HIDE DEF start
<1> QED BY <1>1, <1>2, <1>5, <1>6 DEF PromptInv

LEMMA PromptNext == KeysAreWhole /\ PromptInv /\ [Next]_vars => PromptInv'
<1> SUFFICES ASSUME KeysAreWhole, PromptInv, [Next]_vars PROVE PromptInv'
  OBVIOUS
<1>1. ASSUME UNCHANGED <<prompt, skipping, typed, meant>> PROVE PromptInv'
  <2>1. Reader' = Reader
    BY <1>1 DEF Reader, prompt
  <2>2. \A to : Reads(Reader, typed, to)' <=> Reads(Reader, typed, to)
    BY <1>1, <2>1 DEF Reads
  <2>3. PICK to \in Readings : Reads(Reader, typed, to) /\ to.skip = 0
                               /\ meant = Append(to.done, to.line)
    BY DEF PromptInv
  <2>4. Reads(Reader, typed, to)'
    BY <2>2, <2>3
  <2> QED BY <1>1, <2>3, <2>4 DEF PromptInv, prompt
<1>2. CASE End
  <2>1. (/\ mPromptBuffer = <<>> /\ mPromptQueue = <<>> /\ polled = <<>> /\ skipping = 0
         /\ typed = <<>> /\ meant = << <<>> >>)'
    BY <1>2 DEF End, CanCall
  <2>2. (/\ mPromptBuffer = <<>> /\ mPromptQueue = <<>> /\ polled = <<>> /\ skipping = 0
         /\ typed = <<>> /\ meant = << <<>> >>)' => PromptInv'
    BY PromptEmpty, PTL
  <2> QED BY <2>1, <2>2
<1>3. CASE Console /\ ~(End \/ PushCharPrompt \/ Skip \/ PollPromptQueue)
  BY <1>1, <1>3 DEF Console, Make, Refresh, PushContent, ClearContent, Set, SetIsScreenUpdated,
                    keyboard
<1>4. CASE PushCharPrompt \/ Skip
  BY <1>4, PromptReads
<1>5. CASE PollPromptQueue
  BY <1>5, PromptPolls
<1>6. ASSUME NEW key \in Keys, UserTypes(key) PROVE PromptInv'
  BY <1>6, PromptTypes
<1>7. CASE (\E size \in Sizes : WindowResizes(size)) \/ TerminalDrains \/ Elsewhere
  BY <1>1, <1>7 DEF WindowResizes, TerminalDrains, Elsewhere, keyboard
<1>8. CASE UNCHANGED vars
  BY <1>1, <1>8 DEF vars, keyboard
<1> QED BY <1>2, <1>3, <1>4, <1>5, <1>6, <1>7, <1>8 DEF Next, Console, Terminal

\* Whatever keys are typed ahead and however reading, polling and everything
\* else are interleaved: once all is read, the lines are those the user meant,
\* if the Escape key alone is not used.
THEOREM LinesCorrect == KeysAreWhole => (Spec => []LinesAreWhatWasTyped)
<1> SUFFICES ASSUME KeysAreWhole PROVE Spec => []LinesAreWhatWasTyped
  OBVIOUS
<1>1. Init => PromptInv
  BY PromptEmpty DEF Init
<1>2. PromptInv /\ [Next]_vars => PromptInv'
  BY PromptNext
<1>3. PromptInv => LinesAreWhatWasTyped
  <2> SUFFICES ASSUME PromptInv, typed = <<>>, skipping = 0
               PROVE  polled \o mPromptQueue \o <<mPromptBuffer>> = meant
    BY DEF LinesAreWhatWasTyped
  <2>1. PICK to \in Readings : Reads(Reader, typed, to) /\ meant = Append(to.done, to.line)
    BY DEF PromptInv
  <2>2. Reader = to
    BY <2>1, ReaderIs, ReadsNothing
  <2>3. meant = Append(polled \o mPromptQueue, mPromptBuffer)
    BY <2>1, <2>2 DEF Reader
  <2>4. polled \o mPromptQueue \in Seq(Lines) /\ mPromptBuffer \in Lines
    BY ConcatProperties DEF PromptInv
  <2> QED BY <2>3, <2>4, AppendIsConcat
<1> QED BY <1>1, <1>2, <1>3, PTL DEF Spec
=============================================================================
