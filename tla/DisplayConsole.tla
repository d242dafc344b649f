--------------------------- MODULE DisplayConsole ---------------------------
(***************************************************************************)
(* gdf::DisplayConsole: what the screen is to show, the frame that is      *)
(* rendered from it, the part of the frame that has been written, and the  *)
(* prompt the user types at.  One thread makes it, uses it and destroys    *)
(* it; other consoles come and go and write nothing.  The terminal is      *)
(* external: its window is resized, it takes what it has room for, it      *)
(* echoes what is typed in the modes that say so, and what is typed waits  *)
(* to be read with getchar().                                              *)
(*                                                                         *)
(* A frame is a sequence of rows, the first of which clears the screen.    *)
(* The layout inside a row is left out.                                    *)
(***************************************************************************)
EXTENDS TerminalMode, Sequences

CONSTANTS
  Self,            (* the console                                          *)
  Contents, MaxContents, (* see DisplayBuffer                              *)
  ContentCapacity, (* 1024                                                 *)
  Fields, Values,  (* header, footer, their colours, timestamp             *)
  Keys,            (* what a key sends: a sequence of characters           *)
  Enter, Eot, Del, Esc, (* the characters PushCharPrompt looks for         *)
  MaxKeys,         (* bound: keys pressed                                  *)
  Sizes,           (* sizes of the window: records [h, w]                  *)
  MinHeight, MinWidth, (* 8 and 18                                         *)
  TtyRoom,         (* rows the terminal takes before it must be waited for *)
  IsTty            (* stdout is a terminal, so its size can be asked for   *)

VARIABLES
  mContentBuffer, mContentBufferCapacity, shown, lowest,
  look,            (* the value of each field                              *)
  mPromptBuffer, mPromptQueue,
  skipping,        (* characters PushCharPrompt still has to throw away    *)
  bIsScreenUpdated, mConsoleSize,
  mScreenBuffer, mScreenBufferIndex, bIsScreenBufferRemain,
  bIsFailed,
  window,          (* terminal: its size                                   *)
  room,            (* terminal: the rows it takes now                      *)
  screen,          (* terminal: what it shows                              *)
  typed,           (* terminal: characters not read yet                    *)
  polled,          (* history: the lines PollPromptQueue returned          *)
  meant,           (* history: the lines as the user typed them            *)
  keys,            (* history: how many keys were pressed                  *)
  lastFailed,      (* history: the last write() failed                     *)
  suppressed       (* history: SetIsScreenUpdated(false) has discarded a   *)
                   (* change and no frame was rendered since               *)

D == INSTANCE DisplayBuffer
       WITH Capacities <- {ContentCapacity}, StartCapacity <- ContentCapacity, Others <- {}

display  == <<mContentBuffer, mContentBufferCapacity, shown, lowest>>
prompt   == <<mPromptBuffer, mPromptQueue, polled>>
frame    == <<mConsoleSize, mScreenBuffer, mScreenBufferIndex, bIsScreenBufferRemain>>
failure  == <<bIsFailed, lastFailed>>
terminal == <<window, room, screen>>
keyboard == <<typed, meant, keys>>
vars == <<display, look, prompt, skipping, bIsScreenUpdated, suppressed, frame, failure,
          terminal, keyboard, consoleVars>>

ASSUME DisplayConsoleAssumption ==
  /\ Self \in Consoles
  /\ ContentCapacity \in Nat /\ MaxContents \in Nat /\ MaxKeys \in Nat
  /\ \A size \in Sizes : size.h \in Nat /\ size.w \in Nat
  /\ MinHeight \in Nat /\ MinHeight > 3 /\ MinWidth \in Nat
  /\ Del \notin {Enter, Eot} /\ Esc \notin {Enter, Eot, Del}
  /\ TtyRoom \in Nat \ {0}
  /\ IsTty \in BOOLEAN
-----------------------------------------------------------------------------
\* The console exists and its thread is not blocked in getchar().
CanCall == Self \in living /\ skipping = 0
-----------------------------------------------------------------------------
(* The life of the console.                                                *)

\* The constructor.  mConsoleWidth and mConsoleHeight are not initialised; the
\* terminal is as it was.
Make ==
  /\ Construct(Self)
  /\ look' \in [Fields -> Values]
  /\ bIsScreenUpdated' = TRUE /\ bIsFailed' = FALSE
  /\ mScreenBufferIndex' = 0 /\ bIsScreenBufferRemain' = TRUE
  /\ mConsoleSize' \in Sizes
  /\ UNCHANGED <<display, prompt, skipping, mScreenBuffer, lastFailed, suppressed, terminal,
                 keyboard>>

\* The destructor.  The strings and lists of an object that is not there are
\* taken to be empty; what is typed and not read is left to others.
End ==
  /\ CanCall
  /\ Destroy(Self)
  /\ mContentBuffer' = <<>> /\ shown' = <<>> /\ lowest' = ContentCapacity
  /\ mPromptBuffer' = <<>> /\ mPromptQueue' = <<>> /\ polled' = <<>>
  /\ mScreenBuffer' = <<>> /\ mScreenBufferIndex' = 0 /\ bIsScreenBufferRemain' = FALSE
  /\ bIsScreenUpdated' = FALSE /\ suppressed' = FALSE
  /\ bIsFailed' = FALSE /\ lastFailed' = FALSE
  /\ typed' = <<>> /\ meant' = << <<>> >>
  /\ UNCHANGED <<mContentBufferCapacity, look, skipping, mConsoleSize, terminal, keys>>

\* Other consoles are made and destroyed, other programs use the terminal.
Elsewhere ==
  /\ skipping = 0
  /\ \/ \E k \in Consoles \ {Self} : Construct(k) \/ Destroy(k) \/ Copy(k)
     \/ \E m \in Modes : OthersSetMode(m)
  /\ UNCHANGED <<display, look, prompt, skipping, bIsScreenUpdated, suppressed, frame, failure,
                 terminal, keyboard>>
-----------------------------------------------------------------------------
(* The screen.                                                             *)

ClearRow == <<"clear">>

\* renderScreenString: nothing but the clearing if the window is too small,
\* else the header, the latest lines that fit, the footer and the prompt.
Visible(size) == D!Last(mContentBuffer, D!Fewer(size.h - 3, Len(mContentBuffer)))

renderScreenString(size) ==
  IF size.h < MinHeight \/ size.w < MinWidth THEN <<ClearRow>>
  ELSE <<ClearRow, <<"header", look, size.w>> >>
       \o [i \in 1 .. Len(Visible(size)) |-> <<"content", Visible(size)[i], look, size.w>>]
       \o << <<"footer", look, size.w>>, <<"prompt", <<mPromptBuffer, size.w>> >> >>

\* What TIOCGWINSZ yields; if it fails, the variable it should have filled is
\* read uninitialised.
Measured == IF IsTty THEN {window} ELSE Sizes

\* Refresh renders a frame if there is a change or it found another size.
IsDue(found) == bIsScreenUpdated \/ found # mConsoleSize

\* What Refresh has to write: a new frame from its beginning, or the rest of
\* the old one.  The size is measured again for the frame.  Defects: the new
\* frame goes on where the old one was; a partly written frame is not rendered
\* anew.
Pending_KeepsIndex(found, size) ==
  IF IsDue(found)
  THEN [rows |-> renderScreenString(size), size |-> size,
        index |-> mScreenBufferIndex, remain |-> TRUE]
  ELSE [rows |-> mScreenBuffer, size |-> mConsoleSize,
        index |-> mScreenBufferIndex, remain |-> bIsScreenBufferRemain]

Pending_Later(found, size) ==
  IF mScreenBufferIndex = 0 /\ IsDue(found)
  THEN [rows |-> renderScreenString(size), size |-> size, index |-> 0, remain |-> TRUE]
  ELSE [rows |-> mScreenBuffer, size |-> mConsoleSize,
        index |-> mScreenBufferIndex, remain |-> bIsScreenBufferRemain]

Pending(found, size) ==
  IF IsDue(found)
  THEN [rows |-> renderScreenString(size), size |-> size, index |-> 0, remain |-> TRUE]
  ELSE [rows |-> mScreenBuffer, size |-> mConsoleSize,
        index |-> mScreenBufferIndex, remain |-> bIsScreenBufferRemain]

Rest(p) == SubSeq(p.rows, p.index + 1, Len(p.rows))

\* The terminal takes rows; the first row of a frame clears it.
Shows(rows) ==
  /\ screen' = IF rows # <<>> /\ Head(rows) = ClearRow THEN rows ELSE screen \o rows
  /\ room' = room - Len(rows)

Refresh_Nothing(p) ==
  /\ ~p.remain
  /\ bIsScreenBufferRemain' = FALSE /\ mScreenBufferIndex' = p.index
  /\ UNCHANGED <<failure, room, screen>>

Refresh_Writes(p) ==
  LET wrote == D!Fewer(Len(Rest(p)), room)
  IN  /\ p.remain
      /\ room > 0 \/ Rest(p) = <<>>
      /\ Shows(SubSeq(Rest(p), 1, wrote))
      /\ IF wrote = Len(Rest(p))
         THEN bIsScreenBufferRemain' = FALSE /\ mScreenBufferIndex' = 0
         ELSE bIsScreenBufferRemain' = TRUE /\ mScreenBufferIndex' = p.index + wrote
      /\ lastFailed' = FALSE
      /\ UNCHANGED bIsFailed

\* Defect: what could not be written now is not written any more.
Refresh_Fails_GivesUp(p) ==
  /\ p.remain
  /\ room = 0 /\ Rest(p) # <<>>
  /\ bIsFailed' = TRUE /\ lastFailed' = TRUE
  /\ bIsScreenBufferRemain' = FALSE /\ mScreenBufferIndex' = 0
  /\ UNCHANGED <<room, screen>>

\* write() returns -1: stdout does not block and has no room.
Refresh_Fails(p) ==
  /\ p.remain
  /\ room = 0 /\ Rest(p) # <<>>
  /\ bIsFailed' = TRUE /\ lastFailed' = TRUE
  /\ bIsScreenBufferRemain' = TRUE /\ mScreenBufferIndex' = p.index
  /\ UNCHANGED <<room, screen>>

Refresh ==
  /\ CanCall
  /\ \E found, size \in Measured :
       LET p == Pending(found, size)
       IN  /\ Refresh_Nothing(p) \/ Refresh_Writes(p) \/ Refresh_Fails(p)
           /\ mScreenBuffer' = p.rows
           /\ mConsoleSize' = p.size
           /\ suppressed' = (suppressed /\ ~IsDue(found))
  /\ bIsScreenUpdated' = FALSE
  /\ UNCHANGED <<display, look, prompt, skipping, window, keyboard, consoleVars>>
-----------------------------------------------------------------------------
(* What the screen is to show.                                             *)

PushContent(str) ==
  /\ CanCall
  /\ D!PushContent(str)
  /\ bIsScreenUpdated' = TRUE
  /\ UNCHANGED <<look, prompt, skipping, suppressed, frame, failure, terminal, keyboard,
                 consoleVars>>

ClearContent ==
  /\ CanCall
  /\ D!Clear
  /\ bIsScreenUpdated' = TRUE
  /\ UNCHANGED <<look, prompt, skipping, suppressed, frame, failure, terminal, keyboard,
                 consoleVars>>

\* SetHeader, SetFooter, SetHeaderColor, SetFooterColor, SetTimestamp.
Set(field, value) ==
  /\ CanCall
  /\ look' = [look EXCEPT ![field] = value]
  /\ bIsScreenUpdated' = TRUE
  /\ UNCHANGED <<display, prompt, skipping, suppressed, frame, failure, terminal, keyboard,
                 consoleVars>>

SetIsScreenUpdated(status) ==
  /\ CanCall
  /\ bIsScreenUpdated' = status
  /\ suppressed' = (suppressed \/ (bIsScreenUpdated /\ ~status))
  /\ UNCHANGED <<display, look, prompt, skipping, frame, failure, terminal, keyboard,
                 consoleVars>>
-----------------------------------------------------------------------------
(* The prompt.                                                             *)

\* A character ends the line, takes the last one back, or is added to it.
\* Defect: the line is queued and stays in the buffer.
Line_NotCleared(ch) ==
  /\ ch \in {Enter, Eot}
  /\ mPromptQueue' = Append(mPromptQueue, mPromptBuffer)
  /\ UNCHANGED <<mPromptBuffer, skipping>>

Line_Ends(ch) ==
  /\ ch \in {Enter, Eot}
  /\ mPromptQueue' = Append(mPromptQueue, mPromptBuffer)
  /\ mPromptBuffer' = <<>>
  /\ UNCHANGED skipping

Line_Erases(ch) ==
  /\ ch = Del
  /\ mPromptBuffer' = IF mPromptBuffer = <<>> THEN <<>>
                      ELSE SubSeq(mPromptBuffer, 1, Len(mPromptBuffer) - 1)
  /\ UNCHANGED <<mPromptQueue, skipping>>

\* getchar(); getchar();
Line_Escapes(ch) ==
  /\ ch = Esc
  /\ skipping' = 2
  /\ UNCHANGED <<mPromptBuffer, mPromptQueue>>

Line_Grows(ch) ==
  /\ ch \notin {Enter, Eot, Del, Esc}
  /\ mPromptBuffer' = Append(mPromptBuffer, ch)
  /\ UNCHANGED <<mPromptQueue, skipping>>

\* The application reads a character and hands it over.
PushCharPrompt ==
  /\ CanCall /\ typed # <<>>
  /\ LET ch == Head(typed)
     IN  Line_Ends(ch) \/ Line_Erases(ch) \/ Line_Escapes(ch) \/ Line_Grows(ch)
  /\ typed' = Tail(typed)
  /\ bIsScreenUpdated' = TRUE
  /\ UNCHANGED <<display, look, polled, suppressed, frame, failure, terminal, meant, keys,
                 consoleVars>>

\* A getchar() of PushCharPrompt returns; until then the thread is blocked.
Skip ==
  /\ skipping > 0 /\ typed # <<>>
  /\ skipping' = skipping - 1
  /\ typed' = Tail(typed)
  /\ UNCHANGED <<display, look, prompt, bIsScreenUpdated, suppressed, frame, failure, terminal, meant, keys,
                 consoleVars>>

PollPromptQueue ==
  /\ CanCall /\ mPromptQueue # <<>>
  /\ polled' = Append(polled, Head(mPromptQueue))
  /\ mPromptQueue' = Tail(mPromptQueue)
  /\ UNCHANGED <<display, look, mPromptBuffer, skipping, bIsScreenUpdated, suppressed, frame,
                 failure, terminal, keyboard,
                 consoleVars>>
-----------------------------------------------------------------------------
(* The terminal and the user.                                              *)

\* The user has lines << done ..., the one being typed >> in mind.
Meant(lines, key) ==
  LET current == lines[Len(lines)]
      edited(line) == [lines EXCEPT ![Len(lines)] = line]
  IN  CASE key \in {<<Enter>>, <<Eot>>} -> Append(lines, <<>>)
        [] key = <<Del>> ->
             edited(SubSeq(current, 1, IF current = <<>> THEN 0 ELSE Len(current) - 1))
        [] key[1] = Esc -> lines
        [] OTHER -> edited(current \o key)

UserTypes(key) ==
  /\ Self \in living /\ keys < MaxKeys
  /\ keys' = keys + 1
  /\ typed' = typed \o key
  /\ meant' = Meant(meant, key)
  /\ screen' = IF "ECHO" \in mode THEN Append(screen, key) ELSE screen
  /\ UNCHANGED <<display, look, prompt, skipping, bIsScreenUpdated, suppressed, frame, failure,
                 window, room, consoleVars>>

WindowResizes(size) ==
  /\ window' = size
  /\ UNCHANGED <<display, look, prompt, skipping, bIsScreenUpdated, suppressed, frame, failure,
                 room, screen, keyboard, consoleVars>>

TerminalDrains ==
  /\ room < TtyRoom
  /\ room' = room + 1
  /\ UNCHANGED <<display, look, prompt, skipping, bIsScreenUpdated, suppressed, frame, failure,
                 window, screen, keyboard, consoleVars>>
-----------------------------------------------------------------------------
Init ==
  /\ TerminalInit
  /\ D!Init
  /\ look \in [Fields -> Values]
  /\ mPromptBuffer = <<>> /\ mPromptQueue = <<>> /\ polled = <<>> /\ skipping = 0
  /\ bIsScreenUpdated = FALSE /\ mConsoleSize \in Sizes
  /\ mScreenBuffer = <<>> /\ mScreenBufferIndex = 0 /\ bIsScreenBufferRemain = FALSE
  /\ bIsFailed = FALSE /\ lastFailed = FALSE /\ suppressed = FALSE
  /\ window \in Sizes /\ room = TtyRoom /\ screen = <<>>
  /\ typed = <<>> /\ meant = << <<>> >> /\ keys = 0

Console ==
  \/ Make \/ End
  \/ Refresh
  \/ \E str \in Contents : PushContent(str)
  \/ ClearContent
  \/ \E field \in Fields, value \in Values : Set(field, value)
  \/ \E status \in BOOLEAN : SetIsScreenUpdated(status)
  \/ PushCharPrompt \/ Skip
  \/ PollPromptQueue

Terminal ==
  \/ \E key \in Keys : UserTypes(key)
  \/ \E size \in Sizes : WindowResizes(size)
  \/ TerminalDrains
  \/ Elsewhere

Next == Console \/ Terminal

Spec == Init /\ [][Next]_vars

\* The application reads what is typed and refreshes again and again, and the
\* terminal goes on taking rows.
FairSpec ==
  /\ Spec
  /\ WF_vars(Refresh) /\ WF_vars(PushCharPrompt) /\ WF_vars(Skip)
  /\ WF_vars(TerminalDrains)
-----------------------------------------------------------------------------
(* Properties.                                                             *)

\* The terminal shows a beginning of one frame, never a mixture of two, over
\* any mix of partial writes, failed writes, changes and new sizes; and once
\* nothing remains to be written it shows the whole of it.
NoTornFrame ==
  Self \in living =>
  IF bIsScreenBufferRemain
  THEN mScreenBufferIndex > 0 => screen = SubSeq(mScreenBuffer, 1, mScreenBufferIndex)
  ELSE mScreenBuffer # <<>> => screen = mScreenBuffer

\* When nothing is left to render, the frame is that of what the screen is to
\* show now, at the size measured last: no change is forgotten but those the
\* application discards with SetIsScreenUpdated(false).
FrameIsCurrent ==
  Self \in living /\ ~bIsScreenUpdated /\ ~suppressed
    => mScreenBuffer = renderScreenString(mConsoleSize)

\* When everything typed has been read, the lines polled, queued and being
\* edited are those the user typed.
LinesAreWhatWasTyped ==
  typed = <<>> /\ skipping = 0 => polled \o mPromptQueue \o <<mPromptBuffer>> = meant

\* If from some time on nothing but refreshing and draining happens, the
\* screen is in the end complete and up to date.
ScreenSettles ==
  <>[][Refresh \/ TerminalDrains]_vars
    => <>[](CanCall /\ ~suppressed => screen = renderScreenString(window))

\* The failure reported is that of the last write.
FailedIsCurrent == bIsFailed => lastFailed
=============================================================================
