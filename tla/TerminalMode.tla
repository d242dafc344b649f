---------------------------- MODULE TerminalMode ----------------------------
(***************************************************************************)
(* What all objects of gdf::DisplayConsole share: the count of instances   *)
(* and the terminal mode the first of them found and the last one puts     *)
(* back.  A console that is copied (the compiler makes the copy) is not    *)
(* counted.  The mode is the set of the local flags that are on.           *)
(***************************************************************************)
EXTENDS Integers, FiniteSets

CONSTANTS
  Consoles,        (* the objects that may be made                         *)
  CountLimit,      (* 2^64: sStaticInstanceCount is a uint64               *)
  Modes,           (* the modes other programs may leave the terminal in   *)
  Copying          (* the application copies consoles                      *)

VARIABLES
  sStaticInstanceCount, sStaticOldTerminal,
  living,          (* the consoles that exist                              *)
  mode,            (* terminal: its mode                                   *)
  theirs           (* history: the mode others gave it last                *)

consoleVars == <<sStaticInstanceCount, sStaticOldTerminal, living, mode, theirs>>

ASSUME TerminalModeAssumption ==
  /\ IsFiniteSet(Consoles)
  /\ CountLimit \in Nat /\ Cardinality(Consoles) < CountLimit
  /\ Copying \in BOOLEAN
-----------------------------------------------------------------------------
\* Character by character, and not shown by the terminal itself.
Raw(flags) == flags \ {"ICANON", "ECHO"}

setTerminalMode(enable) ==
  \/ enable /\ sStaticOldTerminal' = mode /\ mode' = Raw(mode)
  \/ ~enable /\ mode' = sStaticOldTerminal /\ UNCHANGED sStaticOldTerminal

\* The constructor.
Construct(k) ==
  /\ k \notin living
  /\ living' = living \cup {k}
  /\ sStaticInstanceCount' = (sStaticInstanceCount + 1) % CountLimit
  /\ IF sStaticInstanceCount = 0 THEN setTerminalMode(TRUE)
     ELSE UNCHANGED <<sStaticOldTerminal, mode>>
  /\ UNCHANGED theirs

\* Defect: each console puts the mode back.
Destroy_Always(k) ==
  /\ k \in living
  /\ living' = living \ {k}
  /\ sStaticInstanceCount' = (sStaticInstanceCount - 1) % CountLimit
  /\ setTerminalMode(FALSE)
  /\ UNCHANGED theirs

\* The destructor.
Destroy(k) ==
  /\ k \in living
  /\ living' = living \ {k}
  /\ sStaticInstanceCount' = (sStaticInstanceCount - 1) % CountLimit
  /\ IF sStaticInstanceCount' = 0 THEN setTerminalMode(FALSE)
     ELSE UNCHANGED <<sStaticOldTerminal, mode>>
  /\ UNCHANGED theirs

\* The implicit copy constructor copies the members and counts nothing.
Copy(k) ==
  /\ Copying
  /\ living # {} /\ k \notin living
  /\ living' = living \cup {k}
  /\ UNCHANGED <<sStaticInstanceCount, sStaticOldTerminal, mode, theirs>>

\* Others use the terminal while no console does.
OthersSetMode(m) ==
  /\ living = {}
  /\ mode' = m /\ theirs' = m
  /\ UNCHANGED <<sStaticInstanceCount, sStaticOldTerminal, living>>
-----------------------------------------------------------------------------
\* A static termios is zero.
TerminalInit ==
  /\ sStaticInstanceCount = 0 /\ sStaticOldTerminal = {}
  /\ living = {}
  /\ mode \in Modes /\ theirs = mode

TerminalNext ==
  \/ \E k \in Consoles : Construct(k) \/ Destroy(k) \/ Copy(k)
  \/ \E m \in Modes : OthersSetMode(m)

TerminalSpec == TerminalInit /\ [][TerminalNext]_consoleVars
-----------------------------------------------------------------------------
(* Properties.                                                             *)

\* While a console lives, whichever and however many came and went, the
\* terminal hands over single characters and echoes none; when none lives it
\* is in the mode others gave it.
ModeFollowsConsoles ==
  mode = IF living = {} THEN theirs ELSE Raw(theirs)
=============================================================================
