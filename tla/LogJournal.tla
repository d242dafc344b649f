----------------------------- MODULE LogJournal -----------------------------
(***************************************************************************)
(* What GlobalLogger promises to the threads that log: the record of a LOG *)
(* is added whole, behind all that is there, to one target, at one moment  *)
(* between the beginning and the end of that LOG; or it is refused.  There *)
(* is no mutex here and no buffer to read and write back.                  *)
(***************************************************************************)
EXTENDS Integers, Sequences

CONSTANTS
  Loggers, Targets,
  Other            (* a line that others write between the records         *)

VARIABLES
  logged,          (* the records each thread has logged                   *)
  owes,            (* whether the record of its LOG is still to be added   *)
  inside,          (* whether it is inside LOG                             *)
  content          (* what each target holds                               *)

journalVars == <<logged, owes, inside, content>>
-----------------------------------------------------------------------------
\* The level may let the record pass or not.
Begin(t) ==
  /\ ~inside[t]
  /\ logged' = [logged EXCEPT ![t] = @ + 1]
  /\ \/ inside' = [inside EXCEPT ![t] = TRUE] /\ owes' = [owes EXCEPT ![t] = TRUE]
     \/ UNCHANGED <<inside, owes>>
  /\ UNCHANGED content

Add(t) ==
  /\ owes[t]
  /\ owes' = [owes EXCEPT ![t] = FALSE]
  /\ \E x \in Targets : content' = [content EXCEPT ![x] = Append(@, <<t, logged[t]>>)]
  /\ UNCHANGED <<logged, inside>>

Refuse(t) ==
  /\ owes[t]
  /\ owes' = [owes EXCEPT ![t] = FALSE]
  /\ UNCHANGED <<logged, inside, content>>

Return(t) ==
  /\ inside[t] /\ ~owes[t]
  /\ inside' = [inside EXCEPT ![t] = FALSE]
  /\ UNCHANGED <<logged, owes, content>>

\* A line that is no record: a warning.
AddOther ==
  /\ \E x \in Targets : content' = [content EXCEPT ![x] = Append(@, Other)]
  /\ UNCHANGED <<logged, owes, inside>>

Init ==
  /\ logged = [t \in Loggers |-> 0]
  /\ owes = [t \in Loggers |-> FALSE] /\ inside = [t \in Loggers |-> FALSE]
  /\ content = [x \in Targets |-> <<>>]

Next ==
  \/ \E t \in Loggers : Begin(t) \/ Add(t) \/ Refuse(t) \/ Return(t)
  \/ AddOther

Spec == Init /\ [][Next]_journalVars
=============================================================================
