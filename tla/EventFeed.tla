----------------------------- MODULE EventFeed ------------------------------
(***************************************************************************)
(* What gdf::KernelQueue promises to the caller of Poll(): events are      *)
(* taken over from the kernel in batches of bounded size, a new batch only *)
(* when the old one is used up, and handed out one per call, each once and *)
(* in the order of the batch.  KernelQueue implements it with an array, a  *)
(* count and a cursor.                                                     *)
(***************************************************************************)
EXTENDS Integers, Sequences

CONSTANTS
  Events,
  MAX_KEVENT_SIZE, (* the events of a batch                                *)
  Zeroed           (* the caller's event before the first one              *)

VARIABLES
  pending,         (* the rest of the batch                                *)
  event,           (* the event handed out last                            *)
  alive            (* the queue exists                                     *)

feedVars == <<pending, event, alive>>
-----------------------------------------------------------------------------
TakeOver ==
  /\ alive
  /\ pending = <<>>
  /\ pending' \in Seq(Events) /\ Len(pending') <= MAX_KEVENT_SIZE
  /\ UNCHANGED <<event, alive>>

HandOver ==
  /\ alive
  /\ pending # <<>>
  /\ event' = Head(pending) /\ pending' = Tail(pending)
  /\ UNCHANGED alive

\* What was pending is lost with the queue.
Close ==
  /\ alive
  /\ alive' = FALSE /\ pending' = <<>>
  /\ UNCHANGED event

Init == pending = <<>> /\ event = Zeroed /\ alive = TRUE

Next == TakeOver \/ HandOver \/ Close

Spec == Init /\ [][Next]_feedVars
=============================================================================
