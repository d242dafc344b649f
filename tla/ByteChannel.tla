---------------------------- MODULE ByteChannel ----------------------------
(***************************************************************************)
(* What gdf::Network promises to the application for each client: two      *)
(* streams of bytes.  What goes out is always the beginning of what was    *)
(* pushed, what is pulled is always the beginning of what the client sent, *)
(* a channel ends once and carries nothing afterwards, and it ends with a  *)
(* farewell only when all has gone out.  Network implements it with one    *)
(* session and two buffers per socket number.                              *)
(***************************************************************************)
EXTENDS Integers, Sequences

CONSTANTS Conns, Bytes, Messages

VARIABLES
  pushed,          (* what the application pushed and did not withdraw     *)
  sent,            (* what went out                                        *)
  peerSent,        (* what the client sent                                 *)
  taken,           (* what the application pulled, or cleared              *)
  ended            (* "no", or why the channel ended                       *)

streams     == <<pushed, sent, peerSent, taken>>
channelVars == <<streams, ended>>

Lives(c) == ended[c] = "no"

\* The first n bytes of a stream.
Beginning(stream, n) == SubSeq(stream, 1, n)
-----------------------------------------------------------------------------
Push(c) ==
  /\ Lives(c)
  /\ \E buf \in Messages : pushed' = [pushed EXCEPT ![c] = @ \o buf]
  /\ UNCHANGED <<sent, peerSent, taken, ended>>

Withdraw(c) ==
  /\ Lives(c)
  /\ pushed' = [pushed EXCEPT ![c] = sent[c]]
  /\ UNCHANGED <<sent, peerSent, taken, ended>>

Send(c) ==
  /\ Lives(c)
  /\ \E n \in Len(sent[c]) .. Len(pushed[c]) : sent' = [sent EXCEPT ![c] = Beginning(pushed[c], n)]
  /\ UNCHANGED <<pushed, peerSent, taken, ended>>

Arrive(c) ==
  /\ Lives(c)
  /\ \E b \in Bytes : peerSent' = [peerSent EXCEPT ![c] = Append(@, b)]
  /\ UNCHANGED <<pushed, sent, taken, ended>>

Take(c) ==
  /\ Lives(c)
  /\ \E n \in Len(taken[c]) .. Len(peerSent[c]) :
       taken' = [taken EXCEPT ![c] = Beginning(peerSent[c], n)]
  /\ UNCHANGED <<pushed, sent, peerSent, ended>>

End(c) ==
  /\ Lives(c)
  /\ \E why \in {"asked", "farewell", "lost"} :
       /\ why = "farewell" => sent[c] = pushed[c]
       /\ ended' = [ended EXCEPT ![c] = why]
  /\ UNCHANGED streams
-----------------------------------------------------------------------------
Init ==
  /\ pushed = [c \in Conns |-> <<>>] /\ sent = [c \in Conns |-> <<>>]
  /\ peerSent = [c \in Conns |-> <<>>] /\ taken = [c \in Conns |-> <<>>]
  /\ ended = [c \in Conns |-> "no"]

Next ==
  \E c \in Conns : Push(c) \/ Withdraw(c) \/ Send(c) \/ Arrive(c) \/ Take(c) \/ End(c)

Spec == Init /\ [][Next]_channelVars
=============================================================================
