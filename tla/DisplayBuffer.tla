--------------------------- MODULE DisplayBuffer ---------------------------
(***************************************************************************)
(* gdf::DisplayBuffer: the lines of text a display shows, oldest first, at *)
(* most as many as its capacity.  The header and the footer it also keeps  *)
(* are plain values; they are modelled with the console that shows them.   *)
(***************************************************************************)
EXTENDS Integers, Sequences

CONSTANTS
  Contents,        (* the lines that may be pushed                         *)
  Capacities,      (* the values SetContentBufferCapacity may be given     *)
  StartCapacity,   (* 1024                                                 *)
  Others,          (* other buffers: records [lines, capacity]             *)
  MaxContents      (* bound: lines pushed since the last Clear             *)

VARIABLES
  mContentBuffer, mContentBufferCapacity,
  shown,           (* history: the lines pushed since the last Clear       *)
  lowest           (* history: the lowest capacity since the last Clear    *)

bufferVars == <<mContentBuffer, mContentBufferCapacity, shown, lowest>>

ASSUME DisplayBufferAssumption ==
  /\ Capacities \subseteq Nat /\ StartCapacity \in Capacities
  /\ \A other \in Others : other.lines \in Seq(Contents) /\ other.capacity \in Nat
  /\ MaxContents \in Nat

Fewer(m, n)  == IF m <= n THEN m ELSE n
Last(str, n) == SubSeq(str, Len(str) - n + 1, Len(str))
-----------------------------------------------------------------------------
\* Defects: the newest line goes, or nothing goes before twice the capacity.
Trimmed_DropsNewest(buffer) ==
  IF Len(buffer) > mContentBufferCapacity THEN SubSeq(buffer, 1, Len(buffer) - 1) ELSE buffer

Trimmed_TooEarly(buffer) ==
  IF Len(buffer) >= mContentBufferCapacity THEN Tail(buffer) ELSE buffer

\* One line goes when the buffer holds more than its capacity.
Trimmed(buffer) ==
  IF Len(buffer) > mContentBufferCapacity THEN Tail(buffer) ELSE buffer

PushContent(str) ==
  /\ Len(shown) < MaxContents
  /\ mContentBuffer' = Trimmed(Append(mContentBuffer, str))
  /\ shown' = Append(shown, str)
  /\ UNCHANGED <<mContentBufferCapacity, lowest>>

Clear ==
  /\ mContentBuffer' = <<>>
  /\ shown' = <<>> /\ lowest' = mContentBufferCapacity
  /\ UNCHANGED mContentBufferCapacity

\* The lines that are there stay, however many they are.
SetContentBufferCapacity(capacity) ==
  /\ mContentBufferCapacity' = capacity
  /\ lowest' = Fewer(lowest, capacity)
  /\ UNCHANGED <<mContentBuffer, shown>>

\* Assignment from another buffer.
Assign(other) ==
  /\ mContentBuffer' = other.lines /\ mContentBufferCapacity' = other.capacity
  /\ shown' = other.lines /\ lowest' = other.capacity
-----------------------------------------------------------------------------
Init ==
  /\ mContentBuffer = <<>> /\ mContentBufferCapacity = StartCapacity
  /\ shown = <<>> /\ lowest = StartCapacity

Next ==
  \/ \E str \in Contents : PushContent(str)
  \/ Clear
  \/ \E capacity \in Capacities : SetContentBufferCapacity(capacity)
  \/ \E other \in Others : Assign(other)

Spec == Init /\ [][Next]_bufferVars
-----------------------------------------------------------------------------
(* Properties.                                                             *)

\* The buffer holds the latest lines, in order, without a gap; and while the
\* capacity has not been below it, it holds every one of them.
KeepsTheLatest ==
  /\ Len(mContentBuffer) <= Len(shown)
  /\ mContentBuffer = Last(shown, Len(mContentBuffer))
  /\ Len(mContentBuffer) >= Fewer(Len(shown), lowest)

\* The capacity is the largest number of lines the buffer holds.
WithinCapacity == Len(mContentBuffer) <= mContentBufferCapacity
=============================================================================
