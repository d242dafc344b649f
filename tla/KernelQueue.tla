---------------------------- MODULE KernelQueue ----------------------------
(***************************************************************************)
(* gdf::KernelQueue and gdf::KernelEvent: a kqueue, the array kevent()     *)
(* fills with a batch of events, and Poll(), which hands them out one per  *)
(* call.  The kqueue itself is external.  A kernel event is active as long *)
(* as its descriptor is ready (level triggered): a scan takes events from  *)
(* the front of the list of active ones and puts those that remain active  *)
(* back at its end.                                                        *)
(***************************************************************************)
EXTENDS Integers, Sequences

CONSTANTS
  Fds,             (* the descriptors that can be watched                  *)
  MAX_KEVENT_SIZE, (* the slots of mEventList                              *)
  NoList,          (* mEventList: NULL                                     *)
  Zeroed,          (* an event of zero bytes                               *)
  Kqueue, ERROR,   (* the values of mKqueue                                *)
  Timeouts,        (* the milliseconds SetTimeout may be given             *)
  StartTimeout     (* 5                                                    *)

VARIABLES
  mKqueue, mEventList, mEventCount, mEventIndex, mTimeout,
  event,           (* the KernelEvent the caller passes to Poll            *)
  polled,          (* what Poll returned last                              *)
  alive,           (* the destructor has not run                           *)
  open,            (* kernel: the descriptors that are open                *)
  watched,         (* kernel: the events registered in the kqueue          *)
  active,          (* kernel: those that are active, first come first      *)
  reported         (* history: events kevent() returned and Poll did not   *)

object == <<mKqueue, mEventList, mEventCount, mEventIndex, mTimeout, alive>>
batch  == <<mEventList, mEventCount, mEventIndex>>
caller == <<event, polled>>
kernel == <<open, watched, active>>
vars   == <<object, caller, kernel, reported>>

Filters == {"read", "write"}
Events  == [ident : Fds, filter : Filters]
Slots   == 0 .. MAX_KEVENT_SIZE - 1
Lists   == [Slots -> Events \cup {Zeroed}]

ASSUME KernelQueueAssumption ==
  /\ MAX_KEVENT_SIZE \in Nat \ {0}
  /\ Zeroed \notin Events
  /\ NoList \notin Lists
  /\ Kqueue # ERROR
  /\ Timeouts \subseteq Int /\ StartTimeout \in Timeouts

Of(s, filter)    == [ident |-> s, filter |-> filter]
IsActive(e)      == \E i \in 1 .. Len(active) : active[i] = e

\* str without e, which occurs in it once at most.
Without(str, e) ==
  IF \E i \in 1 .. Len(str) : str[i] = e
  THEN LET i == CHOOSE i \in 1 .. Len(str) : str[i] = e
       IN  SubSeq(str, 1, i - 1) \o SubSeq(str, i + 1, Len(str))
  ELSE str

\* Defect: EVFILT_WRITE passes for EVFILT_READ.
IsReadType_Any(e) == e # Zeroed /\ e.filter \in Filters

\* Defect: EVFILT_READ passes for EVFILT_WRITE.
IsWriteType_Any(e) == e # Zeroed /\ e.filter \in Filters

\* KernelEvent::IdentifyFD and IdentifySocket, IsReadType, IsWriteType.
IdentifyFD(e, fd) == e # Zeroed /\ e.ident = fd
IsReadType(e)     == e # Zeroed /\ e.filter = "read"
IsWriteType(e)    == e # Zeroed /\ e.filter = "write"

\* The events of the batch that Poll has not handed out.
Window == [i \in 1 .. mEventCount - mEventIndex |-> mEventList[mEventIndex + i - 1]]
-----------------------------------------------------------------------------
\* Init(): no memory for the list; or a zeroed list, and kqueue() fails or not.
\* The caller may try again after a failure, and leaves a queue that works alone.
InitQueue ==
  /\ alive /\ mKqueue = ERROR
  /\ \/ mEventList' = NoList /\ UNCHANGED mKqueue
     \/ /\ mEventList' = [i \in Slots |-> Zeroed]
        /\ mKqueue' \in {Kqueue, ERROR}
  /\ UNCHANGED <<mEventCount, mEventIndex, mTimeout, alive, caller, kernel, reported>>

\* Init() on a queue that works: the old kqueue stays open and its events are
\* not seen any more, the list is zeroed under the cursor.  Not a step of Next.
InitQueue_Again ==
  /\ alive /\ mKqueue = Kqueue
  /\ \/ mEventList' = NoList /\ UNCHANGED <<mKqueue, watched, active>>
     \/ /\ mEventList' = [i \in Slots |-> Zeroed]
        /\ mKqueue' \in {Kqueue, ERROR}
        /\ watched' = {} /\ active' = <<>>
  /\ UNCHANGED <<mEventCount, mEventIndex, mTimeout, alive, caller, open, reported>>

\* ~KernelQueue(): closes the kqueue, which forgets its events.
DestroyQueue ==
  /\ alive
  /\ alive' = FALSE
  /\ watched' = {} /\ active' = <<>> /\ reported' = <<>>
  /\ UNCHANGED <<mKqueue, mTimeout, batch, caller, open>>

\* AddReadEvent and AddWriteEvent.  kevent() refuses a descriptor that is not
\* open, and every descriptor when there is no kqueue; adding an event again
\* changes nothing.
AddEvent(fd, filter) ==
  /\ alive
  /\ watched' = IF mKqueue = Kqueue /\ fd \in open
                THEN watched \cup {Of(fd, filter)} ELSE watched
  /\ UNCHANGED <<object, caller, open, active, reported>>

AddReadEvent(fd)  == AddEvent(fd, "read")
AddWriteEvent(fd) == AddEvent(fd, "write")

\* The timeout of a scan.  The remainder has the sign of what is divided, and
\* kevent() refuses what is negative.
Timespec(ms) ==
  LET sec == IF ms < 0 THEN -((-ms) \div 1000) ELSE ms \div 1000
  IN  [tv_sec |-> sec, tv_nsec |-> (ms - 1000 * sec) * 1000 * 1000]

IsTime(time) == time.tv_sec >= 0 /\ time.tv_nsec >= 0

SetTimeout(ms) ==
  /\ alive
  /\ mTimeout' = Timespec(ms)
  /\ UNCHANGED <<mKqueue, batch, alive, caller, kernel, reported>>

\* Defects of the scan: the cursor is rewound to the second event, or the events
\* are fetched while some are still waiting.
Fetched_SkipsFirst(events) ==
  /\ mEventCount = mEventIndex
  /\ mEventList' = [i \in Slots |-> IF i < Len(events) THEN events[i + 1] ELSE mEventList[i]]
  /\ mEventCount' = Len(events)
  /\ mEventIndex' = IF events = <<>> THEN 0 ELSE 1
  /\ polled' = FALSE

Fetched_TooEarly(events) ==
  /\ mEventList' = [i \in Slots |-> IF i < Len(events) THEN events[i + 1] ELSE mEventList[i]]
  /\ mEventCount' = Len(events)
  /\ mEventIndex' = 0
  /\ polled' = FALSE

\* getEventList() brought events (none on a timeout): kevent() fills the first
\* slots and leaves the rest.  Poll rewinds the cursor and returns false.
Fetched(events) ==
  /\ mEventCount = mEventIndex
  /\ mEventList' = [i \in Slots |-> IF i < Len(events) THEN events[i + 1] ELSE mEventList[i]]
  /\ mEventCount' = Len(events)
  /\ mEventIndex' = 0
  /\ polled' = FALSE

\* Defect: the count keeps the -1 of kevent().
Poll_Fails_KeepsError ==
  /\ alive
  /\ mEventCount = mEventIndex
  /\ mEventCount' = -1 /\ mEventIndex' = 0
  /\ polled' = FALSE
  /\ UNCHANGED <<mKqueue, mEventList, mTimeout, alive, event, kernel, reported>>

\* kevent() fails: interrupted, no kqueue, or no time.
Poll_Fails ==
  /\ alive
  /\ mEventCount = mEventIndex
  /\ mEventCount' = 0 /\ mEventIndex' = 0
  /\ polled' = FALSE
  /\ UNCHANGED <<mKqueue, mEventList, mTimeout, alive, event, kernel, reported>>

\* The scan of the active events, into the list.
Poll_Fetches ==
  /\ alive /\ mKqueue = Kqueue /\ mEventList # NoList /\ IsTime(mTimeout)
  /\ LET n == IF Len(active) < MAX_KEVENT_SIZE THEN Len(active) ELSE MAX_KEVENT_SIZE
         events == SubSeq(active, 1, n)
     IN  /\ Fetched(events)
         /\ active' = SubSeq(active, n + 1, Len(active)) \o events
         /\ reported' = reported \o events
  /\ UNCHANGED <<mKqueue, mTimeout, alive, event, open, watched>>

\* Defects: the cursor is advanced twice, or not at all.
HandOut_EveryOther ==
  /\ mEventCount # mEventIndex
  /\ event' = mEventList[mEventIndex]
  /\ mEventIndex' = IF mEventIndex + 2 < mEventCount THEN mEventIndex + 2 ELSE mEventCount
  /\ polled' = TRUE
  /\ UNCHANGED <<mKqueue, mEventList, mEventCount, alive>>

HandOut_NoAdvance ==
  /\ mEventCount # mEventIndex
  /\ event' = mEventList[mEventIndex]
  /\ polled' = TRUE
  /\ UNCHANGED <<mKqueue, mEventList, mEventCount, mEventIndex, alive>>

\* The next event of the batch.
HandOut ==
  /\ mEventCount # mEventIndex
  /\ event' = mEventList[mEventIndex]
  /\ mEventIndex' = mEventIndex + 1
  /\ polled' = TRUE
  /\ UNCHANGED <<mKqueue, mEventList, mEventCount, alive>>

Poll_HandsOut ==
  /\ alive
  /\ HandOut
  /\ reported' = IF reported = <<>> THEN <<>> ELSE Tail(reported)
  /\ UNCHANGED <<mTimeout, kernel>>

Poll == Poll_Fails \/ Poll_Fetches \/ Poll_HandsOut
-----------------------------------------------------------------------------
(* The kernel and the descriptors of the program.                          *)

Opens(fd) ==
  /\ fd \notin open
  /\ open' = open \cup {fd}
  /\ UNCHANGED <<object, caller, watched, active, reported>>

\* close() takes the events of the descriptor out of the kqueue; those in the
\* batch stay.
Closes(fd) ==
  /\ fd \in open
  /\ open' = open \ {fd}
  /\ watched' = {e \in watched : e.ident # fd}
  /\ active' = Without(Without(active, Of(fd, "read")), Of(fd, "write"))
  /\ UNCHANGED <<object, caller, reported>>

Activates(e) ==
  /\ e \in watched /\ ~IsActive(e)
  /\ active' = Append(active, e)
  /\ UNCHANGED <<object, caller, open, watched, reported>>

Deactivates(e) ==
  /\ IsActive(e)
  /\ active' = Without(active, e)
  /\ UNCHANGED <<object, caller, open, watched, reported>>
-----------------------------------------------------------------------------
Init ==
  /\ mKqueue = ERROR
  /\ mEventList = NoList
  /\ mEventCount = 0 /\ mEventIndex = 0
  /\ mTimeout = Timespec(StartTimeout)
  /\ event = Zeroed
  /\ polled = FALSE
  /\ alive = TRUE
  /\ open = {}
  /\ watched = {}
  /\ active = <<>>
  /\ reported = <<>>

Next ==
  \/ InitQueue
  \/ DestroyQueue
  \/ \E fd \in Fds : AddReadEvent(fd) \/ AddWriteEvent(fd) \/ Opens(fd) \/ Closes(fd)
  \/ \E ms \in Timeouts : SetTimeout(ms)
  \/ Poll
  \/ \E e \in Events : Activates(e) \/ Deactivates(e)

Spec == Init /\ [][Next]_vars

\* The same for a caller that calls Init() at any time.
AgainSpec == Init /\ [][Next \/ InitQueue_Again]_vars

\* The caller goes on polling, and kevent() is not interrupted for ever.
FairSpec == Spec /\ WF_vars(Poll_Fetches) /\ WF_vars(Poll_HandsOut)
-----------------------------------------------------------------------------
(* Properties.                                                             *)

\* The values each variable ranges over.
TypeOK ==
  /\ mKqueue \in {Kqueue, ERROR}
  /\ mEventList \in Lists \cup {NoList}
  /\ mEventCount \in Int /\ mEventIndex \in Int
  /\ mTimeout \in {Timespec(ms) : ms \in Timeouts}
  /\ event \in Events \cup {Zeroed}
  /\ polled \in BOOLEAN /\ alive \in BOOLEAN
  /\ open \subseteq Fds
  /\ watched \subseteq Events
  /\ active \in Seq(Events)
  /\ reported \in Seq(Events)

\* The cursor of Poll stays inside the batch, the batch inside the list, and
\* there is a list and a kqueue whenever the batch is not empty: Poll never
\* reads outside mEventList or through NULL, after any mix of failed
\* initialisations, interrupted scans and timeouts.
CursorInBatch ==
  /\ 0 <= mEventIndex /\ mEventIndex <= mEventCount /\ mEventCount <= MAX_KEVENT_SIZE
  /\ mEventCount > 0 => mEventList \in Lists /\ mKqueue = Kqueue

\* What Poll has yet to hand out is exactly what kevent() reported and Poll
\* has not handed out, in the same order: no scan loses, repeats or overwrites
\* an event.
WindowIsReported == alive => Window = reported

\* An event that stays active is handed out again and again, however many
\* others are active and however small the list is, unless the caller leaves a
\* negative timeout, with which kevent() reports nothing.
StaysActive(e) == <>[](alive /\ mKqueue = Kqueue /\ IsActive(e))
IsHandedOut(e) == []<><<Poll_HandsOut /\ event' = e>>_vars

NoStarvation ==
  <>[]IsTime(mTimeout) => \A e \in Events : StaysActive(e) => IsHandedOut(e)

\* The same whatever the timeout.
NoStarvationEver == \A e \in Events : StaysActive(e) => IsHandedOut(e)

\* Seen through the cursor, the array is a feed of events: whatever fails and
\* whatever closes, Poll takes over a batch only when the last one is used up,
\* and its caller gets each event of a batch once and in order.
Feed == INSTANCE EventFeed WITH pending <- IF alive THEN Window ELSE <<>>

ImplementsFeed == Feed!Spec

\* Poll returns false only if no event is there to be handed out.
FalseMeansNoEvent == polled = FALSE => mEventCount = mEventIndex
=============================================================================
