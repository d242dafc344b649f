------------------------- MODULE KernelQueueProofs -------------------------
(***************************************************************************)
(* The proofs about KernelQueue, for every set of descriptors and every    *)
(* size of the list of events.                                             *)
(***************************************************************************)
EXTENDS KernelQueue, SequenceTheorems, TLAPS

\* A list holds events whenever there is a kqueue: Init() never leaves a
\* working queue without a list.
ListWhenWorking == mKqueue = Kqueue => mEventList \in Lists

Inv == TypeOK /\ CursorInBatch /\ ListWhenWorking

-----------------------------------------------------------------------------
\* The list after a scan (the copy of kevent() into the first slots) is still
\* a list of events.
LEMMA FilledType ==
  ASSUME NEW events \in Seq(Events), mEventList \in Lists
  PROVE  [i \in Slots |-> IF i < Len(events) THEN events[i + 1] ELSE mEventList[i]] \in Lists
<1> SUFFICES ASSUME NEW i \in Slots
             PROVE  (IF i < Len(events) THEN events[i + 1] ELSE mEventList[i])
                      \in Events \cup {Zeroed}
  BY DEF Lists
<1>1. mEventList[i] \in Events \cup {Zeroed}
  BY DEF Lists
<1>2. ASSUME i < Len(events) PROVE events[i + 1] \in Events
  <2>1. i \in Nat /\ Len(events) \in Nat
    BY KernelQueueAssumption, LenProperties DEF Slots
  <2>2. i + 1 \in 1 .. Len(events)
    BY <2>1, <1>2
  <2> QED BY <2>2, ElementOfSeq
<1> QED BY <1>1, <1>2

\* Taking an event out of the kernel's list leaves a list of events.
LEMMA WithoutType ==
  ASSUME NEW es \in Seq(Events), NEW e
  PROVE  Without(es, e) \in Seq(Events)
<1>1. CASE \E i \in 1 .. Len(es) : es[i] = e
  <2> DEFINE i == CHOOSE i \in 1 .. Len(es) : es[i] = e
  <2>1. i \in 1 .. Len(es)
    BY <1>1
  <2>2. Len(es) \in Nat
    BY LenProperties
  <2>3. SubSeq(es, 1, i - 1) \in Seq(Events) /\ SubSeq(es, i + 1, Len(es)) \in Seq(Events)
    <3>1. ASSUME NEW k \in 1 .. Len(es) PROVE es[k] \in Events
      BY ElementOfSeq
    <3>2. \A k \in 1 .. i - 1 : es[k] \in Events
      BY <3>1, <2>1, <2>2
    <3>3. \A k \in i + 1 .. Len(es) : es[k] \in Events
      BY <3>1, <2>1, <2>2
    <3> HIDE DEF i
    <3> QED BY <3>2, <3>3, <2>1, <2>2, SubSeqProperties
  <2>4. SubSeq(es, 1, i - 1) \o SubSeq(es, i + 1, Len(es)) \in Seq(Events)
    <3> HIDE DEF i
    <3> QED BY <2>3, ConcatProperties
  <2> QED BY <2>4, <1>1 DEF Without
<1>2. CASE ~ \E i \in 1 .. Len(es) : es[i] = e
  BY <1>2 DEF Without
<1> QED BY <1>1, <1>2

\* The scan returns the first n active events, and moves them to the end of
\* the kernel's list.
LEMMA ScanType ==
  ASSUME NEW es \in Seq(Events), NEW n \in 0 .. Len(es)
  PROVE  /\ SubSeq(es, 1, n) \in Seq(Events)
         /\ Len(SubSeq(es, 1, n)) = n
         /\ SubSeq(es, n + 1, Len(es)) \o SubSeq(es, 1, n) \in Seq(Events)
<1>1. Len(es) \in Nat /\ n \in Nat
  BY LenProperties
<1>2. \A k \in 1 .. Len(es) : es[k] \in Events
  BY ElementOfSeq
<1>3. SubSeq(es, 1, n) \in Seq(Events) /\ Len(SubSeq(es, 1, n)) = n
  BY <1>1, <1>2, SubSeqProperties
<1>4. SubSeq(es, n + 1, Len(es)) \in Seq(Events)
  BY <1>1, <1>2, SubSeqProperties
<1> QED BY <1>3, <1>4, ConcatProperties
-----------------------------------------------------------------------------
\* The constructor leaves the cursor at the beginning of an empty batch.
LEMMA InvInit == Init => Inv
<1> SUFFICES ASSUME Init PROVE Inv
  OBVIOUS
<1> USE KernelQueueAssumption DEF Init
<1>1. TypeOK
  <2>1. <<>> \in Seq(Events)
    BY EmptySeq
  <2>2. polled \in BOOLEAN
    OBVIOUS
  <2> QED BY <2>1, <2>2 DEF TypeOK
<1>2. CursorInBatch
  BY DEF CursorInBatch
<1>3. ListWhenWorking
  BY DEF ListWhenWorking
<1> QED BY <1>1, <1>2, <1>3 DEF Inv

\* A scan fills the list, sets the count to what kevent() returned, and
\* rewinds the cursor: the batch it leaves lies in the list.
LEMMA InvFetches == Inv /\ Poll_Fetches => Inv'
<1> SUFFICES ASSUME Inv, Poll_Fetches PROVE Inv'
  OBVIOUS
<1> DEFINE n == IF Len(active) < MAX_KEVENT_SIZE THEN Len(active) ELSE MAX_KEVENT_SIZE
           events == SubSeq(active, 1, n)
<1>1. active \in Seq(Events) /\ reported \in Seq(Events) /\ Len(active) \in Nat
  BY LenProperties DEF Inv, TypeOK
<1>2. n \in 0 .. Len(active) /\ n <= MAX_KEVENT_SIZE
  BY <1>1, KernelQueueAssumption
<1>3. /\ events \in Seq(Events) /\ Len(events) = n
      /\ SubSeq(active, n + 1, Len(active)) \o events \in Seq(Events)
  <2> HIDE DEF n
  <2> QED BY <1>1, <1>2, ScanType
<1>4. /\ Fetched(events)
      /\ active' = SubSeq(active, n + 1, Len(active)) \o events
      /\ reported' = reported \o events
      /\ mKqueue = Kqueue
      /\ UNCHANGED <<mKqueue, mTimeout, alive, event, open, watched>>
  BY DEF Poll_Fetches
<1> HIDE DEF events, n
<1>5. mEventList \in Lists
  BY <1>4 DEF Inv, ListWhenWorking
<1>6. mEventList' \in Lists
  <2>1. [i \in Slots |-> IF i < Len(events) THEN events[i + 1] ELSE mEventList[i]] \in Lists
    BY <1>3, <1>5, FilledType
  <2> QED BY <2>1, <1>4 DEF Fetched
<1>7. mEventCount' = n /\ mEventIndex' = 0 /\ polled' = FALSE
  BY <1>3, <1>4 DEF Fetched
<1>8. reported' \in Seq(Events) /\ active' \in Seq(Events)
  BY <1>1, <1>3, <1>4, ConcatProperties
<1>9. TypeOK'
  <2>1. polled' \in BOOLEAN
    BY <1>7
  <2> QED BY <1>4, <1>6, <1>7, <1>8, <1>2, <1>1, <2>1 DEF Inv, TypeOK
<1>10. CursorInBatch'
  BY <1>4, <1>6, <1>7, <1>2, <1>1 DEF CursorInBatch
<1>11. ListWhenWorking'
  BY <1>6 DEF ListWhenWorking
<1> QED BY <1>9, <1>10, <1>11 DEF Inv

\* The slot Poll hands out is one of the list.
LEMMA InvHandsOut == Inv /\ Poll_HandsOut => Inv'
<1> SUFFICES ASSUME Inv, Poll_HandsOut PROVE Inv'
  OBVIOUS
<1> USE KernelQueueAssumption
<1>1. /\ mEventIndex \in Int /\ mEventCount \in Int
      /\ 0 <= mEventIndex /\ mEventIndex < mEventCount /\ mEventCount <= MAX_KEVENT_SIZE
      /\ mEventList \in Lists
  BY DEF Inv, TypeOK, CursorInBatch, Poll_HandsOut, HandOut
<1>2. mEventList[mEventIndex] \in Events \cup {Zeroed}
  BY <1>1 DEF Lists, Slots
<1>3. reported' \in Seq(Events)
  <2>1. reported \in Seq(Events)
    BY DEF Inv, TypeOK
  <2>2. CASE reported = <<>>
    BY <2>1, <2>2 DEF Poll_HandsOut
  <2>3. CASE reported # <<>>
    BY <2>1, <2>3, HeadTailProperties DEF Poll_HandsOut
  <2> QED BY <2>2, <2>3
<1>4. TypeOK'
  BY <1>1, <1>2, <1>3 DEF Inv, TypeOK, Poll_HandsOut, HandOut, kernel
<1>5. CursorInBatch'
  BY <1>1 DEF Inv, CursorInBatch, Poll_HandsOut, HandOut
<1>6. ListWhenWorking'
  BY DEF Inv, ListWhenWorking, Poll_HandsOut, HandOut
<1> QED BY <1>4, <1>5, <1>6 DEF Inv

\* No step takes the cursor out of the batch or the batch out of the list.
LEMMA InvNext == Inv /\ [Next]_vars => Inv'
<1> SUFFICES ASSUME Inv, [Next]_vars PROVE Inv'
  OBVIOUS
<1> USE KernelQueueAssumption DEF Inv
<1>1. CASE InitQueue
  <2>1. mEventList' \in Lists \cup {NoList}
    BY <1>1 DEF InitQueue, Lists
  <2>2. mKqueue' \in {Kqueue, ERROR} /\ (mKqueue' = Kqueue => mEventList' \in Lists)
    BY <1>1 DEF InitQueue, Lists
  <2>3. TypeOK'
    BY <1>1, <2>1, <2>2 DEF InitQueue, TypeOK, caller, kernel
  <2>4. mEventCount = 0 /\ mEventIndex = 0
    BY <1>1 DEF InitQueue, CursorInBatch, TypeOK
  <2> QED BY <1>1, <2>2, <2>3, <2>4 DEF InitQueue, CursorInBatch, ListWhenWorking
<1>2. CASE DestroyQueue
  <2>1. <<>> \in Seq(Events)
    BY EmptySeq
  <2>2. TypeOK'
    BY <1>2, <2>1 DEF DestroyQueue, TypeOK, batch, caller
  <2> QED BY <1>2, <2>2 DEF DestroyQueue, CursorInBatch, ListWhenWorking, batch
<1>3. ASSUME NEW fd \in Fds, NEW filter \in Filters, AddEvent(fd, filter) PROVE Inv'
  <2>1. Of(fd, filter) \in Events
    BY DEF Of, Events
  <2>2. TypeOK'
    BY <1>3, <2>1 DEF AddEvent, TypeOK, object, caller
  <2> QED BY <1>3, <2>2 DEF AddEvent, CursorInBatch, ListWhenWorking, object
<1>4. ASSUME NEW fd \in Fds, AddReadEvent(fd) \/ AddWriteEvent(fd) PROVE Inv'
  BY <1>3, <1>4 DEF AddReadEvent, AddWriteEvent, Filters
<1>5. CASE Poll_Fails
  <2>1. polled' \in BOOLEAN
    BY <1>5 DEF Poll_Fails
  <2>2. TypeOK'
    BY <1>5, <2>1 DEF Poll_Fails, TypeOK, kernel
  <2> QED BY <1>5, <2>2 DEF Poll_Fails, CursorInBatch, ListWhenWorking
<1>6. CASE Poll_Fetches
  BY <1>6, InvFetches
<1>7. CASE Poll_HandsOut
  BY <1>7, InvHandsOut
<1>8. ASSUME NEW fd \in Fds, Opens(fd) PROVE Inv'
  <2>1. TypeOK'
    BY <1>8 DEF Opens, TypeOK, object, caller
  <2> QED BY <1>8, <2>1 DEF Opens, CursorInBatch, ListWhenWorking, object
<1>9. ASSUME NEW fd \in Fds, Closes(fd) PROVE Inv'
  <2>1. active' \in Seq(Events)
    <3>1. Without(active, Of(fd, "read")) \in Seq(Events)
      BY WithoutType DEF TypeOK
    <3>2. Without(Without(active, Of(fd, "read")), Of(fd, "write")) \in Seq(Events)
      BY <3>1, WithoutType
    <3> QED BY <1>9, <3>2 DEF Closes
  <2>2. TypeOK'
    BY <1>9, <2>1 DEF Closes, TypeOK, object, caller
  <2> QED BY <1>9, <2>2 DEF Closes, CursorInBatch, ListWhenWorking, object
<1>10. ASSUME NEW e \in Events, Activates(e) PROVE Inv'
  <2>1. active' \in Seq(Events)
    BY <1>10, AppendProperties DEF Activates, TypeOK
  <2>2. TypeOK'
    BY <1>10, <2>1 DEF Activates, TypeOK, object, caller
  <2> QED BY <1>10, <2>2 DEF Activates, CursorInBatch, ListWhenWorking, object
<1>11. ASSUME NEW e \in Events, Deactivates(e) PROVE Inv'
  <2>1. active' \in Seq(Events)
    BY <1>11, WithoutType DEF Deactivates, TypeOK
  <2>2. TypeOK'
    BY <1>11, <2>1 DEF Deactivates, TypeOK, object, caller
  <2> QED BY <1>11, <2>2 DEF Deactivates, CursorInBatch, ListWhenWorking, object
<1>12. ASSUME NEW ms \in Timeouts, SetTimeout(ms) PROVE Inv'
  <2>1. TypeOK'
    BY <1>12 DEF SetTimeout, TypeOK, batch, caller, kernel
  <2> QED BY <1>12, <2>1 DEF SetTimeout, CursorInBatch, ListWhenWorking, batch
<1>13. CASE UNCHANGED vars
  <2>1. TypeOK'
    BY <1>13 DEF vars, TypeOK, object, caller, kernel
  <2> QED BY <1>13, <2>1 DEF vars, CursorInBatch, ListWhenWorking, object
<1> QED
  BY <1>1, <1>2, <1>4, <1>5, <1>6, <1>7, <1>8, <1>9, <1>10, <1>11, <1>12, <1>13
     DEF Next, Poll

\* Every variable keeps its type.
THEOREM QueueTypeCorrect == Spec => []TypeOK
<1>1. Inv => TypeOK
  BY DEF Inv
<1> QED BY <1>1, InvInit, InvNext, PTL DEF Spec

\* The cursor of Poll never leaves the batch, nor the batch the list: Poll
\* reads neither outside mEventList nor through NULL.
THEOREM CursorCorrect == Spec => []CursorInBatch
<1>1. Inv => CursorInBatch
  BY DEF Inv
<1> QED BY <1>1, InvInit, InvNext, PTL DEF Spec
-----------------------------------------------------------------------------
\* Window = reported, element by element.
Matches ==
  alive => /\ Len(reported) = mEventCount - mEventIndex
           /\ \A i \in 1 .. Len(reported) : reported[i] = mEventList[mEventIndex + i - 1]

\* The two forms agree.
LEMMA MatchesWindow == Inv /\ Matches => WindowIsReported
<1> SUFFICES ASSUME Inv, Matches, alive PROVE Window = reported
  BY DEF WindowIsReported
<1>1. reported \in Seq(Events)
  BY DEF Inv, TypeOK
<1>2. reported = [i \in 1 .. Len(reported) |-> reported[i]]
  BY <1>1
<1>3. Len(reported) = mEventCount - mEventIndex
  BY DEF Matches
<1>4. \A i \in 1 .. Len(reported) : reported[i] = mEventList[mEventIndex + i - 1]
  BY DEF Matches
<1> QED BY <1>2, <1>3, <1>4 DEF Window

\* A scan happens only when all was handed out, so what is to be handed out
\* after it is what it returned.
LEMMA MatchesFetches == Inv /\ Matches /\ Poll_Fetches => Matches'
<1> SUFFICES ASSUME Inv, Matches, Poll_Fetches PROVE Matches'
  OBVIOUS
<1> DEFINE n == IF Len(active) < MAX_KEVENT_SIZE THEN Len(active) ELSE MAX_KEVENT_SIZE
           events == SubSeq(active, 1, n)
<1>1. active \in Seq(Events) /\ reported \in Seq(Events) /\ Len(active) \in Nat
  BY LenProperties DEF Inv, TypeOK
<1>2. n \in 0 .. Len(active) /\ n <= MAX_KEVENT_SIZE
  BY <1>1, KernelQueueAssumption
<1>3. events \in Seq(Events) /\ Len(events) = n
  <2> HIDE DEF n
  <2> QED BY <1>1, <1>2, ScanType
<1>4. Fetched(events) /\ reported' = reported \o events /\ alive
  BY DEF Poll_Fetches
<1> HIDE DEF events, n
<1>5. mEventCount = mEventIndex /\ mEventIndex \in Int
  BY <1>4 DEF Fetched, Inv, TypeOK
<1>6. reported = <<>>
  <2>1. Len(reported) = 0
    BY <1>4, <1>5 DEF Matches
  <2> QED BY <1>1, <2>1, EmptySeq
<1>7. reported' = events
  BY <1>3, <1>4, <1>6, ConcatEmptySeq
<1>8. mEventCount' = n /\ mEventIndex' = 0
  BY <1>3, <1>4 DEF Fetched
<1>9. ASSUME NEW i \in 1 .. n PROVE mEventList'[i - 1] = events[i]
  <2>1. i - 1 \in Slots /\ i - 1 < n /\ i - 1 + 1 = i
    BY <1>1, <1>2, KernelQueueAssumption DEF Slots
  <2>2. mEventList'[i - 1] = IF i - 1 < Len(events) THEN events[i - 1 + 1] ELSE mEventList[i - 1]
    BY <1>4, <2>1 DEF Fetched
  <2> QED BY <1>3, <2>1, <2>2
<1>10. \A i \in 1 .. n : 0 + i - 1 = i - 1
  BY <1>1, <1>2
<1> QED BY <1>3, <1>7, <1>8, <1>9, <1>10, <1>1, <1>2 DEF Matches

\* Poll hands out the first of the events it still has.
LEMMA MatchesHandsOut == Inv /\ Matches /\ Poll_HandsOut => Matches'
<1> SUFFICES ASSUME Inv, Matches, Poll_HandsOut PROVE Matches'
  OBVIOUS
<1>1. reported \in Seq(Events) /\ mEventIndex \in Int /\ mEventCount \in Int
  BY DEF Inv, TypeOK
<1>2. alive /\ mEventIndex < mEventCount
  BY <1>1 DEF Poll_HandsOut, HandOut, Inv, CursorInBatch
<1>3. Len(reported) = mEventCount - mEventIndex
  BY <1>2 DEF Matches
<1>4. reported # <<>> /\ Len(reported) \in Nat
  BY <1>1, <1>2, <1>3, LenProperties, EmptySeq
<1>5. reported' = Tail(reported)
  BY <1>4 DEF Poll_HandsOut
<1>6. /\ Len(Tail(reported)) = Len(reported) - 1
      /\ \A i \in 1 .. Len(Tail(reported)) : Tail(reported)[i] = reported[i + 1]
  BY <1>1, <1>4, HeadTailProperties
<1>7. mEventIndex' = mEventIndex + 1 /\ mEventCount' = mEventCount /\ mEventList' = mEventList
  BY DEF Poll_HandsOut, HandOut
<1>8. ASSUME NEW i \in 1 .. Len(Tail(reported))
      PROVE  Tail(reported)[i] = mEventList[mEventIndex + 1 + i - 1]
  <2>1. i + 1 \in 1 .. Len(reported) /\ mEventIndex + (i + 1) - 1 = mEventIndex + 1 + i - 1
    BY <1>1, <1>4, <1>6
  <2>2. reported[i + 1] = mEventList[mEventIndex + (i + 1) - 1]
    BY <1>2, <2>1 DEF Matches
  <2> QED BY <1>6, <2>1, <2>2
<1>9. Len(Tail(reported)) = mEventCount - (mEventIndex + 1)
  BY <1>1, <1>3, <1>4, <1>6
<1> QED BY <1>5, <1>7, <1>8, <1>9 DEF Matches

\* No other step touches the events to be handed out, unless there are none.
LEMMA MatchesNext == Inv /\ Matches /\ [Next]_vars => Matches'
<1> SUFFICES ASSUME Inv, Matches, [Next]_vars PROVE Matches'
  OBVIOUS
<1>1. ASSUME UNCHANGED <<mEventList, mEventCount, mEventIndex, alive, reported>> PROVE Matches'
  BY <1>1 DEF Matches
<1>2. ASSUME mEventCount = mEventIndex, mEventCount' = mEventIndex', mEventIndex' \in Int,
             UNCHANGED <<alive, reported>>
      PROVE  Matches'
  <2>1. reported \in Seq(Events) /\ mEventIndex \in Int
    BY DEF Inv, TypeOK
  <2>2. alive => Len(reported) = 0
    BY <1>2, <2>1 DEF Matches
  <2>3. alive' = alive /\ reported' = reported
    BY <1>2
  <2>4. mEventCount' - mEventIndex' = 0
    <3>1. mEventCount' = mEventIndex' /\ mEventIndex' \in Int
      BY <1>2
    <3>2. \A m, n \in Int : m = n => m - n = 0
      OBVIOUS
    <3> QED BY <3>1, <3>2
  <2> QED BY <2>2, <2>3, <2>4 DEF Matches
<1>3. CASE InitQueue
  <2>1. mEventCount = 0 /\ mEventIndex = 0
    BY <1>3, KernelQueueAssumption DEF InitQueue, Inv, TypeOK, CursorInBatch
  <2> QED BY <1>2, <1>3, <2>1 DEF InitQueue
<1>4. CASE DestroyQueue
  <2>1. alive' = FALSE
    BY <1>4 DEF DestroyQueue
  <2> QED BY <2>1 DEF Matches
<1>5. CASE Poll_Fails
  BY <1>2, <1>5 DEF Poll_Fails
<1>6. CASE Poll_Fetches
  BY <1>6, MatchesFetches
<1>7. CASE Poll_HandsOut
  BY <1>7, MatchesHandsOut
<1>8. ASSUME NEW fd \in Fds, AddReadEvent(fd) \/ AddWriteEvent(fd) \/ Opens(fd) \/ Closes(fd)
      PROVE  Matches'
  BY <1>1, <1>8 DEF AddReadEvent, AddWriteEvent, AddEvent, Opens, Closes, object
<1>9. ASSUME NEW e \in Events, Activates(e) \/ Deactivates(e) PROVE Matches'
  BY <1>1, <1>9 DEF Activates, Deactivates, object
<1>10. ASSUME NEW ms \in Timeouts, SetTimeout(ms) PROVE Matches'
  BY <1>1, <1>10 DEF SetTimeout, batch
<1>11. CASE UNCHANGED vars
  BY <1>1, <1>11 DEF vars, object
<1> QED
  BY <1>3, <1>4, <1>5, <1>6, <1>7, <1>8, <1>9, <1>10, <1>11 DEF Next, Poll

\* Poll hands out the events kevent() reported, each once and in the same
\* order, whatever happens to their descriptors in the meantime.
THEOREM WindowCorrect == Spec => []WindowIsReported
<1>1. Init => Matches
  <2>1. Len(<<>>) = 0
    BY EmptySeq
  <2> QED BY <2>1 DEF Init, Matches
<1> QED BY <1>1, InvInit, InvNext, MatchesNext, MatchesWindow, PTL DEF Spec
-----------------------------------------------------------------------------
\* The events of the feed: those reported and not handed out, while the queue
\* exists.
LEMMA PendingIsReported ==
  ASSUME WindowIsReported
  PROVE  (IF alive THEN Window ELSE <<>>) = IF alive THEN reported ELSE <<>>
BY DEF WindowIsReported

\* The constructor leaves an empty feed.
LEMMA FeedInit == Init => Feed!Init
<1> SUFFICES ASSUME Init PROVE Feed!Init
  OBVIOUS
<1>1. alive = TRUE /\ event = Zeroed /\ reported = <<>>
  BY DEF Init
<1>2. WindowIsReported
  <2>1. Inv
    BY InvInit
  <2>2. Matches
    <3>1. Len(<<>>) = 0
      BY EmptySeq
    <3> QED BY <3>1 DEF Init, Matches
  <2> QED BY <2>1, <2>2, MatchesWindow
<1>3. (IF alive THEN Window ELSE <<>>) = <<>>
  BY <1>1, <1>2, PendingIsReported
<1> QED BY <1>1, <1>3 DEF Feed!Init

\* A scan takes a batch over.
LEMMA FeedFetches ==
  ASSUME Inv, WindowIsReported, WindowIsReported', Poll_Fetches
  PROVE  Feed!TakeOver
<1> DEFINE n == IF Len(active) < MAX_KEVENT_SIZE THEN Len(active) ELSE MAX_KEVENT_SIZE
           events == SubSeq(active, 1, n)
<1>1. active \in Seq(Events) /\ reported \in Seq(Events) /\ Len(active) \in Nat
  BY LenProperties DEF Inv, TypeOK
<1>2. n \in 0 .. Len(active) /\ n <= MAX_KEVENT_SIZE
  BY <1>1, KernelQueueAssumption
<1>3. events \in Seq(Events) /\ Len(events) = n
  <2> HIDE DEF n
  <2> QED BY <1>1, <1>2, ScanType
<1>4. /\ alive /\ alive' = alive /\ event' = event
      /\ mEventCount = mEventIndex /\ reported' = reported \o events
  BY DEF Poll_Fetches, Fetched
<1> HIDE DEF events, n
<1>5. Window = <<>>
  <2>1. mEventCount - mEventIndex = 0
    BY <1>4 DEF Inv, TypeOK
  <2> QED BY <2>1 DEF Window
<1>6. reported = <<>>
  BY <1>4, <1>5 DEF WindowIsReported
<1>7. reported' = events
  BY <1>3, <1>4, <1>6, ConcatEmptySeq
<1>8. Window' = events
  BY <1>4, <1>7 DEF WindowIsReported
<1> QED BY <1>2, <1>3, <1>4, <1>5, <1>8 DEF Feed!TakeOver

\* The event at the cursor is the first that is pending.
LEMMA FeedHandsOut ==
  ASSUME Inv, WindowIsReported, WindowIsReported', Poll_HandsOut
  PROVE  Feed!HandOver
<1>1. /\ alive /\ alive' = alive /\ mEventCount # mEventIndex
      /\ event' = mEventList[mEventIndex]
      /\ reported' = IF reported = <<>> THEN <<>> ELSE Tail(reported)
  BY DEF Poll_HandsOut, HandOut
<1>2. mEventIndex \in Int /\ mEventCount \in Int /\ mEventIndex < mEventCount
  BY <1>1 DEF Inv, TypeOK, CursorInBatch
<1>3. Window = reported /\ Window' = reported'
  BY <1>1 DEF WindowIsReported
<1>4. 1 \in 1 .. mEventCount - mEventIndex /\ mEventIndex + 1 - 1 = mEventIndex
  BY <1>2
<1>5. Window[1] = mEventList[mEventIndex]
  BY <1>4 DEF Window
<1>6. reported # <<>>
  <2>1. Len(reported) = mEventCount - mEventIndex
    <3>1. reported \in Seq(Events)
      BY DEF Inv, TypeOK
    <3>2. DOMAIN reported = 1 .. mEventCount - mEventIndex
      BY <1>3 DEF Window
    <3>3. mEventCount - mEventIndex \in Nat
      BY <1>2
    <3> QED BY <3>1, <3>2, <3>3, LenProperties
  <2> QED BY <1>2, <2>1, EmptySeq
<1>7. Head(Window) = event'
  BY <1>1, <1>3, <1>5
<1>8. Window' = Tail(Window)
  BY <1>1, <1>3, <1>6
<1> QED BY <1>1, <1>3, <1>6, <1>7, <1>8 DEF Feed!HandOver

\* Every step of the queue is a step of the feed, or changes nothing of it.
LEMMA FeedNext ==
  ASSUME Inv, WindowIsReported, WindowIsReported', [Next]_vars
  PROVE  [Feed!Next]_(Feed!feedVars)
<1>1. ASSUME UNCHANGED <<alive, event, reported>> PROVE UNCHANGED Feed!feedVars
  BY <1>1 DEF WindowIsReported, Feed!feedVars
<1>2. CASE InitQueue
  BY <1>1, <1>2 DEF InitQueue, caller
<1>3. CASE DestroyQueue
  <2>1. alive /\ alive' = FALSE /\ event' = event
    BY <1>3 DEF DestroyQueue, caller
  <2> QED BY <2>1 DEF Feed!Close, Feed!Next
<1>4. CASE Poll_Fails
  BY <1>1, <1>4 DEF Poll_Fails
<1>5. CASE Poll_Fetches
  BY <1>5, FeedFetches DEF Feed!Next
<1>6. CASE Poll_HandsOut
  BY <1>6, FeedHandsOut DEF Feed!Next
<1>7. ASSUME NEW fd \in Fds, AddReadEvent(fd) \/ AddWriteEvent(fd) \/ Opens(fd) \/ Closes(fd)
      PROVE  UNCHANGED Feed!feedVars
  BY <1>1, <1>7 DEF AddReadEvent, AddWriteEvent, AddEvent, Opens, Closes, object, caller
<1>8. ASSUME NEW e \in Events, Activates(e) \/ Deactivates(e) PROVE UNCHANGED Feed!feedVars
  BY <1>1, <1>8 DEF Activates, Deactivates, object, caller
<1>9. ASSUME NEW ms \in Timeouts, SetTimeout(ms) PROVE UNCHANGED Feed!feedVars
  BY <1>1, <1>9 DEF SetTimeout, batch, caller
<1>10. CASE UNCHANGED vars
  BY <1>1, <1>10 DEF vars, object, caller
<1> QED
  BY <1>2, <1>3, <1>4, <1>5, <1>6, <1>7, <1>8, <1>9, <1>10 DEF Next, Poll

\* The array, the count and the cursor of KernelQueue implement the feed of
\* events: Poll takes over a batch only when the last one is used up, and hands
\* out each event of it once and in order.
THEOREM FeedImplemented == Spec => ImplementsFeed
<1>1. Inv /\ WindowIsReported /\ WindowIsReported' /\ [Next]_vars => [Feed!Next]_(Feed!feedVars)
  BY FeedNext
<1> QED
  BY <1>1, InvInit, InvNext, WindowCorrect, FeedInit, PTL DEF Spec, ImplementsFeed, Feed!Spec
=============================================================================
