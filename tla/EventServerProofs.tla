------------------------- MODULE EventServerProofs -------------------------
(***************************************************************************)
(* Theorems about the loop, for every number of descriptors and clients    *)
(* and every size of a batch: of one that accepts clients at any time, and *)
(* what more there is to say of one that accepts them between batches.     *)
(***************************************************************************)
EXTENDS EventServer, NetworkUseProofs

IsReady(e) ==
  \/ e.filter = "read" /\ Readable(e.ident)
  \/ e.filter = "write" /\ Writable(e.ident)

\* A connection that is or was accepted.  None is ever accepted again.
IsKnown(c) == c \in Conns => link[c] \notin {"idle", "queued"}

\* If the connection the event was reported for still has the socket, it is
\* ready.
IsTimely(e, c) ==
  /\ IsKnown(c)
  /\ owner[e.ident] = c /\ c \in Conns => IsReady(e)

\* No other connection has the socket by now.
IsFor(e, c) == IsConnected(e.ident) => c = owner[e.ident]

\* The positions of the batch that Poll has not come to, and the events there.
Waiting    == mEventIndex + 1 .. mEventCount
EventAt(k) == mEventList[k - 1]

\* The events that are waiting or being handled are timely, and none is there
\* twice.
BatchInv ==
  /\ watched \subseteq Q!Events
  /\ mEventCount \in 0 .. MAX_KEVENT_SIZE /\ mEventIndex \in 0 .. mEventCount
  /\ \A k \in Waiting : EventAt(k) \in Q!Events /\ IsTimely(EventAt(k), origin[k])
  /\ \A j, k \in Waiting : EventAt(j) = EventAt(k) => j = k
  /\ loop = "handle" =>
       /\ event \in Q!Events /\ IsTimely(event, about)
       /\ \A k \in Waiting : EventAt(k) # event

\* In a loop that accepts between batches they are also for the connection
\* that has the socket.
NoneReplaced ==
  /\ \A k \in Waiting : IsFor(EventAt(k), origin[k])
  /\ loop = "handle" => IsFor(event, about)

LoopInv     == phase = "listening" /\ TypeOK /\ Ownership /\ BatchInv
DeferredInv == LoopInv /\ NoneReplaced

\* Two events on the same descriptor with the same filter are the same.
LEMMA SameEvent ==
  ASSUME NEW d \in Q!Events, NEW e \in Q!Events, d.ident = e.ident, d.filter = e.filter
  PROVE  d = e
BY DEF Q!Events

LEMMA EventFields ==
  ASSUME NEW e \in Q!Events
  PROVE  e.ident \in Fds /\ e.filter \in {"read", "write"}
BY DEF Q!Events, Q!Filters

\* Each step of the loop is one of Network or leaves it alone, so what was
\* shown for every application that checks its sessions holds here.
LEMMA ServerStep == BatchInv /\ [ServerNext]_serverVars => [Next]_vars
<1> SUFFICES ASSUME BatchInv, [ServerNext]_serverVars PROVE [Next]_vars
  OBVIOUS
<1>1. CASE Accept
  BY <1>1 DEF Accept, Next
<1>2. CASE Handle
  <2>1. loop = "handle" => event.ident \in Fds
    BY EventFields DEF BatchInv
  <2>2. CASE HandleServer \/ HandleUnknown
    BY <2>2 DEF HandleServer, HandleUnknown
  <2>3. CASE HandleRead \/ HandleWrite
    <3>1. Call(event.ident)
      BY <2>3 DEF HandleRead, HandleWrite, Call
    <3>2. event.ident \in Fds
      BY <2>1, <2>3 DEF HandleRead, HandleWrite
    <3> QED BY <3>1, <3>2 DEF Next
  <2> QED BY <1>2, <2>2, <2>3 DEF Handle
<1>3. CASE Decide \/ Refuse
  BY <1>3 DEF Decide, Refuse, Next, Call
<1>4. CASE Outside
  BY <1>4 DEF Outside, Next
<1>5. CASE PollFetches \/ PollFails \/ PollHandsOut \/ UNCHANGED serverVars
  BY <1>5 DEF PollFetches, PollFails, PollHandsOut, serverVars
<1> QED
  BY <1>1, <1>2, <1>3, <1>4, <1>5 DEF ServerNext
-----------------------------------------------------------------------------
(* What a step may change about a socket.                                  *)

\* The socket is given to a connection that waits, is closed, or stays with its
\* connection and as ready as it was.
KeepsReading(f) ==
  owner'[f] \in Conns =>
    \/ link[owner'[f]] = "queued"
    \/ /\ owner'[f] = owner[f]
       /\ inbound[owner[f]] # <<>> \/ peer[owner[f]] # "up"
            => inbound'[owner[f]] # <<>> \/ peer'[owner[f]] # "up"

KeepsWriting(f) ==
  owner'[f] \in Conns =>
    \/ link[owner'[f]] = "queued"
    \/ /\ owner'[f] = owner[f]
       /\ queued[owner[f]] < SendRoom \/ peer[owner[f]] = "reset"
            => queued'[owner[f]] < SendRoom \/ peer'[owner[f]] = "reset"

\* The step keeps up to date what is known about an event.
Keeps(e) == /\ e.filter = "read" => KeepsReading(e.ident)
            /\ e.filter = "write" => KeepsWriting(e.ident)

\* A known connection stays one.
KnownStay == \A c \in Conns : IsKnown(c) => IsKnown(c)'

\* An event stays timely as long as its side of its socket does.
LEMMA TimelyKept ==
  ASSUME NEW e \in Q!Events, NEW c, IsTimely(e, c), Keeps(e), KnownStay
  PROVE  IsTimely(e, c)'
<1>1. IsKnown(c)'
  BY DEF IsTimely, KnownStay, IsKnown
<1>2. ASSUME owner'[e.ident] = c, c \in Conns PROVE IsReady(e)'
  <2>1. link[c] # "queued"
    BY <1>2 DEF IsTimely, IsKnown
  <2>2. owner[e.ident] = c
    BY <1>2, <2>1, EventFields DEF Keeps, KeepsReading, KeepsWriting
  <2>3. IsReady(e)
    BY <1>2, <2>2 DEF IsTimely
  <2> QED
    BY <1>2, <2>1, <2>2, <2>3, EventFields
       DEF IsReady, Keeps, KeepsReading, KeepsWriting, IsConnected, Readable, Writable
<1> QED
  BY <1>1, <1>2 DEF IsTimely

\* Accepting a client gives a socket to a connection that waits.
LEMMA AcceptKeeps ==
  ASSUME TypeOK, ConnectNewClient, NEW f \in Fds
  PROVE  KeepsReading(f) /\ KeepsWriting(f)
<1>1. PICK c \in Conns, s \in FreeFds : link[c] = "queued" /\ (Connect_Accepted(c, s) \/ Connect_Refused(c))
  BY DEF ConnectNewClient
<1>2. UNCHANGED <<peer, inbound, queued>>
  BY DEF ConnectNewClient
<1>3. owner'[f] = owner[f] \/ owner'[f] = c
  BY <1>1 DEF Connect_Accepted, Connect_Refused, FreeFds, TypeOK
<1> QED
  BY <1>1, <1>2, <1>3 DEF KeepsReading, KeepsWriting

\* The clients and the kernel never make a ready socket less so.
LEMMA ClientsKeep ==
  ASSUME TypeOK, Clients, NEW f \in Fds
  PROVE  KeepsReading(f) /\ KeepsWriting(f)
<1>1. owner' = owner
  BY DEF Clients, ClientConnects, ClientSends, ClientLeaves, KernelDrains
<1>2. ASSUME NEW c \in Conns
      PROVE  /\ inbound[c] # <<>> => inbound'[c] # <<>>
             /\ peer[c] # "up" => peer'[c] # "up"
             /\ peer[c] = "reset" => peer'[c] = "reset"
             /\ queued[c] < SendRoom => queued'[c] < SendRoom
  <2>1. CASE \E d \in Conns : ClientConnects(d)
    BY <2>1 DEF ClientConnects
  <2>2. CASE \E d \in Conns, b \in Bytes : ClientSends(d, b)
    <3>1. PICK d \in Conns, b \in Bytes : ClientSends(d, b)
      BY <2>2
    <3>2. inbound[d] \in Seq(Bytes) /\ Append(inbound[d], b) # <<>>
      <4>1. inbound[d] \in Seq(Bytes)
        BY DEF TypeOK
      <4> QED BY <4>1, AppendProperties, EmptySeq
    <3> QED BY <3>1, <3>2 DEF ClientSends, TypeOK
  <2>3. CASE \E d \in Conns, how \in {"fin", "reset"} : ClientLeaves(d, how)
    BY <2>3 DEF ClientLeaves, HasClient, TypeOK
  <2>4. CASE \E d \in Conns : KernelDrains(d)
    <3>1. PICK d \in Conns : KernelDrains(d)
      BY <2>4
    <3>2. queued' \in [Conns -> Int] /\ queued'[c] <= queued[c] /\ SendRoom \in Nat /\ queued[c] \in Nat
      BY <3>1, NetworkAssumption DEF KernelDrains, TypeOK
    <3>3. queued[c] < SendRoom => queued'[c] < SendRoom
      BY <3>2
    <3> QED BY <3>1, <3>3 DEF KernelDrains
  <2> QED BY <2>1, <2>2, <2>3, <2>4 DEF Clients
<1> QED
  BY <1>1, <1>2 DEF KeepsReading, KeepsWriting, IsConnected, Readable, Writable

\* Removing a session closes its socket and touches no other.
LEMMA RemoveKeeps ==
  ASSUME TypeOK, NEW s \in Fds, NEW why, Remove(s, why),
         UNCHANGED <<peer, inbound, queued>>, NEW f \in Fds
  PROVE  KeepsReading(f) /\ KeepsWriting(f)
<1>1. owner' = [owner EXCEPT ![s] = "free"]
  BY DEF Remove, CloseFd
<1>2. "free" \notin Conns
  BY NetworkAssumption DEF Nobody
<1> QED
  BY <1>1, <1>2 DEF KeepsReading, KeepsWriting, IsConnected, Readable, Writable, TypeOK

\* A recv changes what can be read from its own socket, and a send what its own
\* socket has room for; neither makes any other event out of date.
LEMMA RecvKeeps ==
  ASSUME TypeOK, Ownership, NEW s \in Fds, RecvFromClient(s), NEW f \in Fds
  PROVE  KeepsWriting(f) /\ (f # s => KeepsReading(f))
<1>1. CASE Recv_Ignored(s)
  BY <1>1 DEF Recv_Ignored, kernel, KeepsReading, KeepsWriting, IsConnected, Readable, Writable
<1>2. CASE Recv_Data(s)
  <2>1. /\ UNCHANGED <<owner, peer, queued>>
        /\ \E rest : inbound' = [inbound EXCEPT ![owner[s]] = rest]
        /\ IsConnected(s)
    BY <1>2 DEF Recv_Data
  <2>2. f # s /\ IsConnected(f) => inbound'[owner[f]] = inbound[owner[f]]
    BY <2>1 DEF IsConnected, Ownership, Sockets, ConnectedOnce, TypeOK
  <2> QED
    BY <2>1, <2>2 DEF KeepsReading, KeepsWriting, IsConnected, Readable, Writable
<1>3. CASE Recv_Fails(s)
  BY <1>3, RemoveKeeps DEF Recv_Fails, Drop
<1> QED
  BY <1>1, <1>2, <1>3 DEF RecvFromClient

LEMMA SendKeeps ==
  ASSUME TypeOK, Ownership, NEW s \in Fds, SendToClient(s), NEW f \in Fds
  PROVE  KeepsReading(f) /\ (f # s => KeepsWriting(f))
<1>1. CASE Send_Idle(s)
  BY <1>1 DEF Send_Idle, kernel, KeepsReading, KeepsWriting, IsConnected, Readable, Writable
<1>2. CASE Send_Some(s)
  <2>1. /\ UNCHANGED <<owner, peer, inbound>>
        /\ \E more : queued' = [queued EXCEPT ![owner[s]] = more]
        /\ IsConnected(s)
    BY <1>2 DEF Send_Some, CanSend
  <2>2. f # s /\ IsConnected(f) => queued'[owner[f]] = queued[owner[f]]
    BY <2>1 DEF IsConnected, Ownership, Sockets, ConnectedOnce, TypeOK
  <2> QED
    BY <2>1, <2>2 DEF KeepsReading, KeepsWriting, IsConnected, Readable, Writable
<1>3. CASE Send_Farewell(s)
  BY <1>3, RemoveKeeps DEF Send_Farewell
<1>4. CASE Send_Fails(s)
  BY <1>4, RemoveKeeps DEF Send_Fails, Drop
<1> QED
  BY <1>1, <1>2, <1>3, <1>4 DEF SendToClient

LEMMA DecideKeeps ==
  ASSUME TypeOK, Decide \/ Refuse, NEW f \in Fds
  PROVE  KeepsReading(f) /\ KeepsWriting(f)
<1>1. PICK s \in Fds : \/ DisconnectClient(s)
                       \/ ReserveDisconnectClient(s)
                       \/ \E buf \in Messages : PushToSendBuffer(s, buf)
  BY DEF Decide, Refuse
<1>2. CASE DisconnectClient(s)
  BY <1>2, RemoveKeeps DEF DisconnectClient, Drop
<1>3. CASE UNCHANGED kernel
  BY <1>3 DEF kernel, KeepsReading, KeepsWriting, IsConnected, Readable, Writable
<1> QED
  BY <1>1, <1>2, <1>3 DEF ReserveDisconnectClient, PushToSendBuffer
-----------------------------------------------------------------------------
(* The invariant of the batch.                                             *)

LEMMA RegistrationType ==
  ASSUME BatchInv, TypeOK, NEW filters \in Successes, Registration(filters)
  PROVE  watched' \subseteq Q!Events
<1>1. \A s \in Fds, filter \in filters : Q!Of(s, filter) \in Q!Events
  BY DEF Q!Of, Q!Events, Q!Filters, Successes
<1>2. Accepted \subseteq Fds
  BY DEF Accepted
<1> QED
  BY <1>1, <1>2 DEF BatchInv, Registration

\* No step takes a connection back to before it was accepted.
LEMMA KnownOnes ==
  ASSUME TypeOK, [ServerNext]_serverVars
  PROVE  KnownStay
<1>1. CASE UNCHANGED link
  BY <1>1 DEF KnownStay, IsKnown
<1>2. ASSUME NEW s, CloseFd(s) PROVE KnownStay
  BY <1>2 DEF CloseFd, KnownStay, IsKnown
<1>3. CASE Accept
  <2>1. CASE ConnectNewClient
    BY <2>1 DEF ConnectNewClient, Connect_Accepted, Connect_Refused, KnownStay, IsKnown, TypeOK
  <2> QED
    BY <1>1, <1>3, <2>1 DEF Accept, vars, kernel
<1>4. ASSUME NEW s, RecvFromClient(s) PROVE KnownStay
  BY <1>1, <1>2, <1>4 DEF RecvFromClient, Recv_Ignored, Recv_Data, Recv_Fails, Drop, Remove, kernel
<1>5. ASSUME NEW s, SendToClient(s) PROVE KnownStay
  BY <1>1, <1>2, <1>5 DEF SendToClient, Send_Idle, Send_Some, Send_Farewell, Send_Fails, Drop,
     Remove, kernel
<1>6. CASE Handle
  BY <1>1, <1>4, <1>5, <1>6 DEF Handle, HandleServer, HandleRead, HandleWrite, HandleUnknown, vars, kernel
<1>7. CASE Decide \/ Refuse
  BY <1>1, <1>2, <1>7 DEF Decide, Refuse, DisconnectClient, ReserveDisconnectClient, PushToSendBuffer,
     Drop, Remove, kernel
<1>8. CASE Outside
  BY <1>1, <1>8 DEF Outside, Clients, ClientConnects, ClientSends, ClientLeaves, KernelDrains,
     KnownStay, IsKnown, TypeOK
<1>9. CASE PollFetches \/ PollFails \/ PollHandsOut \/ UNCHANGED serverVars
  BY <1>1, <1>9 DEF PollFetches, PollFails, PollHandsOut, serverVars, vars, kernel
<1> QED
  BY <1>3, <1>6, <1>7, <1>8, <1>9 DEF ServerNext

\* What waits goes on waiting, as timely as it was; so does the event being
\* handled, if it is still being handled.
LEMMA BatchKept ==
  ASSUME BatchInv, watched' \subseteq Q!Events, KnownStay,
         UNCHANGED <<mEventList, mEventCount, mEventIndex, origin>>,
         \A k \in Waiting : Keeps(EventAt(k)),
         loop' = "handle" => loop = "handle" /\ UNCHANGED <<event, about>> /\ Keeps(event)
  PROVE  BatchInv'
<1>1. Waiting' = Waiting /\ \A k \in Waiting : EventAt(k)' = EventAt(k)
  BY DEF Waiting, EventAt
<1>2. Q!Events' = Q!Events
  BY DEF Q!Events, Q!Filters
<1>3. ASSUME NEW e \in Q!Events, NEW c, IsTimely(e, c), Keeps(e)
      PROVE  IsTimely(e, c)'
  BY <1>3, TimelyKept
<1>4. ASSUME NEW k \in Waiting
      PROVE  EventAt(k)' \in Q!Events' /\ IsTimely(EventAt(k), origin[k])'
  <2>1. PICK e, c : /\ e \in Q!Events /\ e = EventAt(k) /\ c = origin[k]
                    /\ IsTimely(e, c) /\ Keeps(e)
    BY <1>4 DEF BatchInv
  <2>2. EventAt(k)' = e /\ origin'[k] = c
    BY <1>1, <1>4, <2>1
  <2>3. IsTimely(e, c)'
    BY <1>3, <2>1
  <2> QED
    BY <1>2, <2>1, <2>2, <2>3 DEF IsTimely, IsReady, IsKnown
<1>5. ASSUME loop' = "handle"
      PROVE  /\ event' \in Q!Events' /\ IsTimely(event, about)'
             /\ \A k \in Waiting : EventAt(k)' # event'
  <2>1. PICK e, c : /\ e \in Q!Events /\ e = event /\ c = about
                    /\ IsTimely(e, c) /\ Keeps(e) /\ \A k \in Waiting : EventAt(k) # e
    BY <1>5 DEF BatchInv
  <2>2. event' = e /\ about' = c
    BY <1>5, <2>1
  <2>3. IsTimely(e, c)'
    BY <1>3, <2>1
  <2> QED
    BY <1>1, <1>2, <2>1, <2>2, <2>3 DEF IsTimely, IsReady, IsKnown
<1>6. \A j, k \in Waiting : EventAt(j)' = EventAt(k)' => j = k
  BY <1>1 DEF BatchInv
<1>7. /\ watched' \subseteq Q!Events'
      /\ mEventCount' \in 0 .. MAX_KEVENT_SIZE /\ mEventIndex' \in 0 .. mEventCount'
  BY <1>2 DEF BatchInv
<1> QED
  BY <1>1, <1>4, <1>5, <1>6, <1>7 DEF BatchInv

\* A scan reports what is active at that moment.
LEMMA BatchFetched ==
  ASSUME LoopInv, PollFetches
  PROVE  /\ BatchInv' /\ loop' = "poll"
         /\ \A k \in Waiting' : origin'[k] = owner'[EventAt(k)'.ident]
<1>1. PICK events \in Batches : /\ Q!Fetched(events)
                                /\ origin' = [i \in 1 .. Len(events) |-> owner[events[i].ident]]
  BY DEF PollFetches
<1>2. UNCHANGED <<vars, watched>> /\ loop' = "poll"
  BY DEF PollFetches
<1>3. PICK n \in 0 .. MAX_KEVENT_SIZE : events \in [1 .. n -> {e \in watched : IsActive(e)}]
  BY <1>1 DEF Batches
<1>4. n \in Nat /\ MAX_KEVENT_SIZE \in Nat /\ n <= MAX_KEVENT_SIZE
  BY <1>3, EventServerAssumption
<1>5. Len(events) = n /\ DOMAIN events = 1 .. n
  BY <1>3, <1>4
<1>6. \A i, j \in 1 .. n : events[i] = events[j] => i = j
  BY <1>1, <1>5 DEF Batches
<1>7. mEventCount' = n /\ mEventIndex' = 0
  BY <1>1, <1>5 DEF Q!Fetched
<1>8. Waiting' = 1 .. n
  BY <1>4, <1>7 DEF Waiting
<1>9. ASSUME NEW k \in 1 .. n
      PROVE  EventAt(k)' = events[k] /\ origin'[k] = owner[events[k].ident]
  <2>1. k - 1 \in Q!Slots /\ k - 1 < n /\ (k - 1) + 1 = k
    BY <1>4 DEF Q!Slots
  <2> QED
    BY <1>1, <1>5, <2>1 DEF Q!Fetched, EventAt
<1>10. ASSUME NEW k \in 1 .. n
       PROVE  events[k] \in Q!Events /\ IsTimely(events[k], owner[events[k].ident])
  <2>1. events[k] \in Q!Events /\ IsActive(events[k]) /\ events[k].ident \in Fds
    BY <1>3, <1>10, EventFields DEF LoopInv, BatchInv
  <2>2. IsConnected(events[k].ident) => events[k].ident # mServerSocket
    <3>1. phase = "listening" => mServerSocket \in Fds /\ owner[mServerSocket] = "server"
      BY DEF LoopInv, Ownership, ServerIsOpen
    <3>2. "server" \notin Conns
      BY NetworkAssumption DEF Nobody
    <3> QED BY <3>1, <3>2 DEF IsConnected, LoopInv
  <2>3. IsConnected(events[k].ident) => IsReady(events[k])
    BY <2>1, <2>2 DEF IsActive, IsReady
  <2>4. IsConnected(events[k].ident) => link[owner[events[k].ident]] = "open"
    BY <2>1 DEF LoopInv, Ownership, Sockets, ConnectedOnce, IsConnected
  <2> QED
    BY <2>1, <2>3, <2>4 DEF IsTimely, IsKnown, IsConnected
<1>11. watched' \subseteq Q!Events /\ n \in 0 .. MAX_KEVENT_SIZE /\ 0 \in 0 .. n
  BY <1>2, <1>4 DEF LoopInv, BatchInv
<1>12. ASSUME NEW k \in 1 .. n
       PROVE  EventAt(k)' \in Q!Events' /\ IsTimely(EventAt(k), origin[k])'
  BY <1>2, <1>9, <1>10 DEF IsTimely, IsKnown, IsReady, IsConnected, Readable, Writable, vars, kernel,
     Q!Events, Q!Filters
<1>13. \A j, k \in 1 .. n : EventAt(j)' = EventAt(k)' => j = k
  BY <1>6, <1>9
<1>14. \A k \in Waiting' : origin'[k] = owner'[EventAt(k)'.ident]
  BY <1>2, <1>8, <1>9 DEF vars, kernel
<1> QED
  BY <1>2, <1>7, <1>8, <1>11, <1>12, <1>13, <1>14 DEF BatchInv, Q!Events, Q!Filters

\* After a scan that failed no event waits.
LEMMA BatchFailed ==
  ASSUME BatchInv, PollFails
  PROVE  BatchInv' /\ Waiting' = {} /\ loop' = "poll"
<1>1. mEventCount' = 0 /\ mEventIndex' = 0
  BY DEF PollFails, Q!Poll_Fails
<1>2. loop' = "poll" /\ watched' = watched
  BY DEF PollFails
<1>3. Waiting' = {}
  BY <1>1 DEF Waiting
<1> QED
  BY <1>1, <1>2, <1>3, EventServerAssumption DEF BatchInv, Q!Events, Q!Filters

\* Poll hands out the first event that waits.
LEMMA HandedOut ==
  ASSUME BatchInv, PollHandsOut
  PROVE  /\ mEventIndex + 1 \in Waiting /\ Waiting' = Waiting \ {mEventIndex + 1}
         /\ event' = EventAt(mEventIndex + 1) /\ about' = origin[mEventIndex + 1]
         /\ mEventIndex' \in 0 .. mEventCount' /\ loop' = "handle"
         /\ \A k \in Waiting : EventAt(k)' = EventAt(k)
         /\ UNCHANGED <<vars, watched, mEventCount, origin>>
<1>1. /\ mEventCount # mEventIndex /\ event' = EventAt(mEventIndex + 1)
      /\ mEventIndex' = mEventIndex + 1 /\ about' = origin[mEventIndex + 1] /\ loop' = "handle"
      /\ UNCHANGED <<vars, watched, mEventList, mEventCount, origin>>
  <2>1. (mEventIndex + 1) - 1 = mEventIndex
    BY EventServerAssumption DEF BatchInv
  <2>2. EventAt(mEventIndex + 1) = mEventList[mEventIndex]
    BY <2>1 DEF EventAt
  <2>3. /\ mEventCount # mEventIndex /\ event' = mEventList[mEventIndex]
        /\ mEventIndex' = mEventIndex + 1 /\ UNCHANGED <<mEventList, mEventCount>>
    BY DEF PollHandsOut, Q!HandOut
  <2>4. /\ about' = origin[mEventIndex + 1] /\ loop' = "handle"
        /\ UNCHANGED <<vars, watched, origin>>
    BY DEF PollHandsOut
  <2> QED BY <2>2, <2>3, <2>4
<1>2. mEventIndex \in Nat /\ mEventCount \in Nat /\ mEventIndex < mEventCount
  BY <1>1, EventServerAssumption DEF BatchInv
<1>3. /\ mEventIndex + 1 \in Waiting /\ Waiting' = Waiting \ {mEventIndex + 1}
      /\ mEventIndex' \in 0 .. mEventCount'
  BY <1>1, <1>2 DEF Waiting
<1>4. \A k \in Waiting : EventAt(k)' = EventAt(k)
  BY <1>1 DEF EventAt
<1> QED BY <1>1, <1>3, <1>4

LEMMA BatchHandedOut ==
  ASSUME BatchInv, PollHandsOut
  PROVE  BatchInv'
<1> DEFINE first == mEventIndex + 1
<1>1. /\ first \in Waiting /\ Waiting' = Waiting \ {first}
      /\ event' = EventAt(first) /\ about' = origin[first]
      /\ mEventIndex' \in 0 .. mEventCount'
      /\ \A k \in Waiting : EventAt(k)' = EventAt(k)
      /\ UNCHANGED <<vars, watched, mEventCount, origin>>
  BY HandedOut
<1> HIDE DEF first
<1>2. \A e, c : IsTimely(e, c) => IsTimely(e, c)'
  BY <1>1 DEF IsTimely, IsKnown, IsReady, IsConnected, Readable, Writable, vars, kernel
<1>3. \A k \in Waiting : EventAt(k) \in Q!Events /\ IsTimely(EventAt(k), origin[k])
  BY DEF BatchInv
<1>4. \A k \in Waiting' : EventAt(k)' \in Q!Events' /\ IsTimely(EventAt(k), origin[k])'
  <2> SUFFICES ASSUME NEW k \in Waiting'
               PROVE  EventAt(k)' \in Q!Events' /\ IsTimely(EventAt(k), origin[k])'
    OBVIOUS
  <2>1. PICK e, c : e = EventAt(k) /\ c = origin[k] /\ e \in Q!Events /\ IsTimely(e, c)
    BY <1>1, <1>3
  <2>2. EventAt(k)' = e /\ origin'[k] = c /\ IsTimely(e, c)'
    BY <1>1, <1>2, <2>1
  <2> QED BY <2>1, <2>2 DEF IsTimely, IsKnown, IsReady, Q!Events, Q!Filters
<1>5. event' \in Q!Events' /\ IsTimely(event, about)'
  <2>1. PICK e, c : e = EventAt(first) /\ c = origin[first] /\ e \in Q!Events /\ IsTimely(e, c)
    BY <1>1, <1>3
  <2>2. event' = e /\ about' = c /\ IsTimely(e, c)'
    BY <1>1, <1>2, <2>1
  <2> QED BY <2>1, <2>2 DEF IsTimely, IsKnown, IsReady, Q!Events, Q!Filters
<1>6. /\ \A k \in Waiting' : EventAt(k)' # event'
      /\ \A j, k \in Waiting' : EventAt(j)' = EventAt(k)' => j = k
  BY <1>1 DEF BatchInv
<1>7. watched' \subseteq Q!Events' /\ mEventCount' \in 0 .. MAX_KEVENT_SIZE
  BY <1>1 DEF BatchInv, Q!Events, Q!Filters
<1> QED BY <1>1, <1>4, <1>5, <1>6, <1>7 DEF BatchInv

\* A handled event concerns its own socket, and no event that waits is the same.
LEMMA BatchHandled ==
  ASSUME LoopInv, Handle, KnownStay, watched' \subseteq Q!Events
  PROVE  BatchInv'
<1>1. /\ event \in Q!Events /\ event.ident \in Fds
      /\ \A k \in Waiting : /\ EventAt(k) \in Q!Events /\ EventAt(k) # event
                            /\ EventAt(k).ident \in Fds
  BY EventFields DEF LoopInv, BatchInv, Handle, HandleServer, HandleRead, HandleWrite, HandleUnknown
<1>2. /\ loop' = "poll" /\ BatchInv /\ TypeOK /\ Ownership
      /\ UNCHANGED <<mEventList, mEventCount, mEventIndex, origin>>
  BY DEF Handle, HandleServer, HandleRead, HandleWrite, HandleUnknown, queue, LoopInv
<1>3. ASSUME NEW k \in Waiting PROVE Keeps(EventAt(k))
  <2> DEFINE f == EventAt(k).ident
  <2>1. CASE HandleServer \/ HandleUnknown
    BY <2>1 DEF HandleServer, HandleUnknown, vars, kernel, Keeps, KeepsReading, KeepsWriting,
       IsConnected, Readable, Writable
  <2>2. CASE HandleRead
    <3>1. RecvFromClient(event.ident) /\ event.filter = "read"
      BY <2>2 DEF HandleRead, Q!IsReadType
    <3>2. KeepsWriting(f) /\ (f # event.ident => KeepsReading(f))
      BY <1>1, <1>2, <3>1, RecvKeeps
    <3>3. f = event.ident => EventAt(k).filter # "read"
      BY <1>1, <3>1, SameEvent
    <3> QED
      BY <3>2, <3>3 DEF Keeps
  <2>3. CASE HandleWrite
    <3>1. SendToClient(event.ident) /\ event.filter = "write"
      BY <2>3 DEF HandleWrite, Q!IsWriteType
    <3>2. KeepsReading(f) /\ (f # event.ident => KeepsWriting(f))
      BY <1>1, <1>2, <3>1, SendKeeps
    <3>3. f = event.ident => EventAt(k).filter # "write"
      BY <1>1, <3>1, SameEvent
    <3> QED
      BY <3>2, <3>3 DEF Keeps
  <2> QED
    BY <2>1, <2>2, <2>3 DEF Handle
<1> QED
  BY <1>2, <1>3, BatchKept

\* No step of the loop makes an event untimely.
LEMMA BatchNext ==
  ASSUME LoopInv, [ServerNext]_serverVars
  PROVE  BatchInv'
<1>1. BatchInv /\ TypeOK
  BY DEF LoopInv
<1>2. watched' \subseteq Q!Events
  <2>1. CASE \E filters \in Successes : Registration(filters)
    BY <1>1, <2>1, RegistrationType
  <2>2. CASE watched' = watched
    BY <1>1, <2>2 DEF BatchInv
  <2>3. {} \in Successes
    BY DEF Successes
  <2> QED
    BY <2>1, <2>2, <2>3 DEF ServerNext, PollFetches, PollFails, PollHandsOut, Accept, Refuse, Handle,
       HandleServer, HandleRead, HandleWrite, HandleUnknown, Decide, Outside, serverVars
<1>3. \A k \in Waiting : EventAt(k) \in Q!Events /\ EventAt(k).ident \in Fds
  BY <1>1, EventFields DEF BatchInv
<1>4. loop = "handle" => event.ident \in Fds
  BY <1>1, EventFields DEF BatchInv
<1>5. KnownStay
  BY <1>1, KnownOnes
<1>6. ASSUME \A f \in Fds : KeepsReading(f) /\ KeepsWriting(f)
      PROVE  (\A k \in Waiting : Keeps(EventAt(k))) /\ (loop = "handle" => Keeps(event))
  BY <1>3, <1>4, <1>6 DEF Keeps
<1>7. CASE PollFetches
  BY <1>7, BatchFetched
<1>8. CASE PollHandsOut
  BY <1>1, <1>8, BatchHandedOut
<1>9. CASE Accept
  <2>1. \A f \in Fds : KeepsReading(f) /\ KeepsWriting(f)
    <3>1. CASE ConnectNewClient
      BY <1>1, <3>1, AcceptKeeps
    <3>2. CASE UNCHANGED vars
      BY <3>2 DEF vars, kernel, KeepsReading, KeepsWriting, IsConnected, Readable, Writable
    <3> QED BY <1>9, <3>1, <3>2 DEF Accept
  <2> QED
    BY <1>1, <1>2, <1>5, <1>6, <1>9, <2>1, BatchKept DEF Accept, queue
<1>10. CASE Handle
  BY <1>2, <1>5, <1>10, BatchHandled
<1>11. CASE Decide \/ Refuse
  <2>1. \A f \in Fds : KeepsReading(f) /\ KeepsWriting(f)
    BY <1>1, <1>11, DecideKeeps
  <2> QED
    BY <1>1, <1>2, <1>5, <1>6, <1>11, <2>1, BatchKept DEF Decide, Refuse, queue, program
<1>12. CASE Outside
  <2>1. \A f \in Fds : KeepsReading(f) /\ KeepsWriting(f)
    BY <1>1, <1>12, ClientsKeep DEF Outside
  <2> QED
    BY <1>1, <1>2, <1>5, <1>6, <1>12, <2>1, BatchKept DEF Outside, queue, program
<1>13. CASE UNCHANGED serverVars
  <2>1. \A f \in Fds : KeepsReading(f) /\ KeepsWriting(f)
    BY <1>13 DEF serverVars, vars, kernel, KeepsReading, KeepsWriting, IsConnected, Readable, Writable
  <2> QED
    BY <1>1, <1>2, <1>5, <1>6, <1>13, <2>1, BatchKept DEF serverVars, queue, program
<1>14. CASE PollFails
  BY <1>1, <1>14, BatchFailed
<1> QED
  BY <1>7, <1>8, <1>9, <1>10, <1>11, <1>12, <1>13, <1>14 DEF ServerNext

\* Between two accepts a socket stays with its connection until it is closed.
LEMMA OwnersStay ==
  ASSUME TypeOK, Refuse \/ Handle \/ Decide \/ Outside \/ UNCHANGED serverVars, NEW f \in Fds,
         owner'[f] \in Conns
  PROVE  owner'[f] = owner[f]
<1>1. CASE UNCHANGED owner
  BY <1>1
<1>2. ASSUME NEW s, CloseFd(s) PROVE owner'[f] = owner[f]
  BY <1>2, NetworkAssumption DEF CloseFd, TypeOK, Nobody
<1>3. ASSUME NEW s, RecvFromClient(s) PROVE owner'[f] = owner[f]
  BY <1>1, <1>2, <1>3 DEF RecvFromClient, Recv_Ignored, Recv_Data, Recv_Fails, Drop, Remove, kernel
<1>4. ASSUME NEW s, SendToClient(s) PROVE owner'[f] = owner[f]
  BY <1>1, <1>2, <1>4 DEF SendToClient, Send_Idle, Send_Some, Send_Farewell, Send_Fails, Drop,
     Remove, kernel
<1>5. CASE Handle
  BY <1>1, <1>3, <1>4, <1>5 DEF Handle, HandleServer, HandleRead, HandleWrite, HandleUnknown, vars, kernel
<1>6. CASE Decide \/ Refuse
  BY <1>1, <1>2, <1>6 DEF Decide, Refuse, DisconnectClient, ReserveDisconnectClient, PushToSendBuffer,
     Drop, Remove, kernel
<1>7. CASE Outside \/ UNCHANGED serverVars
  BY <1>1, <1>7 DEF Outside, Clients, ClientConnects, ClientSends, ClientLeaves, KernelDrains,
     serverVars, vars, kernel
<1> QED BY <1>5, <1>6, <1>7

\* In a loop that defers its accepts no socket that an event is about goes to
\* another connection.
LEMMA NoneReplacedNext ==
  ASSUME DeferAccept, LoopInv, NoneReplaced, [ServerNext]_serverVars
  PROVE  NoneReplaced'
<1>1. BatchInv /\ TypeOK
  BY DEF LoopInv
<1>2. CASE PollFetches
  BY <1>2, BatchFetched DEF NoneReplaced, IsFor
<1>3. CASE PollHandsOut
  <2> DEFINE first == mEventIndex + 1
  <2>1. /\ first \in Waiting /\ Waiting' = Waiting \ {first}
        /\ event' = EventAt(first) /\ about' = origin[first]
        /\ \A k \in Waiting : EventAt(k)' = EventAt(k)
        /\ UNCHANGED <<owner, origin>>
    BY <1>1, <1>3, HandedOut DEF vars, kernel
  <2> HIDE DEF first
  <2> QED BY <2>1 DEF NoneReplaced, IsFor, IsConnected
<1>4. CASE Accept
  <2>1. mEventCount = mEventIndex /\ mEventCount \in Nat /\ UNCHANGED <<mEventCount, mEventIndex>>
    BY <1>1, <1>4, EventServerAssumption DEF Accept, AcceptsNow, BetweenBatches, BatchInv, queue
  <2>2. Waiting' = {} /\ loop' # "handle"
    BY <1>4, <2>1 DEF Waiting, Accept
  <2> QED
    BY <2>2 DEF NoneReplaced
<1>5. CASE Refuse \/ Handle \/ Decide \/ Outside \/ UNCHANGED serverVars
  <2>1. /\ UNCHANGED <<mEventList, mEventCount, mEventIndex, origin>>
        /\ loop' = "handle" => loop = "handle" /\ UNCHANGED <<event, about>>
    BY <1>5 DEF Refuse, Handle, HandleServer, HandleRead, HandleWrite, HandleUnknown, Decide, Outside,
       queue, program, serverVars
  <2>2. Waiting' = Waiting /\ \A k \in Waiting : EventAt(k)' = EventAt(k)
    BY <2>1 DEF Waiting, EventAt
  <2>3. ASSUME NEW e \in Q!Events, NEW c, IsFor(e, c), owner'[e.ident] \in Conns
        PROVE  c = owner'[e.ident]
    BY <1>1, <1>5, <2>3, OwnersStay, EventFields DEF IsFor, IsConnected
  <2>4. ASSUME NEW k \in Waiting', owner'[EventAt(k)'.ident] \in Conns
        PROVE  origin'[k] = owner'[EventAt(k)'.ident]
    BY <1>1, <2>1, <2>2, <2>3, <2>4 DEF BatchInv, NoneReplaced
  <2>5. ASSUME loop' = "handle", owner'[event'.ident] \in Conns
        PROVE  about' = owner'[event'.ident]
    BY <1>1, <2>1, <2>3, <2>5 DEF BatchInv, NoneReplaced
  <2> QED BY <2>4, <2>5 DEF NoneReplaced, IsFor, IsConnected
<1>6. CASE PollFails
  BY <1>1, <1>6, BatchFailed DEF NoneReplaced
<1> QED
  BY <1>2, <1>3, <1>4, <1>5, <1>6 DEF ServerNext

LEMMA LoopInit == ServerInit => DeferredInv
<1> SUFFICES ASSUME ServerInit PROVE DeferredInv
  OBVIOUS
<1>1. <<>> \in Seq(Bytes)
  BY EmptySeq
<1>2. TypeOK
  BY <1>1, NetworkAssumption DEF ServerInit, TypeOK, Phases, Nobody, LinkStates, PeerStates, Endings
<1>3. \A f \in Fds : ~IsConnected(f) /\ ~HasSession(f)
  BY NetworkAssumption DEF ServerInit, IsConnected, HasSession, Nobody
<1>4. Ownership
  BY <1>3 DEF ServerInit, Ownership, Sockets, SessionsOnlyWhenListening, ConnectedOnce,
     SocketsHaveTheirSessions, PhantomsHoldNothing, NoneBelievedBefore, ServerIsOpen,
     SessionsOwnTheirSockets
<1>5. BatchInv /\ NoneReplaced
  <2>1. Q!Of(mServerSocket, "read") \in Q!Events
    BY DEF ServerInit, Q!Of, Q!Events, Q!Filters
  <2>2. mEventCount = 0 /\ mEventIndex = 0 /\ loop = "poll" /\ Waiting = {}
    BY DEF ServerInit, Waiting
  <2> QED
    BY <2>1, <2>2, EventServerAssumption DEF ServerInit, BatchInv, NoneReplaced
<1> QED
  BY <1>2, <1>4, <1>5 DEF ServerInit, LoopInv, DeferredInv

LEMMA LoopNext == CheckSession /\ LoopInv /\ [ServerNext]_serverVars => LoopInv'
<1> SUFFICES ASSUME CheckSession, LoopInv, [ServerNext]_serverVars PROVE LoopInv'
  OBVIOUS
<1>1. TypeOK' /\ Ownership'
  BY ServerStep, TypeNext, OwnershipNext DEF LoopInv
<1>2. phase' = phase
  BY DEF ServerNext, PollFetches, PollFails, PollHandsOut, Accept, Refuse, ConnectNewClient, Handle, HandleServer,
     HandleRead, RecvFromClient, HandleWrite, SendToClient, HandleUnknown, Decide, DisconnectClient,
     ReserveDisconnectClient, PushToSendBuffer, Outside, Clients, ClientConnects, ClientSends,
     ClientLeaves, KernelDrains, serverVars, vars, object
<1> QED
  BY <1>1, <1>2, BatchNext DEF LoopInv

\* The inductive invariants of a loop and of one that defers its accepts.
LEMMA LoopHolds == CheckSession => (ServerSpec => []LoopInv)
<1> SUFFICES ASSUME CheckSession PROVE ServerSpec => []LoopInv
  OBVIOUS
<1>1. LoopInv /\ [ServerNext]_serverVars => LoopInv'
  BY LoopNext
<1>2. ServerInit => LoopInv
  BY LoopInit DEF DeferredInv
<1> QED
  BY <1>1, <1>2, PTL DEF ServerSpec

LEMMA DeferredHolds == CheckSession /\ DeferAccept => (ServerSpec => []DeferredInv)
<1> SUFFICES ASSUME CheckSession, DeferAccept PROVE ServerSpec => []DeferredInv
  OBVIOUS
<1>1. DeferredInv /\ [ServerNext]_serverVars => DeferredInv'
  BY LoopNext, NoneReplacedNext DEF DeferredInv
<1> QED
  BY <1>1, LoopInit, PTL DEF ServerSpec
-----------------------------------------------------------------------------
(* What follows from them.                                                 *)

\* An event that is handled is about the connection that has its socket, for a
\* loop that calls ConnectNewClient only between two batches: no client is read,
\* written or dropped for an event of a client that had its number before.
THEOREM EventIsAboutSocketCorrect ==
  CheckSession /\ DeferAccept => (ServerSpec => []EventIsAboutSocket)
<1>1. DeferredInv => EventIsAboutSocket
  BY EventFields DEF DeferredInv, LoopInv, BatchInv, NoneReplaced, Ownership, SessionsOwnTheirSockets,
     IsFor, IsConnected, EventIsAboutSocket
<1> QED
  BY <1>1, DeferredHolds, PTL

\* RecvFromClient and SendToClient are called on ready sockets only, however
\* late in its batch an event is handled.
THEOREM ReadyWhenHandledCorrect ==
  CheckSession /\ DeferAccept => (ServerSpec => []ReadyWhenHandled)
<1>1. DeferredInv => ReadyWhenHandled
  BY EventFields DEF DeferredInv, LoopInv, BatchInv, NoneReplaced, Ownership, SessionsOwnTheirSockets,
     IsFor, IsTimely, IsReady, IsConnected, IsActive, ReadyWhenHandled
<1> QED
  BY <1>1, DeferredHolds, PTL

\* A loop that accepts at any time may lose a client that is still there, but
\* only to an event of another connection that had the socket before it: never
\* to one of its own, however old.
THEOREM LossIsForAnOldEventCorrect == CheckSession => (ServerSpec => LossIsForAnOldEvent)
<1> SUFFICES ASSUME CheckSession PROVE ServerSpec => LossIsForAnOldEvent
  OBVIOUS
<1>1. LoopInv /\ [ServerNext]_serverVars =>
        [\A c \in Conns :
           ended[c] # "lost" /\ ended'[c] = "lost" /\ peer[c] = "up" => about # c]_serverVars
  <2> SUFFICES ASSUME LoopInv, [ServerNext]_serverVars, NEW c \in Conns,
                      ended[c] # "lost", ended'[c] = "lost", peer[c] = "up", about = c
               PROVE  FALSE
    OBVIOUS
  <2>1. ended' # ended
    OBVIOUS
  <2>2. ASSUME NEW s, NEW why, Remove(s, why) PROVE owner[s] = c /\ why = "lost"
    BY <2>2 DEF Remove
  <2>3. ASSUME loop = "handle", owner[event.ident] = c
        PROVE  event.ident \in Fds /\ IsReady(event) /\ TypeOK
    BY <2>3, EventFields DEF LoopInv, BatchInv, IsTimely
  <2>4. CASE HandleRead
    <3>1. Recv_Fails(event.ident) /\ event.filter = "read" /\ loop = "handle"
      BY <2>1, <2>4 DEF HandleRead, Q!IsReadType, RecvFromClient, Recv_Ignored, Recv_Data
    <3>2. owner[event.ident] = c
      BY <2>2, <3>1 DEF Recv_Fails, Drop
    <3>3. Readable(event.ident)
      BY <2>3, <3>1, <3>2 DEF IsReady
    <3> QED
      BY <3>1, <3>2, <3>3 DEF Recv_Fails, Readable
  <2>5. CASE HandleWrite
    <3>1. event.filter = "write" /\ loop = "handle"
      BY <2>5 DEF HandleWrite, Q!IsWriteType
    <3>2. Send_Fails(event.ident) /\ owner[event.ident] = c
      <4>1. ~Send_Farewell(event.ident)
        BY <2>2 DEF Send_Farewell
      <4>2. Send_Fails(event.ident)
        BY <2>1, <2>5, <4>1 DEF HandleWrite, SendToClient, Send_Idle, Send_Some
      <4> QED BY <2>2, <4>2 DEF Send_Fails, Drop
    <3>3. Writable(event.ident) /\ event.ident \in Fds /\ TypeOK
      BY <2>3, <3>1, <3>2 DEF IsReady
    <3> QED
      BY <3>2, <3>3, ReadySendFails
  <2>6. CASE Decide \/ Refuse
    <3>1. ~\E s \in Fds : DisconnectClient(s)
      BY <2>2 DEF DisconnectClient, Drop
    <3> QED BY <2>1, <2>6, <3>1 DEF Decide, Refuse, ReserveDisconnectClient, PushToSendBuffer, history
  <2>7. CASE Accept \/ Outside
    BY <2>1, <2>7 DEF Accept, ConnectNewClient, Outside, Clients, ClientConnects, ClientSends,
       ClientLeaves, KernelDrains, history, vars
  <2> QED
    BY <2>1, <2>4, <2>5, <2>6, <2>7 DEF ServerNext, Handle, HandleServer, HandleUnknown,
       PollFetches, PollFails, PollHandsOut, serverVars, vars, history
<1> QED
  BY <1>1, LoopHolds, PTL DEF ServerSpec, LossIsForAnOldEvent

\* The calls that the loop makes for an event are made on ready sockets, and
\* its other steps are steps of Network without a recv or a send.
LEMMA LoopCallsReady ==
  ASSUME CheckSession, DeferredInv, [ServerNext]_serverVars
  PROVE  \/ OtherStep
         \/ \E s \in Fds : RecvFromClient(s) /\ Readable(s)
         \/ \E s \in Fds : SendToClient(s) /\ Writable(s)
<1>1. ASSUME loop = "handle", MayCall(event.ident)
      PROVE  event.ident \in Fds /\ IsReady(event)
  <2>1. event.ident \in Fds /\ IsTimely(event, about) /\ IsFor(event, about)
    BY <1>1, EventFields DEF DeferredInv, LoopInv, BatchInv, NoneReplaced
  <2>2. IsConnected(event.ident)
    BY <1>1, <2>1 DEF DeferredInv, LoopInv, MayCall, Ownership, SessionsOwnTheirSockets, IsConnected
  <2> QED
    BY <2>1, <2>2 DEF IsTimely, IsFor, IsConnected
<1>2. CASE HandleRead
  <2>1. RecvFromClient(event.ident) /\ event.filter = "read" /\ loop = "handle"
    BY <1>2 DEF HandleRead, Q!IsReadType
  <2>2. event.ident \in Fds /\ IsReady(event)
    BY <1>1, <2>1 DEF RecvFromClient
  <2> QED
    BY <2>1, <2>2 DEF IsReady
<1>3. CASE HandleWrite
  <2>1. SendToClient(event.ident) /\ event.filter = "write" /\ loop = "handle"
    BY <1>3 DEF HandleWrite, Q!IsWriteType
  <2>2. event.ident \in Fds /\ IsReady(event)
    BY <1>1, <2>1 DEF SendToClient
  <2> QED
    BY <2>1, <2>2 DEF IsReady
<1>4. CASE HandleServer \/ HandleUnknown
  BY <1>4 DEF HandleServer, HandleUnknown, OtherStep
<1>5. CASE Accept \/ Refuse \/ Decide \/ Outside
  BY <1>5 DEF Accept, Refuse, Decide, Outside, OtherStep, OtherCall
<1>6. CASE PollFetches \/ PollFails \/ PollHandsOut \/ UNCHANGED serverVars
  BY <1>6 DEF PollFetches, PollFails, PollHandsOut, serverVars, OtherStep
<1> QED
  BY <1>2, <1>3, <1>4, <1>5, <1>6 DEF ServerNext, Handle

\* Such a loop loses no client that is still there, though the application
\* itself never asks whether a socket is ready.
THEOREM ServedClientsStay ==
  CheckSession /\ DeferAccept => (ServerSpec => []LostOnlyAfterClientLeft)
<1> SUFFICES ASSUME CheckSession, DeferAccept PROVE ServerSpec => []LostOnlyAfterClientLeft
  OBVIOUS
<1>1. ServerInit => LostOnlyAfterClientLeft
  BY DEF ServerInit, LostOnlyAfterClientLeft
<1>2. DeferredInv /\ LostOnlyAfterClientLeft /\ [ServerNext]_serverVars => LostOnlyAfterClientLeft'
  <2> SUFFICES ASSUME DeferredInv, LostOnlyAfterClientLeft, [ServerNext]_serverVars
               PROVE  LostOnlyAfterClientLeft'
    OBVIOUS
  <2>1. TypeOK
    BY DEF DeferredInv, LoopInv
  <2> QED
    BY <2>1, LoopCallsReady, OtherStepLosesNobody, ReadyRecvLosesNobody, ReadySendLosesNobody
<1> QED
  BY <1>1, <1>2, DeferredHolds, PTL DEF ServerSpec

\* And its reserved disconnections lose nothing, where no zero byte is pushed.
THEOREM ServedReservationsSendAll ==
  CheckSession /\ DeferAccept /\ Nul \notin Bytes => (ServerSpec => ReservedSendsAll)
<1> SUFFICES ASSUME CheckSession, DeferAccept, Nul \notin Bytes PROVE ServerSpec => ReservedSendsAll
  OBVIOUS
<1>1. ServerInit => SendingInv
  <2> SUFFICES ASSUME ServerInit PROVE SendingInv
    OBVIOUS
  <2>1. SendWindowInBuffer /\ Sending /\ DoneIsEmpty
    BY DEF ServerInit, SendWindowInBuffer, Sending, SendIntegrity, NothingSentBefore, DoneIsEmpty,
       HasSession
  <2> QED
    BY <2>1, LoopInit DEF DeferredInv, LoopInv, SendingInv
<1>2. DeferredInv /\ SendingInv /\ [ServerNext]_serverVars => SendingInv'
  BY ServerStep, SendingInvNext DEF DeferredInv, LoopInv
<1>3. DeferredInv /\ SendingInv /\ [ServerNext]_serverVars => AllSent
  <2> SUFFICES ASSUME DeferredInv, SendingInv, [ServerNext]_serverVars PROVE AllSent
    OBVIOUS
  <2>1. TypeOK
    BY DEF DeferredInv, LoopInv
  <2> QED
    BY <2>1, LoopCallsReady, OtherStepEndsNone, RecvEndsNone, ReadySendEndsEmpty
<1>4. AllSent =>
        [\A s \in Fds :
           /\ HasSession(s) /\ mSessions[s].isReservedDisconnect
           /\ mSessions'[s] = NoSession /\ phase' # "destroyed"
           /\ ended'[owner[s]] # "asked" /\ peer[owner[s]] # "reset"
           => sent[owner[s]] = pushed[owner[s]]]_vars
  BY DEF AllSent, EndsReserved
<1> QED
  BY <1>1, <1>2, <1>3, <1>4, DeferredHolds, PTL DEF ServerSpec, ReservedSendsAll

\* The loop keeps what ByteChannel promises for every client, where no zero byte
\* travels, whether the batches hold one event or many and whenever it accepts.
THEOREM ServedChannels ==
  CheckSession /\ Nul \notin Bytes => (ServerSpec => ImplementsChannel)
<1> SUFFICES ASSUME CheckSession, Nul \notin Bytes
             PROVE  ServerSpec => ImplementsChannel
  OBVIOUS
<1>1. ServerInit => ChannelInv
  <2> SUFFICES ASSUME ServerInit PROVE ChannelInv
    OBVIOUS
  <2>1. SendWindowInBuffer /\ Sending /\ DoneIsEmpty
    BY DEF ServerInit, SendWindowInBuffer, Sending, SendIntegrity, NothingSentBefore, DoneIsEmpty,
       HasSession
  <2>2. Receiving /\ EndedIsClosed
    BY DEF ServerInit, Receiving, RecvIntegrity, NothingTakenBefore, HasSession, EndedIsClosed
  <2> QED
    BY <2>1, <2>2, LoopInit DEF DeferredInv, LoopInv, SendingInv, ChannelInv
<1>2. ServerInit => Channel!Init
  BY DEF ServerInit, Channel!Init
<1>3. LoopInv /\ [ServerNext]_serverVars => [Next]_vars
  BY ServerStep DEF LoopInv
<1>4. ChannelInv /\ [Next]_vars => ChannelInv'
  BY ChannelInvNext
<1>5. ChannelInv /\ ChannelInv' /\ [Next]_vars => [Channel!Next]_(Channel!channelVars)
  BY ChannelStep
<1> QED
  BY <1>1, <1>2, <1>3, <1>4, <1>5, LoopHolds, PTL DEF ServerSpec, ImplementsChannel, Channel!Spec
=============================================================================
