---------------------------- MODULE EventServer ----------------------------
(***************************************************************************)
(* A server built from the library: one thread that polls a KernelQueue    *)
(* and hands each event to a Network.  The loop is the application's, so   *)
(* it is external: a READ event on the server socket is followed by        *)
(* ConnectNewClient and the registration of the new socket, a READ event   *)
(* on another socket by RecvFromClient, a WRITE event by SendToClient.     *)
(*                                                                         *)
(* An event of a batch may be handled long after it was reported.  Until   *)
(* then earlier events of the batch may close its socket, and a new client *)
(* may get the same number.                                                *)
(***************************************************************************)
EXTENDS Network

CONSTANTS
  MAX_KEVENT_SIZE, NoList, Zeroed, Kqueue,
  DeferAccept      (* the loop accepts clients only between two batches    *)

VARIABLES
  mKqueue, mEventList, mEventCount, mEventIndex, event, polled, alive, watched,
  loop,            (* the loop polls, handles the event it was given, or   *)
                   (* refuses the client it could not register             *)
  acceptDue,       (* the server socket was reported ready                 *)
  origin,          (* history: whose socket each event of the batch was on *)
  about            (* history: the same for the event being handled        *)

ASSUME EventServerAssumption ==
  /\ MAX_KEVENT_SIZE \in Nat \ {0}
  /\ DeferAccept \in BOOLEAN

\* The array of the batch is looked at through the cursor, and the kernel's
\* list of active events is what the sockets are at that moment.
Q == INSTANCE KernelQueue
       WITH open <- {f \in Fds : owner[f] # "free"}, active <- <<>>, reported <- <<>>,
            Timeouts <- {5}, StartTimeout <- 5, mTimeout <- 5

queue      == <<mKqueue, mEventList, mEventCount, mEventIndex, event, polled, alive>>
program    == <<loop, acceptDue, origin, about>>
serverVars == <<vars, queue, watched, program>>

IsServer(e) == Q!IdentifyFD(e, mServerSocket)

\* What the kernel reports as ready.
IsActive(e) ==
  \/ e.ident = mServerSocket /\ e.filter = "read" /\ \E c \in Conns : link[c] = "queued"
  \/ e.filter = "read" /\ Readable(e.ident)
  \/ e.filter = "write" /\ Writable(e.ident)

\* The batches one scan may return: active events, each once, in the order they
\* became active, which may be any; all of them unless the list is full.
Batches ==
  LET ready == {e \in watched : IsActive(e)}
  IN  {events \in UNION {[1 .. n -> ready] : n \in 0 .. MAX_KEVENT_SIZE} :
         /\ \A i, j \in DOMAIN events : events[i] = events[j] => i = j
         /\ Len(events) < MAX_KEVENT_SIZE => \A e \in ready : \E i \in DOMAIN events : events[i] = e}

\* A descriptor that is closed leaves the kqueue, one that is accepted is added
\* to it with those filters for which AddReadEvent, then AddWriteEvent, succeed.
Accepted == {s \in Fds : owner[s] = "free" /\ owner'[s] \in Conns}
Successes == {{}, {"read"}, Q!Filters}
Registration(filters) ==
  watched' = {e \in watched : owner'[e.ident] # "free"}
             \cup {Q!Of(s, filter) : s \in Accepted, filter \in filters}
-----------------------------------------------------------------------------
BetweenBatches == mEventCount = mEventIndex
AcceptsNow     == acceptDue /\ (DeferAccept => BetweenBatches)

PollFetches ==
  /\ loop = "poll" /\ ~AcceptsNow
  /\ \E events \in Batches :
       /\ Q!Fetched(events)
       /\ origin' = [i \in 1 .. Len(events) |-> owner[events[i].ident]]
  /\ UNCHANGED <<vars, mKqueue, event, alive, watched, loop, acceptDue, about>>

\* kevent() fails, and the next call of Poll scans again.
PollFails ==
  /\ loop = "poll" /\ ~AcceptsNow
  /\ UNCHANGED <<vars, watched, loop, acceptDue, about>>
  /\ Q!Poll_Fails
  /\ origin' = <<>>

PollHandsOut ==
  /\ loop = "poll" /\ ~AcceptsNow
  /\ Q!HandOut
  /\ about' = origin[mEventIndex + 1]
  /\ loop' = "handle"
  /\ UNCHANGED <<vars, watched, acceptDue, origin>>

\* accept() until a client is in or accept() has none to give.  The client is
\* registered, or not if kevent() fails.
Accept ==
  /\ loop = "poll" /\ AcceptsNow
  /\ \/ ConnectNewClient
     \/ (FreeFds = {} \/ \A c \in Conns : link[c] # "queued") /\ UNCHANGED vars
  /\ acceptDue' = FALSE
  /\ \E filters \in Successes :
       /\ Registration(filters)
       /\ loop' = IF Accepted = {} \/ filters = Q!Filters THEN "poll" ELSE "refuse"
  /\ UNCHANGED <<queue, origin, about>>

\* AddReadEvent or AddWriteEvent has returned FAILURE: the application gives the
\* client up, which it would not hear of again.
Refuse ==
  /\ loop = "refuse"
  /\ \E s \in Fds :
       /\ IsConnected(s) /\ \E filter \in Q!Filters : Q!Of(s, filter) \notin watched
       /\ DisconnectClient(s)
  /\ loop' = "poll"
  /\ Registration({})
  /\ UNCHANGED <<queue, acceptDue, origin, about>>

HandleServer ==
  /\ loop = "handle" /\ IsServer(event)
  /\ acceptDue' = TRUE
  /\ loop' = "poll"
  /\ UNCHANGED <<vars, queue, watched, origin, about>>

HandleRead ==
  /\ loop = "handle" /\ Q!IsReadType(event)
  /\ RecvFromClient(event.ident)
  /\ loop' = "poll"
  /\ Registration({})
  /\ UNCHANGED <<queue, acceptDue, origin, about>>

HandleWrite ==
  /\ loop = "handle" /\ Q!IsWriteType(event)
  /\ SendToClient(event.ident)
  /\ loop' = "poll"
  /\ Registration({})
  /\ UNCHANGED <<queue, acceptDue, origin, about>>

\* The application knows that it has no such client any more.
HandleUnknown ==
  /\ loop = "handle" /\ ~IsServer(event)
  /\ ~MayCall(event.ident)
  /\ loop' = "poll"
  /\ UNCHANGED <<vars, queue, watched, acceptDue, origin, about>>

Handle == HandleServer \/ HandleRead \/ HandleWrite \/ HandleUnknown

\* What the application does with its clients besides.
Decide ==
  /\ loop = "poll"
  /\ \E s \in Fds :
       \/ DisconnectClient(s)
       \/ ReserveDisconnectClient(s)
       \/ \E buf \in Messages : PushToSendBuffer(s, buf)
  /\ Registration({})
  /\ UNCHANGED <<queue, program>>

Outside == Clients /\ UNCHANGED <<queue, watched, program>>
-----------------------------------------------------------------------------
\* The queue and the network are initialised, the server socket is watched.
ServerInit ==
  /\ phase = "listening"
  /\ mServerSocket \in Fds
  /\ owner = [f \in Fds |-> IF f = mServerSocket THEN "server" ELSE "free"]
  /\ watched = {Q!Of(mServerSocket, "read")}
  /\ mSessions = [s \in Fds |-> NoSession]
  /\ believed = [s \in Fds |-> NoConn]
  /\ link = [c \in Conns |-> "idle"] /\ peer = [c \in Conns |-> "up"]
  /\ inbound = [c \in Conns |-> <<>>] /\ queued = [c \in Conns |-> 0]
  /\ pushed = [c \in Conns |-> <<>>] /\ sent = [c \in Conns |-> <<>>]
  /\ peerSent = [c \in Conns |-> <<>>] /\ taken = [c \in Conns |-> <<>>]
  /\ ended = [c \in Conns |-> "no"]
  /\ mKqueue = Kqueue /\ alive = TRUE
  /\ mEventList = [i \in Q!Slots |-> Zeroed]
  /\ mEventCount = 0 /\ mEventIndex = 0
  /\ event = Zeroed /\ polled = FALSE
  /\ loop = "poll" /\ acceptDue = FALSE /\ origin = <<>> /\ about = "free"

ServerNext ==
  PollFetches \/ PollFails \/ PollHandsOut \/ Accept \/ Refuse \/ Handle \/ Decide \/ Outside

ServerSpec == ServerInit /\ [][ServerNext]_serverVars

\* The loop does not stop, kevent() does not fail for ever, and a connected
\* client keeps reading.
FairServerSpec ==
  /\ ServerSpec
  /\ WF_serverVars(PollFetches) /\ WF_serverVars(PollHandsOut)
  /\ WF_serverVars(Accept) /\ WF_serverVars(Refuse) /\ WF_serverVars(Handle)
  /\ \A c \in Conns : WF_serverVars(KernelDrains(c) /\ UNCHANGED <<queue, watched, program>>)
-----------------------------------------------------------------------------
(* Properties.                                                             *)

\* A live client loses its connection to a call of the loop only through an
\* event reported before the client was accepted, that is, about another
\* connection that had its socket number.
LossIsForAnOldEvent ==
  [][\A c \in Conns :
       ended[c] # "lost" /\ ended'[c] = "lost" /\ peer[c] = "up" => about # c]_serverVars

\* An event identifies a socket only if it is about the connection that has
\* the socket (IdentifySocket: is the socket connected with this event).
EventIsAboutSocket ==
  loop = "handle" /\ ~IsServer(event) /\ HasSession(event.ident)
    => about = owner[event.ident]

\* A socket reported ready is still ready when its event is handled, if it
\* still has its session: RecvFromClient and SendToClient, which take "not
\* ready" for a broken connection, are called on ready sockets only.
ReadyWhenHandled ==
  loop = "handle" /\ ~IsServer(event) /\ HasSession(event.ident) =>
    \/ mSessions[event.ident].isReservedDisconnect
    \/ IsActive(event)

\* What a client sent is read, unless it is being disconnected.
EverythingIsRead ==
  \A c \in Conns :
    link[c] = "open" /\ inbound[c] # <<>>
      ~> inbound[c] = <<>> \/ link[c] = "closed" \/ IsReserved(c)

\* A client that waits in the backlog is served or refused, unless the process
\* has no descriptor left for it.
BacklogIsServed ==
  \A c \in Conns : link[c] = "queued" ~> link[c] # "queued" \/ FreeFds = {}
=============================================================================
