------------------------------ MODULE Network ------------------------------
(***************************************************************************)
(* gdf::Network: the server socket, the table of sessions keyed by socket  *)
(* number, and the send and receive buffer of each session.                *)
(*                                                                         *)
(* The object is used by one thread, so a call is one step.  Between two   *)
(* calls the clients and the kernel move on their own.  The kernel part    *)
(* (descriptor table, backlog, socket buffers) and the application are     *)
(* external: they are modelled from the system calls the code makes and    *)
(* from what it does with their results.                                   *)
(***************************************************************************)
EXTENDS Integers, Sequences, FiniteSets

CONSTANTS
  Fds,             (* the descriptor numbers the process can get           *)
  Conns,           (* the TCP connections clients may open, each used once *)
  Bytes,           (* the bytes that travel                                *)
  Nul,             (* the byte '\0'; it travels only if it is in Bytes     *)
  Messages,        (* what the application may hand to PushToSendBuffer    *)
  EndStrings,      (* what it may hand to PullFromRecvBuffer               *)
  kRecvBufferSize, (* one recv() takes at most kRecvBufferSize - 1 bytes   *)
  SendRoom,        (* capacity of a socket's send buffer in the kernel     *)
  MaxPushed,       (* bound: bytes pushed for one connection               *)
  MaxPeerSent,     (* bound: bytes sent by one client                      *)
  CheckSession,    (* the application calls only on sockets with a session *)
  AwaitReady,      (* it calls recv and send only on sockets that are ready*)
  NoSession, NoConn, ERROR

VARIABLES
  phase,           (* the life of the Network object                       *)
  mServerSocket,
  mSessions,       (* the std::map: NoSession where there is no entry      *)
  owner,           (* kernel: whom each descriptor number belongs to       *)
  link,            (* kernel: where each connection is                     *)
  peer,            (* kernel: what it heard of the client's end            *)
  inbound,         (* kernel: received bytes recv() has not taken yet      *)
  queued,          (* kernel: number of bytes send() took, not yet gone    *)
  believed,        (* application: the connection it takes a socket for    *)
  pushed,          (* history: bytes pushed and not withdrawn              *)
  sent,            (* history: bytes send() took                           *)
  peerSent,        (* history: bytes the client sent                       *)
  taken,           (* history: bytes that left a receive buffer            *)
  ended            (* history: why a connection left its session           *)

object      == <<phase, mServerSocket, mSessions>>
descriptors == <<owner, link>>
kernel      == <<owner, link, peer, inbound, queued>>
history     == <<pushed, sent, peerSent, taken, ended>>
vars        == <<object, kernel, believed, history>>

Phases     == {"constructed", "listening", "failed", "destroyed"}
LinkStates == {"idle", "queued", "open", "closed", "stranded"}
PeerStates == {"up", "fin", "reset"}
Nobody     == {"free", "server", "other"}
Endings    == {"no", "asked", "farewell", "lost"}

\* struct Session.  The copy of the socket number is left out: the library
\* never reads it.  "addr" stands for the client the address belongs to.
Session == [addr : Conns \cup {NoConn}, recvBuffer : Seq(Bytes),
            sendBuffer : Seq(Bytes), sendBufferIndex : Nat,
            sendBufferRemain : BOOLEAN, isReservedDisconnect : BOOLEAN]

\* What mSessions[socket] inserts when there is no entry: a zeroed Session.
EmptySession == [addr |-> NoConn, recvBuffer |-> <<>>, sendBuffer |-> <<>>,
                 sendBufferIndex |-> 0, sendBufferRemain |-> FALSE,
                 isReservedDisconnect |-> FALSE]

ASSUME NetworkAssumption ==
  /\ NoConn \notin Conns \cup Nobody
  /\ Conns \cap Nobody = {}
  /\ NoSession \notin Session
  /\ ERROR \notin Fds
  /\ Messages \subseteq Seq(Bytes)
  /\ EndStrings \subseteq Seq(Bytes)
  /\ kRecvBufferSize \in Nat /\ kRecvBufferSize > 1
  /\ SendRoom \in Nat \ {0}
  /\ MaxPushed \in Nat /\ MaxPeerSent \in Nat
  /\ CheckSession \in BOOLEAN /\ AwaitReady \in BOOLEAN
-----------------------------------------------------------------------------
(* C strings.  The code measures both buffers with strlen and appends what *)
(* it received as a C string, so a zero byte ends the data.               *)

\* strlen: the number of non-empty prefixes without a zero byte.
StrLen(str) == Cardinality({n \in 1 .. Len(str) : \A i \in 1 .. n : str[i] # Nul})
CStr(str)   == SubSeq(str, 1, StrLen(str))

Least(m, n)   == IF m <= n THEN m ELSE n
First(str, n) == SubSeq(str, 1, n)
From(str, n)  == SubSeq(str, n + 1, Len(str))

\* std::string::find: the offsets where pat occurs in str.
Occurrences(str, pat) ==
  {p \in 0 .. Len(str) - Len(pat) : SubSeq(str, p + 1, p + Len(pat)) = pat}
-----------------------------------------------------------------------------
(* The table of sessions and the descriptor table.                         *)

HasSession(s) == mSessions[s] # NoSession
At(s)         == IF HasSession(s) THEN mSessions[s] ELSE EmptySession
Store(s, ses) == mSessions' = [mSessions EXCEPT ![s] = ses]
Unsent(ses)   == From(ses.sendBuffer, ses.sendBufferIndex)

FreeFds == {f \in Fds : owner[f] = "free"}

\* close(f): whatever f names now is gone.
CloseFd(f) ==
  /\ owner' = [owner EXCEPT ![f] = "free"]
  /\ link' = [c \in Conns |-> IF owner[f] = c THEN "closed" ELSE link[c]]

IsConnected(s) == owner[s] \in Conns
Readable(s) == IsConnected(s) /\ (inbound[owner[s]] # <<>> \/ peer[owner[s]] # "up")
Writable(s) == IsConnected(s) /\ (queued[owner[s]] < SendRoom \/ peer[owner[s]] = "reset")

\* The application works with the sockets it was given and was not told to
\* forget: a call that returned FAILURE, or its own DisconnectClient.
MayCall(s) ==
  /\ phase # "destroyed"
  /\ believed[s] # NoConn
  /\ CheckSession => HasSession(s)
-----------------------------------------------------------------------------
(* The life of the object.                                                 *)

\* Init(port).  socket() fails; or the socket is made but one of the options,
\* the host lookup, bind() or listen() fails, and the socket is closed while
\* mServerSocket keeps its number; or the server listens.
Init_SocketFails ==
  /\ mServerSocket' = ERROR
  /\ phase' = "failed"
  /\ UNCHANGED owner

Init_SetupFails(f) ==
  /\ mServerSocket' = f
  /\ phase' = "failed"
  /\ UNCHANGED owner

Init_Listens(f) ==
  /\ mServerSocket' = f
  /\ phase' = "listening"
  /\ owner' = [owner EXCEPT ![f] = "server"]

InitServer ==
  /\ phase \in {"constructed", "failed"}
  /\ \/ Init_SocketFails
     \/ \E f \in FreeFds : Init_SetupFails(f) \/ Init_Listens(f)
  /\ UNCHANGED <<mSessions, link, peer, inbound, queued, believed, history>>

\* Init on a server that listens: the old socket stays open and listens, with
\* the clients that wait there and nobody to accept them.  Not a step of Next.
InitServer_Again ==
  /\ phase = "listening"
  /\ \/ Init_SocketFails
     \/ \E f \in FreeFds : Init_SetupFails(f) \/ Init_Listens(f)
  /\ link' = [c \in Conns |-> IF link[c] = "queued" THEN "stranded" ELSE link[c]]
  /\ UNCHANGED <<mSessions, peer, inbound, queued, believed, history>>

\* ~Network(): closes mServerSocket and forgets the sessions; the sockets of
\* the clients stay open.  Clients still in the backlog go with the server.
DestroyNetwork ==
  /\ phase # "destroyed"
  /\ phase' = "destroyed"
  /\ mSessions' = [s \in Fds |-> NoSession]
  /\ IF mServerSocket = ERROR
     THEN UNCHANGED descriptors
     ELSE /\ owner' = [owner EXCEPT ![mServerSocket] = "free"]
          /\ link' = [c \in Conns |->
                        IF link[c] = "queued" \/ owner[mServerSocket] = c
                        THEN "closed" ELSE link[c]]
  /\ UNCHANGED <<mServerSocket, peer, inbound, queued, believed, history>>
-----------------------------------------------------------------------------
(* Sessions.                                                               *)

\* The fields ConnectNewClient assigns; reserve() leaves both buffers as
\* they are, whatever entry was there.
Connected(ses, c) ==
  [ses EXCEPT !.addr = c, !.sendBufferRemain = FALSE,
              !.sendBufferIndex = 0, !.isReservedDisconnect = FALSE]

\* accept() hands out any number that is free at that moment.  An empty
\* backlog, or no free number, returns ERROR and changes nothing.
Connect_Accepted(c, s) ==
  /\ owner' = [owner EXCEPT ![s] = c]
  /\ link' = [link EXCEPT ![c] = "open"]
  /\ Store(s, Connected(At(s), c))
  /\ believed' = [believed EXCEPT ![s] = c]

\* fcntl() fails: the new socket is closed again.
Connect_Refused(c) ==
  /\ link' = [link EXCEPT ![c] = "closed"]
  /\ UNCHANGED <<owner, mSessions, believed>>

ConnectNewClient ==
  /\ phase = "listening"
  /\ \E c \in Conns, s \in FreeFds :
       /\ link[c] = "queued"
       /\ Connect_Accepted(c, s) \/ Connect_Refused(c)
  /\ UNCHANGED <<phase, mServerSocket, peer, inbound, queued, history>>

\* Defects of Remove that the checks must notice: no erase(), no close().
Remove_NoErase(s, why) ==
  /\ CloseFd(s)
  /\ Store(s, At(s))
  /\ ended' = [c \in Conns |-> IF owner[s] = c THEN why ELSE ended[c]]

Remove_NoClose(s, why) ==
  /\ Store(s, NoSession)
  /\ ended' = [c \in Conns |-> IF owner[s] = c THEN why ELSE ended[c]]
  /\ UNCHANGED descriptors

\* close() and mSessions.erase().
Remove(s, why) ==
  /\ CloseFd(s)
  /\ Store(s, NoSession)
  /\ ended' = [c \in Conns |-> IF owner[s] = c THEN why ELSE ended[c]]

\* The same, and the application knows of it.
Drop(s, why) == Remove(s, why) /\ believed' = [believed EXCEPT ![s] = NoConn]

DisconnectClient(s) ==
  /\ MayCall(s)
  /\ Drop(s, "asked")
  /\ UNCHANGED <<phase, mServerSocket, peer, inbound, queued,
                 pushed, sent, peerSent, taken>>

ReserveDisconnectClient(s) ==
  /\ MayCall(s)
  /\ Store(s, [At(s) EXCEPT !.isReservedDisconnect = TRUE])
  /\ UNCHANGED <<phase, mServerSocket, kernel, believed, history>>
-----------------------------------------------------------------------------
(* Receiving.                                                              *)

\* Defect: recvBuffer = buffer.
Received_Replaces(ses, data) == [ses EXCEPT !.recvBuffer = CStr(data)]

\* recvBuffer += buffer, after buffer[recvLen] = '\0'.
Received(ses, data) == [ses EXCEPT !.recvBuffer = @ \o CStr(data)]

\* A session that is about to be disconnected is not read any more.
Recv_Ignored(s) ==
  /\ At(s).isReservedDisconnect
  /\ Store(s, At(s))
  /\ UNCHANGED <<kernel, believed, ended>>

Recv_Data(s) ==
  /\ ~At(s).isReservedDisconnect
  /\ IsConnected(s) /\ inbound[owner[s]] # <<>>
  /\ LET data    == inbound[owner[s]]
         recvLen == Least(Len(data), kRecvBufferSize - 1)
     IN  /\ Store(s, Received(At(s), First(data, recvLen)))
         /\ inbound' = [inbound EXCEPT ![owner[s]] = From(data, recvLen)]
  /\ UNCHANGED <<owner, link, peer, queued, believed, ended>>

\* recv() returns 0 (the client closed) or -1: a reset, nothing to read yet
\* (the socket does not block), or a number that is no client's socket.
Recv_Fails(s) ==
  /\ ~At(s).isReservedDisconnect
  /\ ~(IsConnected(s) /\ inbound[owner[s]] # <<>>)
  /\ Drop(s, "lost")
  /\ UNCHANGED <<peer, inbound, queued>>

RecvFromClient(s) ==
  /\ MayCall(s)
  /\ AwaitReady => Readable(s)
  /\ Recv_Ignored(s) \/ Recv_Data(s) \/ Recv_Fails(s)
  /\ UNCHANGED <<phase, mServerSocket, pushed, sent, peerSent, taken>>

\* The bytes PullFromRecvBuffer takes out of the buffer, the end string
\* included.  Without an end string it takes all there is.
Pull_All(s) ==
  /\ At(s).recvBuffer # <<>>
  /\ Store(s, [At(s) EXCEPT !.recvBuffer = <<>>])
  /\ taken' = [taken EXCEPT ![At(s).addr] = @ \o At(s).recvBuffer]

Pull_UpTo(s, endString) ==
  \E subStrLen \in Occurrences(At(s).recvBuffer, endString) :
    LET n == subStrLen + Len(endString)
    IN  /\ \A p \in Occurrences(At(s).recvBuffer, endString) : subStrLen <= p
        /\ Store(s, [At(s) EXCEPT !.recvBuffer = From(@, n)])
        /\ taken' = [taken EXCEPT ![At(s).addr] = @ \o First(At(s).recvBuffer, n)]

\* Nothing to return; the lookup has made an entry if there was none.
Pull_Nothing(s, endString) ==
  /\ \/ At(s).recvBuffer = <<>>
     \/ Occurrences(At(s).recvBuffer, endString) = {}
  /\ Store(s, At(s))
  /\ UNCHANGED taken

PullFromRecvBuffer(s, endString) ==
  /\ MayCall(s)
  /\ \/ endString = <<>> /\ Pull_All(s)
     \/ endString # <<>> /\ Pull_UpTo(s, endString)
     \/ Pull_Nothing(s, endString)
  /\ UNCHANGED <<phase, mServerSocket, kernel, believed, pushed, sent, peerSent, ended>>

ClearRecvBuffer(s) ==
  /\ MayCall(s)
  /\ Store(s, [At(s) EXCEPT !.recvBuffer = <<>>])
  /\ taken' = IF At(s).recvBuffer = <<>> THEN taken
              ELSE [taken EXCEPT ![At(s).addr] = @ \o At(s).recvBuffer]
  /\ UNCHANGED <<phase, mServerSocket, kernel, believed, pushed, sent, peerSent, ended>>
-----------------------------------------------------------------------------
(* Sending.                                                                *)

\* Defects: no erase(), no reset of the index.
WithPushed_NoErase(ses, buf) ==
  [ses EXCEPT !.sendBuffer = @ \o buf, !.sendBufferIndex = 0, !.sendBufferRemain = TRUE]

WithPushed_KeepsIndex(ses, buf) ==
  [ses EXCEPT !.sendBuffer = Unsent(ses) \o buf, !.sendBufferRemain = TRUE]

\* erase(0, sendBufferIndex), sendBuffer += buf.
WithPushed(ses, buf) ==
  [ses EXCEPT !.sendBuffer = Unsent(ses) \o buf, !.sendBufferIndex = 0,
              !.sendBufferRemain = TRUE]

PushToSendBuffer(s, buf) ==
  /\ MayCall(s)
  /\ Len(pushed[believed[s]]) + Len(buf) <= MaxPushed
  /\ Store(s, WithPushed(At(s), buf))
  /\ pushed' = [pushed EXCEPT ![believed[s]] = @ \o buf]
  /\ UNCHANGED <<phase, mServerSocket, kernel, believed, sent, peerSent, taken, ended>>

\* The bytes withdrawn are those not sent yet.
ClearSendBuffer(s) ==
  /\ MayCall(s)
  /\ Store(s, [At(s) EXCEPT !.sendBuffer = <<>>, !.sendBufferIndex = 0,
                            !.sendBufferRemain = FALSE])
  /\ pushed' = [pushed EXCEPT ![believed[s]] = sent[believed[s]]]
  /\ UNCHANGED <<phase, mServerSocket, kernel, believed, sent, peerSent, taken, ended>>

\* Defect: all is sent and sendBufferRemain stays set.
Transmitted_KeepsRemain(ses, sendLen, remainLen) ==
  IF sendLen = remainLen
  THEN [ses EXCEPT !.sendBuffer = <<>>, !.sendBufferIndex = 0]
  ELSE [ses EXCEPT !.sendBufferIndex = @ + sendLen]

\* After send() took sendLen of the remainLen bytes it was offered.
Transmitted(ses, sendLen, remainLen) ==
  IF sendLen = remainLen
  THEN [ses EXCEPT !.sendBuffer = <<>>, !.sendBufferIndex = 0,
                   !.sendBufferRemain = FALSE]
  ELSE [ses EXCEPT !.sendBufferIndex = @ + sendLen]

Send_Idle(s) ==
  /\ ~At(s).sendBufferRemain /\ ~At(s).isReservedDisconnect
  /\ Store(s, At(s))
  /\ UNCHANGED <<kernel, believed, sent, ended>>

\* Defect: the reserved disconnection does not wait for the send buffer.
Send_Farewell_AtOnce(s) ==
  /\ At(s).isReservedDisconnect
  /\ Remove(s, "farewell")
  /\ UNCHANGED <<peer, inbound, queued, believed, sent>>

\* Nothing left to send: the reserved disconnection.  The call returns
\* SUCCESS, so the application is not told.
Send_Farewell(s) ==
  /\ ~At(s).sendBufferRemain /\ At(s).isReservedDisconnect
  /\ Remove(s, "farewell")
  /\ UNCHANGED <<peer, inbound, queued, believed, sent>>

\* Defect: a send() that took only a part counts as a failure.
CanSend_AllOrNothing(s, remainLen) ==
  /\ IsConnected(s)
  /\ peer[owner[s]] # "reset"
  /\ remainLen <= SendRoom - queued[owner[s]]

\* send() takes what fits, and takes zero bytes without complaint.
CanSend(s, remainLen) ==
  /\ IsConnected(s)
  /\ peer[owner[s]] # "reset"
  /\ remainLen = 0 \/ queued[owner[s]] < SendRoom

Send_Some(s) ==
  LET offered == CStr(Unsent(At(s)))
      sendLen == Least(Len(offered), SendRoom - queued[owner[s]])
  IN  /\ At(s).sendBufferRemain
      /\ CanSend(s, Len(offered))
      /\ Store(s, Transmitted(At(s), sendLen, Len(offered)))
      /\ sent' = [sent EXCEPT ![owner[s]] = @ \o First(offered, sendLen)]
      /\ queued' = [queued EXCEPT ![owner[s]] = @ + sendLen]
      /\ UNCHANGED <<owner, link, peer, inbound, believed, ended>>

\* Defect: the -1 of a failed send() is not looked at and moves the index.
Send_Fails_Unnoticed(s) ==
  /\ At(s).sendBufferRemain
  /\ ~CanSend(s, StrLen(Unsent(At(s))))
  /\ Store(s, Transmitted(At(s), -1, StrLen(Unsent(At(s)))))
  /\ UNCHANGED <<kernel, believed, sent, ended>>

\* send() returns -1: reset by the client, no room (the socket does not
\* block), or not a client's socket.
Send_Fails(s) ==
  /\ At(s).sendBufferRemain
  /\ ~CanSend(s, StrLen(Unsent(At(s))))
  /\ Drop(s, "lost")
  /\ UNCHANGED <<peer, inbound, queued, sent>>

SendToClient(s) ==
  /\ MayCall(s)
  /\ AwaitReady => Writable(s)
  /\ Send_Idle(s) \/ Send_Farewell(s) \/ Send_Some(s) \/ Send_Fails(s)
  /\ UNCHANGED <<phase, mServerSocket, pushed, peerSent, taken>>
-----------------------------------------------------------------------------
(* The clients, the kernel, and the rest of the program.                   *)

ClientConnects(c) ==
  /\ phase = "listening" /\ link[c] = "idle"
  /\ link' = [link EXCEPT ![c] = "queued"]
  /\ UNCHANGED <<object, owner, peer, inbound, queued, believed, history>>

HasClient(c) == link[c] \in {"queued", "open"} /\ peer[c] = "up"

ClientSends(c, b) ==
  /\ HasClient(c) /\ Len(peerSent[c]) < MaxPeerSent
  /\ inbound' = [inbound EXCEPT ![c] = Append(@, b)]
  /\ peerSent' = [peerSent EXCEPT ![c] = Append(@, b)]
  /\ UNCHANGED <<object, owner, link, peer, queued, believed, pushed, sent, taken, ended>>

\* An orderly close ("fin") or a reset; a closed client may still reset.
ClientLeaves(c, how) ==
  /\ \/ HasClient(c)
     \/ link[c] = "open" /\ peer[c] = "fin" /\ how = "reset"
  /\ peer' = [peer EXCEPT ![c] = how]
  /\ UNCHANGED <<object, owner, link, inbound, queued, believed, history>>

\* A byte of the kernel's send buffer is acknowledged by the client.
KernelDrains(c) ==
  /\ link[c] = "open" /\ queued[c] > 0
  /\ queued' = [queued EXCEPT ![c] = @ - 1]
  /\ UNCHANGED <<object, owner, link, peer, inbound, believed, history>>

\* The program opens and closes descriptors of its own: files, a kqueue.
OtherOpens(f) ==
  /\ owner[f] = "free"
  /\ owner' = [owner EXCEPT ![f] = "other"]
  /\ UNCHANGED <<object, link, peer, inbound, queued, believed, history>>

OtherCloses(f) ==
  /\ owner[f] = "other"
  /\ owner' = [owner EXCEPT ![f] = "free"]
  /\ UNCHANGED <<object, link, peer, inbound, queued, believed, history>>
-----------------------------------------------------------------------------
Init ==
  /\ phase = "constructed"
  /\ mServerSocket = ERROR
  /\ mSessions = [s \in Fds |-> NoSession]
  /\ owner = [f \in Fds |-> "free"]
  /\ link = [c \in Conns |-> "idle"]
  /\ peer = [c \in Conns |-> "up"]
  /\ inbound = [c \in Conns |-> <<>>]
  /\ queued = [c \in Conns |-> 0]
  /\ believed = [s \in Fds |-> NoConn]
  /\ pushed = [c \in Conns |-> <<>>]
  /\ sent = [c \in Conns |-> <<>>]
  /\ peerSent = [c \in Conns |-> <<>>]
  /\ taken = [c \in Conns |-> <<>>]
  /\ ended = [c \in Conns |-> "no"]

Call(s) ==
  \/ DisconnectClient(s)
  \/ ReserveDisconnectClient(s)
  \/ RecvFromClient(s)
  \/ \E endString \in EndStrings : PullFromRecvBuffer(s, endString)
  \/ ClearRecvBuffer(s)
  \/ \E buf \in Messages : PushToSendBuffer(s, buf)
  \/ ClearSendBuffer(s)
  \/ SendToClient(s)

Clients ==
  \E c \in Conns :
    \/ ClientConnects(c)
    \/ \E b \in Bytes : ClientSends(c, b)
    \/ \E how \in {"fin", "reset"} : ClientLeaves(c, how)
    \/ KernelDrains(c)

Others == \E f \in Fds : OtherOpens(f) \/ OtherCloses(f)

Next ==
  \/ InitServer
  \/ DestroyNetwork
  \/ ConnectNewClient
  \/ \E s \in Fds : Call(s)
  \/ Clients
  \/ Others

Spec == Init /\ [][Next]_vars

\* The same for an application that calls Init at any time.
AgainSpec == Init /\ [][Next \/ InitServer_Again]_vars
-----------------------------------------------------------------------------
(* Properties.                                                             *)

TypeOK ==
  /\ phase \in Phases
  /\ mServerSocket \in Fds \cup {ERROR}
  /\ mSessions \in [Fds -> Session \cup {NoSession}]
  /\ owner \in [Fds -> Nobody \cup Conns]
  /\ link \in [Conns -> LinkStates]
  /\ peer \in [Conns -> PeerStates]
  /\ inbound \in [Conns -> Seq(Bytes)]
  /\ queued \in [Conns -> 0 .. SendRoom]
  /\ believed \in [Fds -> Conns \cup {NoConn}]
  /\ pushed \in [Conns -> Seq(Bytes)]
  /\ sent \in [Conns -> Seq(Bytes)]
  /\ peerSent \in [Conns -> Seq(Bytes)]
  /\ taken \in [Conns -> Seq(Bytes)]
  /\ ended \in [Conns -> Endings]

\* A session's socket number is the live socket of the client the session is
\* about, it is what the application takes it for, and no client has two.
SessionsOwnTheirSockets ==
  \A s \in Fds : HasSession(s) =>
    /\ mSessions[s].addr \in Conns
    /\ owner[s] = mSessions[s].addr
    /\ believed[s] = mSessions[s].addr
    /\ link[owner[s]] = "open"
    /\ \A r \in Fds : owner[r] = owner[s] => r = s

\* While the object lives, every connected socket has a session: none is
\* left open with nobody to read, write or close it.
NoOrphanSocket ==
  phase # "destroyed" => \A s \in Fds : IsConnected(s) => HasSession(s)

\* The window still to be sent lies inside the buffer (SendToClient reads
\* from c_str() + sendBufferIndex, PushToSendBuffer erases up to it), starts
\* at 0 when nothing is pending, and is not empty once part of it has gone.
SendWindowInBuffer ==
  \A s \in Fds : HasSession(s) =>
    LET ses == mSessions[s]
    IN  /\ ses.sendBufferIndex <= Len(ses.sendBuffer)
        /\ ~ses.sendBufferRemain => ses.sendBufferIndex = 0
        /\ ses.sendBufferIndex > 0 => ses.sendBufferIndex < Len(ses.sendBuffer)

\* What was sent on a connection, followed by what its session still holds,
\* is exactly what the application pushed for it: nothing is lost, repeated,
\* reordered or sent to another client, over any mix of partial sends,
\* pushes, withdrawals and reused socket numbers.
SendIntegrity ==
  \A s \in Fds : HasSession(s) /\ IsConnected(s) =>
    pushed[owner[s]] = sent[owner[s]] \o Unsent(mSessions[s])

\* The receiving side: taken, buffered and still in the kernel, in this
\* order, is exactly what the client sent.
RecvIntegrity ==
  \A s \in Fds : HasSession(s) /\ IsConnected(s) =>
    peerSent[owner[s]] =
      taken[owner[s]] \o mSessions[s].recvBuffer \o inbound[owner[s]]

\* A client is lost (recv or send failed) only if it has closed or reset its
\* end: a call on a live client never costs it the connection.
LostOnlyAfterClientLeft ==
  \A c \in Conns : ended[c] = "lost" => peer[c] # "up"

\* A session reserved for disconnection, unless its client resets or the
\* application itself cuts it short, goes only when all that was pushed for
\* it has been sent.
ReservedSendsAll ==
  [][\A s \in Fds :
       /\ HasSession(s) /\ mSessions[s].isReservedDisconnect
       /\ mSessions'[s] = NoSession /\ phase' # "destroyed"
       /\ ended'[owner[s]] # "asked" /\ peer[owner[s]] # "reset"
       => sent[owner[s]] = pushed[owner[s]]]_vars

\* A reserved disconnection happens, in the end, if the loop goes on and the
\* client goes on reading (or leaves).
IsReserved(c) ==
  \E s \in Fds : owner[s] = c /\ HasSession(s) /\ mSessions[s].isReservedDisconnect

ReservedCloses == \A c \in Conns : IsReserved(c) ~> (link[c] = "closed" \/ phase = "destroyed")

\* mSessions holds the clients that are connected, each under its socket.
SessionsAreConnected ==
  \A s \in Fds : HasSession(s) =>
    /\ mSessions[s].addr \in Conns
    /\ owner[s] = mSessions[s].addr

\* mServerSocket is the descriptor of the server's socket, or ERROR.
ServerSocketIsOurs ==
  phase # "destroyed" /\ mServerSocket # ERROR => owner[mServerSocket] = "server"

\* No server socket is open but the one mServerSocket names.
NoOrphanServer == \A f \in Fds : owner[f] = "server" => f = mServerSocket

\* Network keeps the promise of ByteChannel to each client: over partial sends,
\* pieces, withdrawals, reserved disconnections and reused socket numbers it
\* carries two streams, each in order and without loss, until the channel ends.
Channel == INSTANCE ByteChannel

ImplementsChannel == Channel!Spec
=============================================================================
