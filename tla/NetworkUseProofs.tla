-------------------------- MODULE NetworkUseProofs --------------------------
(***************************************************************************)
(* Theorems about Network as a careful application uses it: one that calls *)
(* recv and send only on sockets that are ready loses nobody and nothing,  *)
(* and one that calls only on sockets with a session has a ByteChannel to  *)
(* each client.                                                            *)
(***************************************************************************)
EXTENDS NetworkProofs

\* The calls that neither receive nor send.
OtherCall(s) ==
  \/ DisconnectClient(s)
  \/ ReserveDisconnectClient(s)
  \/ \E endString \in EndStrings : PullFromRecvBuffer(s, endString)
  \/ ClearRecvBuffer(s)
  \/ \E buf \in Messages : PushToSendBuffer(s, buf)
  \/ ClearSendBuffer(s)

\* The steps that are neither a recv nor a send.
OtherStep ==
  \/ InitServer \/ DestroyNetwork \/ ConnectNewClient
  \/ \E s \in Fds : OtherCall(s)
  \/ Clients \/ Others
  \/ UNCHANGED vars

LEMMA StepKinds ==
  ASSUME [Next]_vars
  PROVE  \/ OtherStep
         \/ \E s \in Fds : RecvFromClient(s)
         \/ \E s \in Fds : SendToClient(s)
BY DEF Next, Call, OtherStep, OtherCall

(***************************************************************************)
(* No live client is dropped.                                              *)
(***************************************************************************)

\* A removal for another reason than a failure loses nobody.
LEMMA RemovedNotLost ==
  ASSUME TypeOK, LostOnlyAfterClientLeft, NEW s \in Fds, NEW why, Remove(s, why),
         why # "lost" \/ (IsConnected(s) => peer[owner[s]] # "up"), UNCHANGED peer
  PROVE  LostOnlyAfterClientLeft'
<1>1. \A c \in Conns : ended'[c] = IF owner[s] = c THEN why ELSE ended[c]
  BY DEF Remove
<1> QED
  BY <1>1 DEF LostOnlyAfterClientLeft, IsConnected

LEMMA OtherStepLosesNobody ==
  ASSUME TypeOK, LostOnlyAfterClientLeft, OtherStep
  PROVE  LostOnlyAfterClientLeft'
<1>1. ASSUME NEW s \in Fds, OtherCall(s) PROVE LostOnlyAfterClientLeft'
  <2>1. CASE DisconnectClient(s)
    <3>1. Remove(s, "asked") /\ UNCHANGED peer
      BY <2>1 DEF DisconnectClient, Drop
    <3> QED BY <3>1, RemovedNotLost
  <2>2. CASE UNCHANGED <<peer, ended>>
    BY <2>2 DEF LostOnlyAfterClientLeft
  <2> QED
    BY <1>1, <2>1, <2>2
       DEF OtherCall, ReserveDisconnectClient, PullFromRecvBuffer, ClearRecvBuffer,
           PushToSendBuffer, ClearSendBuffer, kernel, history
<1>2. CASE Clients
  <2>1. UNCHANGED ended /\ \A c \in Conns : peer'[c] = "up" => peer[c] = "up"
    BY <1>2 DEF Clients, ClientConnects, ClientSends, ClientLeaves, KernelDrains, history, TypeOK
  <2> QED BY <2>1 DEF LostOnlyAfterClientLeft
<1>3. CASE UNCHANGED <<peer, ended>>
  BY <1>3 DEF LostOnlyAfterClientLeft
<1> QED
  BY <1>1, <1>2, <1>3 DEF OtherStep, InitServer, DestroyNetwork, ConnectNewClient,
     Others, OtherOpens, OtherCloses, vars, kernel, history

\* A recv on a readable socket fails only at the end of the stream.
LEMMA ReadyRecvLosesNobody ==
  ASSUME TypeOK, LostOnlyAfterClientLeft, NEW s \in Fds, RecvFromClient(s), Readable(s)
  PROVE  LostOnlyAfterClientLeft'
<1>1. CASE Recv_Fails(s)
  <2>1. Remove(s, "lost") /\ UNCHANGED peer /\ peer[owner[s]] # "up"
    BY <1>1 DEF Recv_Fails, Drop, Readable
  <2> QED BY <2>1, RemovedNotLost
<1>2. CASE Recv_Ignored(s) \/ Recv_Data(s)
  BY <1>2 DEF Recv_Ignored, Recv_Data, LostOnlyAfterClientLeft, kernel
<1> QED
  BY <1>1, <1>2 DEF RecvFromClient

\* A send on a writable socket fails only after a reset.
LEMMA ReadySendFails ==
  ASSUME TypeOK, NEW s \in Fds, Send_Fails(s), Writable(s)
  PROVE  peer[owner[s]] = "reset"
BY DEF Send_Fails, CanSend, Writable

LEMMA ReadySendLosesNobody ==
  ASSUME TypeOK, LostOnlyAfterClientLeft, NEW s \in Fds, SendToClient(s), Writable(s)
  PROVE  LostOnlyAfterClientLeft'
<1>1. CASE Send_Fails(s)
  <2>1. Remove(s, "lost") /\ UNCHANGED peer /\ peer[owner[s]] # "up"
    BY <1>1, ReadySendFails DEF Send_Fails, Drop
  <2> QED BY <2>1, RemovedNotLost
<1>2. CASE Send_Farewell(s)
  <2>1. Remove(s, "farewell") /\ UNCHANGED peer
    BY <1>2 DEF Send_Farewell
  <2> QED BY <2>1, RemovedNotLost
<1>3. CASE Send_Idle(s) \/ Send_Some(s)
  BY <1>3 DEF Send_Idle, Send_Some, LostOnlyAfterClientLeft, kernel
<1> QED
  BY <1>1, <1>2, <1>3 DEF SendToClient

\* An application that waits until a socket is ready never loses a client that
\* is still there: RecvFromClient and SendToClient, which take EAGAIN for a
\* broken connection, then fail only when the client has closed or reset it.
THEOREM LostOnlyAfterClientLeftCorrect == AwaitReady => (Spec => []LostOnlyAfterClientLeft)
<1> SUFFICES ASSUME AwaitReady PROVE Spec => []LostOnlyAfterClientLeft
  OBVIOUS
<1>1. Init => LostOnlyAfterClientLeft
  BY DEF Init, LostOnlyAfterClientLeft
<1>2. TypeOK /\ LostOnlyAfterClientLeft /\ [Next]_vars => LostOnlyAfterClientLeft'
  <2> SUFFICES ASSUME TypeOK, LostOnlyAfterClientLeft, [Next]_vars
               PROVE  LostOnlyAfterClientLeft'
    OBVIOUS
  <2>1. \A s \in Fds : RecvFromClient(s) => Readable(s)
    BY DEF RecvFromClient
  <2>2. \A s \in Fds : SendToClient(s) => Writable(s)
    BY DEF SendToClient
  <2> QED
    BY <2>1, <2>2, StepKinds, OtherStepLosesNobody, ReadyRecvLosesNobody, ReadySendLosesNobody
<1> QED
  BY <1>1, <1>2, TypeCorrect, PTL DEF Spec

(***************************************************************************)
(* A reserved disconnection loses nothing.                                 *)
(***************************************************************************)

\* A session with nothing left to send has an empty send buffer.
DoneIsEmpty ==
  \A s \in Fds : HasSession(s) /\ ~mSessions[s].sendBufferRemain
    => mSessions[s].sendBuffer = <<>>

IsDoneEmpty(ses) == ~ses.sendBufferRemain => ses.sendBuffer = <<>>

\* What the code does to one session leaves no unsent byte without its mark.
LEMMA DoneUpdates ==
  ASSUME NEW ses \in Session, IsDoneEmpty(ses)
  PROVE  /\ IsDoneEmpty([ses EXCEPT !.isReservedDisconnect = TRUE])
         /\ \A data : IsDoneEmpty(Received(ses, data))
         /\ \A str : IsDoneEmpty([ses EXCEPT !.recvBuffer = str])
         /\ \A buf : IsDoneEmpty(WithPushed(ses, buf))
         /\ IsDoneEmpty([ses EXCEPT !.sendBuffer = <<>>, !.sendBufferIndex = 0,
                                    !.sendBufferRemain = FALSE])
         /\ \A n, m : ses.sendBufferRemain => IsDoneEmpty(Transmitted(ses, n, m))
BY DEF IsDoneEmpty, Received, WithPushed, Transmitted, Session

LEMMA DoneStored ==
  ASSUME TypeOK, DoneIsEmpty, NEW s \in Fds, NEW ses,
         ses = NoSession \/ IsDoneEmpty(ses), Store(s, ses)
  PROVE  DoneIsEmpty'
BY DEF Store, TypeOK, DoneIsEmpty, IsDoneEmpty, HasSession

\* The entry that ConnectNewClient takes over is a new one, so its send buffer
\* is empty.
LEMMA DoneNext ==
  CheckSession /\ TypeOK /\ Ownership /\ DoneIsEmpty /\ [Next]_vars => DoneIsEmpty'
<1> SUFFICES ASSUME CheckSession, TypeOK, Ownership, DoneIsEmpty, [Next]_vars
             PROVE  DoneIsEmpty'
  OBVIOUS
<1>1. ASSUME UNCHANGED mSessions PROVE DoneIsEmpty'
  BY <1>1 DEF DoneIsEmpty, HasSession
<1>2. ASSUME NEW s \in Fds, Store(s, NoSession) PROVE DoneIsEmpty'
  BY <1>2, DoneStored
<1>3. ASSUME NEW s \in Fds PROVE At(s) \in Session /\ IsDoneEmpty(At(s))
  BY AtType DEF At, DoneIsEmpty, IsDoneEmpty, EmptySession
<1>4. ASSUME NEW s \in Fds, Store(s, At(s)) PROVE DoneIsEmpty'
  BY <1>3, <1>4, DoneStored
<1>5. CASE DestroyNetwork
  BY <1>5 DEF DestroyNetwork, DoneIsEmpty, HasSession
<1>6. CASE ConnectNewClient
  <2>1. PICK c \in Conns, s \in FreeFds : Connect_Accepted(c, s) \/ Connect_Refused(c)
    BY <1>6 DEF ConnectNewClient
  <2>2. s \in Fds /\ ~HasSession(s)
    BY NetworkAssumption DEF FreeFds, Ownership, SessionsOwnTheirSockets, Nobody
  <2>3. IsDoneEmpty(Connected(At(s), c))
    BY <2>2 DEF At, Connected, EmptySession, IsDoneEmpty
  <2> QED
    BY <2>1, <2>2, <2>3, <1>1, DoneStored DEF Connect_Accepted, Connect_Refused
<1>7. ASSUME NEW s \in Fds, OtherCall(s) PROVE DoneIsEmpty'
  <2>1. CASE DisconnectClient(s)
    BY <2>1, <1>2 DEF DisconnectClient, Drop, Remove
  <2>2. ASSUME NEW ses, Store(s, ses), IsDoneEmpty(ses) PROVE DoneIsEmpty'
    BY <2>2, DoneStored
  <2>3. CASE ReserveDisconnectClient(s)
    BY <1>3, <2>2, <2>3, DoneUpdates DEF ReserveDisconnectClient
  <2>4. ASSUME NEW endString \in EndStrings, PullFromRecvBuffer(s, endString)
        PROVE  DoneIsEmpty'
    <3>1. \/ Store(s, At(s))
          \/ \E str : Store(s, [At(s) EXCEPT !.recvBuffer = str])
      BY <2>4 DEF PullFromRecvBuffer, Pull_All, Pull_UpTo, Pull_Nothing
    <3> QED
      BY <1>3, <1>4, <2>2, <3>1, DoneUpdates
  <2>5. CASE ClearRecvBuffer(s)
    BY <1>3, <2>2, <2>5, DoneUpdates DEF ClearRecvBuffer
  <2>6. ASSUME NEW buf \in Messages, PushToSendBuffer(s, buf) PROVE DoneIsEmpty'
    BY <1>3, <2>2, <2>6, DoneUpdates DEF PushToSendBuffer
  <2>7. CASE ClearSendBuffer(s)
    BY <1>3, <2>2, <2>7, DoneUpdates DEF ClearSendBuffer
  <2> QED
    BY <1>7, <2>1, <2>3, <2>4, <2>5, <2>6, <2>7 DEF OtherCall
<1>8. ASSUME NEW s \in Fds, RecvFromClient(s) PROVE DoneIsEmpty'
  <2>1. ASSUME Recv_Data(s) PROVE DoneIsEmpty'
    <3>1. PICK data : Store(s, Received(At(s), data))
      BY <2>1 DEF Recv_Data
    <3> QED
      BY <1>3, <3>1, DoneUpdates, DoneStored
  <2> QED
    BY <1>8, <2>1, <1>2, <1>4 DEF RecvFromClient, Recv_Ignored, Recv_Fails, Drop, Remove
<1>9. ASSUME NEW s \in Fds, SendToClient(s) PROVE DoneIsEmpty'
  <2>1. ASSUME Send_Some(s) PROVE DoneIsEmpty'
    <3>1. PICK n, m : Store(s, Transmitted(At(s), n, m)) /\ At(s).sendBufferRemain
      BY <2>1 DEF Send_Some
    <3> QED
      BY <1>3, <3>1, DoneUpdates, DoneStored
  <2> QED
    BY <1>9, <2>1, <1>2, <1>4
       DEF SendToClient, Send_Idle, Send_Farewell, Send_Fails, Drop, Remove
<1>10. CASE InitServer \/ Clients \/ Others \/ UNCHANGED vars
  BY <1>1, <1>10 DEF InitServer, Clients, ClientConnects, ClientSends, ClientLeaves, KernelDrains,
     Others, OtherOpens, OtherCloses, vars, object
<1> QED
  BY <1>5, <1>6, <1>7, <1>8, <1>9, <1>10, StepKinds DEF OtherStep

\* What ReservedSendsAll says of one step and one socket.
EndsReserved(s) ==
  /\ HasSession(s) /\ mSessions[s].isReservedDisconnect
  /\ mSessions'[s] = NoSession /\ phase' # "destroyed"
  /\ ended'[owner[s]] # "asked" /\ peer[owner[s]] # "reset"

AllSent == \A s \in Fds : EndsReserved(s) => sent[owner[s]] = pushed[owner[s]]

\* The invariant under which the property is shown.
SendingInv == TypeOK /\ SendWindowInBuffer /\ Ownership /\ Sending /\ DoneIsEmpty

LEMMA SendingInvNext ==
  CheckSession /\ Nul \notin Bytes /\ SendingInv /\ [Next]_vars => SendingInv'
BY TypeNext, WindowNext, OwnershipNext, SendingNext, DoneNext DEF SendingInv

LEMMA SendingInvInit == Init => SendingInv
<1> SUFFICES ASSUME Init PROVE SendingInv
  OBVIOUS
<1>1. SendWindowInBuffer /\ Sending /\ DoneIsEmpty
  BY DEF Init, SendWindowInBuffer, Sending, SendIntegrity, NothingSentBefore, DoneIsEmpty, HasSession
<1> QED
  BY <1>1, TypeInit, OwnershipInit DEF SendingInv

\* No session ends if one session, or none, is stored.
LEMMA NothingEnds ==
  ASSUME TypeOK, NEW s \in Fds, NEW ses \in Session, Store(s, ses)
  PROVE  AllSent
BY NetworkAssumption DEF Store, AllSent, EndsReserved, HasSession, TypeOK

\* A removal ends one session.
LEMMA OneEnds ==
  ASSUME TypeOK, NEW s \in Fds, Store(s, NoSession),
         EndsReserved(s) => sent[owner[s]] = pushed[owner[s]]
  PROVE  AllSent
BY DEF Store, AllSent, EndsReserved, HasSession, TypeOK

LEMMA OtherStepEndsNone ==
  ASSUME CheckSession, SendingInv, OtherStep
  PROVE  AllSent
<1>1. CASE UNCHANGED mSessions
  BY <1>1 DEF AllSent, EndsReserved, HasSession
<1>2. CASE DestroyNetwork
  BY <1>2 DEF DestroyNetwork, AllSent, EndsReserved
<1>3. CASE ConnectNewClient
  <2>1. PICK c \in Conns, s \in FreeFds : Connect_Accepted(c, s) \/ Connect_Refused(c)
    BY <1>3 DEF ConnectNewClient
  <2>2. s \in Fds /\ Connected(At(s), c) \in Session
    BY AtType, SessionUpdates DEF FreeFds, SendingInv
  <2> QED
    BY <1>1, <2>1, <2>2, NothingEnds DEF Connect_Accepted, Connect_Refused, SendingInv
<1>4. ASSUME NEW s \in Fds, OtherCall(s) PROVE AllSent
  <2>1. TypeOK /\ At(s) \in Session
    BY AtType DEF SendingInv
  <2>2. CASE DisconnectClient(s)
    <3>1. HasSession(s) /\ Remove(s, "asked")
      BY <2>2 DEF DisconnectClient, MayCall, Drop
    <3>2. owner[s] \in Conns
      BY <3>1 DEF SendingInv, Ownership, SessionsOwnTheirSockets
    <3>3. Store(s, NoSession) /\ ended'[owner[s]] = "asked"
      BY <3>1, <3>2 DEF Remove
    <3> QED
      BY <2>1, <3>3, OneEnds DEF EndsReserved
  <2>3. ASSUME NEW ses \in Session, Store(s, ses) PROVE AllSent
    BY <2>1, <2>3, NothingEnds
  <2>4. CASE ReserveDisconnectClient(s)
    BY <2>1, <2>3, <2>4, SessionUpdates DEF ReserveDisconnectClient
  <2>5. ASSUME NEW endString \in EndStrings, PullFromRecvBuffer(s, endString) PROVE AllSent
    <3>1. At(s).recvBuffer \in Seq(Bytes) /\ Len(At(s).recvBuffer) \in Nat /\ Len(endString) \in Nat
      BY <2>1, LenProperties, NetworkAssumption DEF Session
    <3>2. ASSUME Pull_UpTo(s, endString) PROVE AllSent
      <4>1. PICK p \in Occurrences(At(s).recvBuffer, endString) :
              Store(s, [At(s) EXCEPT !.recvBuffer = From(@, p + Len(endString))])
        BY <3>2 DEF Pull_UpTo
      <4>2. p + Len(endString) \in Nat
        BY <3>1 DEF Occurrences
      <4>3. [At(s) EXCEPT !.recvBuffer = From(@, p + Len(endString))] \in Session
        BY <2>1, <4>2, SessionUpdates
      <4> QED
        BY <2>3, <4>1, <4>3
    <3> QED
      BY <2>1, <2>3, <2>5, <3>2, SessionUpdates DEF PullFromRecvBuffer, Pull_All, Pull_Nothing
  <2>6. CASE ClearRecvBuffer(s)
    BY <2>1, <2>3, <2>6, SessionUpdates DEF ClearRecvBuffer
  <2>7. ASSUME NEW buf \in Messages, PushToSendBuffer(s, buf) PROVE AllSent
    <3>1. buf \in Seq(Bytes)
      BY NetworkAssumption
    <3> QED
      BY <2>1, <2>3, <2>7, <3>1, SessionUpdates DEF PushToSendBuffer
  <2>8. CASE ClearSendBuffer(s)
    BY <2>1, <2>3, <2>8, SessionUpdates DEF ClearSendBuffer
  <2> QED
    BY <1>4, <2>2, <2>4, <2>5, <2>6, <2>7, <2>8 DEF OtherCall
<1> QED
  BY <1>1, <1>2, <1>3, <1>4 DEF OtherStep, InitServer, Clients, ClientConnects, ClientSends,
     ClientLeaves, KernelDrains, Others, OtherOpens, OtherCloses, vars, object

\* A recv never ends a reserved session.
LEMMA RecvEndsNone ==
  ASSUME TypeOK, NEW s \in Fds, RecvFromClient(s)
  PROVE  AllSent
<1>1. At(s) \in Session
  BY AtType
<1>2. CASE Recv_Ignored(s)
  BY <1>1, <1>2, NothingEnds DEF Recv_Ignored
<1>3. CASE Recv_Data(s)
  <2> DEFINE data    == inbound[owner[s]]
             recvLen == Least(Len(data), kRecvBufferSize - 1)
  <2>1. data \in Seq(Bytes) /\ Len(data) \in Nat
    BY <1>3, LenProperties DEF Recv_Data, IsConnected, TypeOK
  <2>2. recvLen \in 0 .. Len(data)
    BY <2>1, NetworkAssumption DEF Least
  <2>3. Received(At(s), First(data, recvLen)) \in Session
    BY <1>1, <2>1, <2>2, Cuts, SessionUpdates
  <2> QED
    BY <1>3, <2>3, NothingEnds DEF Recv_Data
<1>4. CASE Recv_Fails(s)
  BY <1>4, OneEnds DEF Recv_Fails, Drop, Remove, EndsReserved, At
<1> QED
  BY <1>2, <1>3, <1>4 DEF RecvFromClient

\* All that was pushed has been sent when nothing is left to send.
LEMMA AllSentWhenDone ==
  ASSUME SendingInv, NEW s \in Fds, HasSession(s), ~mSessions[s].sendBufferRemain
  PROVE  sent[owner[s]] = pushed[owner[s]]
<1>1. owner[s] \in Conns
  BY DEF SendingInv, Ownership, SessionsOwnTheirSockets
<1>2. mSessions[s].sendBuffer = <<>> /\ mSessions[s].sendBufferIndex = 0
  BY DEF SendingInv, DoneIsEmpty, SendWindowInBuffer
<1>3. Unsent(mSessions[s]) = <<>>
  BY <1>2, EmptySeq, FromZero DEF Unsent
<1>4. pushed[owner[s]] = sent[owner[s]] \o <<>>
  BY <1>1, <1>3 DEF SendingInv, Sending, SendIntegrity, IsConnected
<1> QED
  BY <1>1, <1>4, ConcatEmptySeq DEF SendingInv, TypeOK

\* A send on a writable socket ends a reserved session when nothing is left.
LEMMA ReadySendEndsEmpty ==
  ASSUME CheckSession, SendingInv, NEW s \in Fds, SendToClient(s), Writable(s)
  PROVE  AllSent
<1>1. TypeOK /\ At(s) \in Session /\ HasSession(s) /\ At(s) = mSessions[s] /\ owner[s] \in Conns
  BY AtType DEF SendToClient, MayCall, SendingInv, At, Ownership, SessionsOwnTheirSockets
<1>2. CASE Send_Idle(s)
  BY <1>1, <1>2, NothingEnds DEF Send_Idle
<1>3. CASE Send_Some(s)
  <2> DEFINE offered == CStr(Unsent(At(s)))
             sendLen == Least(Len(offered), SendRoom - queued[owner[s]])
  <2>1. Len(offered) \in Nat
    BY <1>1, SessionUpdates, CStrType, LenProperties
  <2>2. sendLen \in Nat
    BY <1>1, <2>1, NetworkAssumption DEF Least, TypeOK
  <2>3. Transmitted(At(s), sendLen, Len(offered)) \in Session
    BY <1>1, <2>1, <2>2, SessionUpdates
  <2> QED
    BY <1>1, <1>3, <2>3, NothingEnds DEF Send_Some
<1>4. CASE Send_Farewell(s)
  <2>1. Store(s, NoSession) /\ ~mSessions[s].sendBufferRemain
    BY <1>1, <1>4 DEF Send_Farewell, Remove
  <2> QED
    BY <1>1, <2>1, AllSentWhenDone, OneEnds
<1>5. CASE Send_Fails(s)
  <2>1. peer[owner[s]] = "reset" /\ Store(s, NoSession)
    BY <1>1, <1>5, ReadySendFails DEF Send_Fails, Drop, Remove
  <2> QED
    BY <1>1, <2>1, OneEnds DEF EndsReserved
<1> QED
  BY <1>2, <1>3, <1>4, <1>5 DEF SendToClient

\* Where no zero byte is pushed, and the application calls only on sockets that
\* have a session and are ready, a reserved disconnection loses nothing: the
\* session goes when all that was pushed has been sent, whatever was pushed
\* after the reservation and however often send() took only a part.
THEOREM ReservedSendsAllCorrect ==
  CheckSession /\ AwaitReady /\ Nul \notin Bytes => (Spec => ReservedSendsAll)
<1> SUFFICES ASSUME CheckSession, AwaitReady, Nul \notin Bytes PROVE Spec => ReservedSendsAll
  OBVIOUS
<1>1. SendingInv /\ [Next]_vars => SendingInv'
  BY SendingInvNext
<1>2. SendingInv /\ [Next]_vars => [AllSent]_vars
  <2> SUFFICES ASSUME SendingInv, [Next]_vars PROVE AllSent
    OBVIOUS
  <2>1. \A s \in Fds : SendToClient(s) => Writable(s)
    BY DEF SendToClient
  <2>2. TypeOK
    BY DEF SendingInv
  <2> QED
    BY <2>1, <2>2, StepKinds, OtherStepEndsNone, RecvEndsNone, ReadySendEndsEmpty
<1>3. [AllSent]_vars =>
        [\A s \in Fds :
           /\ HasSession(s) /\ mSessions[s].isReservedDisconnect
           /\ mSessions'[s] = NoSession /\ phase' # "destroyed"
           /\ ended'[owner[s]] # "asked" /\ peer[owner[s]] # "reset"
           => sent[owner[s]] = pushed[owner[s]]]_vars
  BY DEF AllSent, EndsReserved
<1> QED
  BY <1>1, <1>2, <1>3, SendingInvInit, PTL DEF Spec, ReservedSendsAll

(***************************************************************************)
(* Network implements ByteChannel.                                         *)
(***************************************************************************)

\* A channel that has ended has lost its connection for good.
EndedIsClosed == \A c \in Conns : ended[c] # "no" => link[c] = "closed"

LEMMA EndedNext == TypeOK /\ EndedIsClosed /\ [Next]_vars => EndedIsClosed'
<1> SUFFICES ASSUME TypeOK, EndedIsClosed, [Next]_vars PROVE EndedIsClosed'
  OBVIOUS
<1>1. ASSUME UNCHANGED ended, \A c \in Conns : link[c] = "closed" => link'[c] = "closed"
      PROVE  EndedIsClosed'
  BY <1>1 DEF EndedIsClosed
<1>2. ASSUME NEW s \in Fds, NEW why, Remove(s, why) PROVE EndedIsClosed'
  BY <1>2 DEF Remove, CloseFd, EndedIsClosed
<1>3. CASE DestroyNetwork
  <2>1. UNCHANGED ended /\ \A c \in Conns : link[c] = "closed" => link'[c] = "closed"
    BY <1>3 DEF DestroyNetwork, descriptors, history
  <2> QED BY <1>1, <2>1
<1>4. CASE ConnectNewClient
  BY <1>1, <1>4 DEF ConnectNewClient, Connect_Accepted, Connect_Refused, history, TypeOK
<1>5. ASSUME NEW s \in Fds, OtherCall(s) PROVE EndedIsClosed'
  BY <1>1, <1>2, <1>5
     DEF OtherCall, DisconnectClient, Drop, ReserveDisconnectClient, PullFromRecvBuffer,
         ClearRecvBuffer, PushToSendBuffer, ClearSendBuffer, kernel, history
<1>6. ASSUME NEW s \in Fds, RecvFromClient(s) PROVE EndedIsClosed'
  BY <1>1, <1>2, <1>6 DEF RecvFromClient, Recv_Ignored, Recv_Data, Recv_Fails, Drop, kernel
<1>7. ASSUME NEW s \in Fds, SendToClient(s) PROVE EndedIsClosed'
  BY <1>1, <1>2, <1>7
     DEF SendToClient, Send_Idle, Send_Some, Send_Farewell, Send_Fails, Drop, kernel
<1>8. CASE Clients
  <2>1. UNCHANGED ended /\ \A c \in Conns : link[c] = "closed" => link'[c] = "closed"
    BY <1>8 DEF Clients, ClientConnects, ClientSends, ClientLeaves, KernelDrains, history, TypeOK
  <2> QED BY <1>1, <2>1
<1>9. CASE InitServer \/ Others \/ UNCHANGED vars
  BY <1>1, <1>9 DEF InitServer, Others, OtherOpens, OtherCloses, vars, kernel, history
<1> QED
  BY <1>3, <1>4, <1>5, <1>6, <1>7, <1>8, <1>9, StepKinds DEF OtherStep

\* A part that comes first in a stream is its beginning.
LEMMA ComesFirst ==
  ASSUME NEW x \in Seq(Bytes), NEW y \in Seq(Bytes), NEW stream, stream = x \o y
  PROVE  Len(x) \in 0 .. Len(stream) /\ Channel!Beginning(stream, Len(x)) = x
<1>1. /\ stream \in Seq(Bytes) /\ Len(stream) = Len(x) + Len(y)
      /\ Len(x) \in Nat /\ Len(y) \in Nat
      /\ \A i \in 1 .. Len(x) : stream[i] = x[i]
  BY ConcatProperties, LenProperties
<1>2. /\ SubSeq(stream, 1, Len(x)) \in Seq(Bytes)
      /\ Len(SubSeq(stream, 1, Len(x))) = Len(x)
      /\ \A i \in 1 .. Len(x) : SubSeq(stream, 1, Len(x))[i] = stream[i]
  <2>1. Len(x) \in 0 .. Len(stream)
    BY <1>1
  <2>2. First(stream, Len(x)) \in Seq(Bytes) /\ Len(First(stream, Len(x))) = Len(x)
    BY <1>1, <2>1, Cuts
  <2>3. \A i \in 1 .. Len(x) : SubSeq(stream, 1, Len(x))[i] = stream[i]
    BY <1>1, <2>1, SubSeqProperties
  <2> QED
    BY <2>2, <2>3 DEF First
<1>3. SubSeq(stream, 1, Len(x)) = x
  BY <1>1, <1>2, SeqEqual
<1> QED
  BY <1>1, <1>3 DEF Channel!Beginning

\* The invariant under which Network is a channel to each client.
ChannelInv == SendingInv /\ Receiving /\ EndedIsClosed

LEMMA ChannelInvNext ==
  CheckSession /\ Nul \notin Bytes /\ ChannelInv /\ [Next]_vars => ChannelInv'
BY SendingInvNext, ReceivingNext, EndedNext DEF ChannelInv, SendingInv, Ownership

\* A session belongs to a channel that has not ended.
LEMMA ChannelOfSession ==
  ASSUME ChannelInv, NEW s \in Fds, HasSession(s)
  PROVE  /\ owner[s] \in Conns /\ believed[s] = owner[s] /\ Channel!Lives(owner[s])
         /\ At(s) = mSessions[s] /\ At(s) \in Session /\ At(s).addr = owner[s]
  BY AtType DEF ChannelInv, SendingInv, EndedIsClosed, Ownership, SessionsOwnTheirSockets,
     Channel!Lives, At

\* Removing a session ends its channel and no other.
LEMMA ChannelEnds ==
  ASSUME ChannelInv, NEW s \in Fds, HasSession(s), NEW why \in {"asked", "farewell", "lost"},
         Remove(s, why), UNCHANGED <<pushed, sent, peerSent, taken>>,
         why = "farewell" => sent[owner[s]] = pushed[owner[s]]
  PROVE  Channel!Next
<1> DEFINE c == owner[s]
<1>1. c \in Conns /\ Channel!Lives(c)
  BY ChannelOfSession
<1>2. ended \in [Conns -> Endings]
  BY DEF ChannelInv, SendingInv, TypeOK
<1>3. ended' = [ended EXCEPT ![c] = why]
  BY <1>2 DEF Remove
<1>4. Channel!End(c)
  BY <1>1, <1>3 DEF Channel!End, Channel!streams
<1> QED
  BY <1>1, <1>4 DEF Channel!Next

\* What is pulled next continues what was pulled.
LEMMA ChannelTakes ==
  ASSUME ChannelInv, ChannelInv', NEW s \in Fds, HasSession(s), NEW ses \in Session, Store(s, ses),
         NEW x \in Seq(Bytes), taken' = [taken EXCEPT ![owner[s]] = @ \o x],
         UNCHANGED <<owner, pushed, sent, peerSent, ended>>
  PROVE  Channel!Next
<1> DEFINE c    == owner[s]
           rest == mSessions'[s].recvBuffer \o inbound'[c]
<1>1. c \in Conns /\ Channel!Lives(c) /\ taken[c] \in Seq(Bytes)
  BY ChannelOfSession DEF ChannelInv, SendingInv, TypeOK
<1>2. TypeOK' /\ RecvIntegrity'
  BY DEF ChannelInv, SendingInv, Receiving
<1>3. HasSession(s)' /\ IsConnected(s)' /\ mSessions'[s] = ses
  <2>1. mSessions' = [mSessions EXCEPT ![s] = ses] /\ mSessions \in [Fds -> Session \cup {NoSession}]
    BY DEF Store, ChannelInv, SendingInv, TypeOK
  <2> QED
    BY <1>1, <2>1, NetworkAssumption DEF HasSession, IsConnected
<1>4. peerSent[c] = taken'[c] \o mSessions'[s].recvBuffer \o inbound'[c]
  BY <1>2, <1>3 DEF RecvIntegrity
<1>5. taken'[c] \in Seq(Bytes) /\ mSessions'[s].recvBuffer \in Seq(Bytes) /\ inbound'[c] \in Seq(Bytes)
  BY <1>1, <1>2, <1>3 DEF TypeOK, Session
<1>6. rest \in Seq(Bytes) /\ peerSent[c] = taken'[c] \o rest
  BY <1>4, <1>5, ConcatProperties, Regroup
<1> HIDE DEF rest
<1>7. Len(taken'[c]) \in 0 .. Len(peerSent[c]) /\ Channel!Beginning(peerSent[c], Len(taken'[c])) = taken'[c]
  BY <1>5, <1>6, ComesFirst
<1>8. Len(taken[c]) <= Len(taken'[c])
  <2>1. taken'[c] = taken[c] \o x
    BY <1>1 DEF ChannelInv, SendingInv, TypeOK
  <2>2. Len(taken'[c]) = Len(taken[c]) + Len(x)
    BY <1>1, <2>1, ConcatProperties
  <2>3. Len(taken[c]) \in Nat /\ Len(x) \in Nat
    BY <1>1, LenProperties
  <2> QED
    BY <2>2, <2>3
<1>9. taken' = [taken EXCEPT ![c] = taken'[c]]
  BY <1>1 DEF ChannelInv, SendingInv, TypeOK
<1>10. Len(taken'[c]) \in Len(taken[c]) .. Len(peerSent[c])
  <2>1. Len(taken[c]) \in Nat /\ Len(taken'[c]) \in Nat
    BY <1>1, <1>5, LenProperties
  <2> QED
    BY <1>7, <1>8, <2>1
<1>11. Channel!Take(c)
  BY <1>1, <1>7, <1>9, <1>10 DEF Channel!Take
<1> QED
  BY <1>1, <1>11 DEF Channel!Next

\* What send() takes next continues what was sent.
LEMMA ChannelSends ==
  ASSUME ChannelInv, ChannelInv', NEW s \in Fds, HasSession(s), NEW ses \in Session, Store(s, ses),
         NEW x \in Seq(Bytes), sent' = [sent EXCEPT ![owner[s]] = @ \o x],
         UNCHANGED <<owner, pushed, peerSent, taken, ended>>
  PROVE  Channel!Next
<1> DEFINE c    == owner[s]
           rest == Unsent(mSessions'[s])
<1>1. c \in Conns /\ Channel!Lives(c) /\ sent[c] \in Seq(Bytes)
  BY ChannelOfSession DEF ChannelInv, SendingInv, TypeOK
<1>2. TypeOK' /\ SendIntegrity'
  BY DEF ChannelInv, SendingInv, Sending
<1>3. HasSession(s)' /\ IsConnected(s)' /\ mSessions'[s] = ses
  <2>1. mSessions' = [mSessions EXCEPT ![s] = ses] /\ mSessions \in [Fds -> Session \cup {NoSession}]
    BY DEF Store, ChannelInv, SendingInv, TypeOK
  <2> QED
    BY <1>1, <2>1, NetworkAssumption DEF HasSession, IsConnected
<1>4. pushed[c] = sent'[c] \o rest
  BY <1>2, <1>3 DEF SendIntegrity, Unsent
<1>5. sent'[c] \in Seq(Bytes) /\ rest \in Seq(Bytes)
  BY <1>1, <1>2, <1>3, SessionUpdates DEF TypeOK
<1> HIDE DEF rest
<1>6. Len(sent'[c]) \in 0 .. Len(pushed[c]) /\ Channel!Beginning(pushed[c], Len(sent'[c])) = sent'[c]
  BY <1>4, <1>5, ComesFirst
<1>7. Len(sent[c]) <= Len(sent'[c])
  <2>1. sent'[c] = sent[c] \o x
    BY <1>1 DEF ChannelInv, SendingInv, TypeOK
  <2>2. Len(sent'[c]) = Len(sent[c]) + Len(x)
    BY <1>1, <2>1, ConcatProperties
  <2>3. Len(sent[c]) \in Nat /\ Len(x) \in Nat
    BY <1>1, LenProperties
  <2> QED
    BY <2>2, <2>3
<1>8. sent' = [sent EXCEPT ![c] = sent'[c]]
  BY <1>1 DEF ChannelInv, SendingInv, TypeOK
<1>9. Len(sent'[c]) \in Len(sent[c]) .. Len(pushed[c])
  <2>1. Len(sent[c]) \in Nat /\ Len(sent'[c]) \in Nat
    BY <1>1, <1>5, LenProperties
  <2> QED
    BY <1>6, <1>7, <2>1
<1>10. Channel!Send(c)
  BY <1>1, <1>6, <1>8, <1>9 DEF Channel!Send
<1> QED
  BY <1>1, <1>10 DEF Channel!Next

\* Each call is a step of the channel of its socket, or none.
LEMMA ChannelCalls ==
  ASSUME CheckSession, Nul \notin Bytes, ChannelInv, ChannelInv', NEW s \in Fds, Call(s)
  PROVE  Channel!Next \/ UNCHANGED history
<1> DEFINE c == owner[s]
<1>1. HasSession(s) /\ TypeOK
  BY CallEditsOrRemoves DEF ChannelInv, SendingInv
<1>2. /\ c \in Conns /\ believed[s] = c /\ Channel!Lives(c)
      /\ At(s) = mSessions[s] /\ At(s) \in Session /\ At(s).addr = c
      /\ At(s).recvBuffer \in Seq(Bytes) /\ Len(At(s).recvBuffer) \in Nat
  BY <1>1, ChannelOfSession, LenProperties DEF Session
<1>3. CASE DisconnectClient(s)
  BY <1>1, <1>3, ChannelEnds DEF DisconnectClient, Drop
<1>4. CASE ReserveDisconnectClient(s)
  BY <1>4 DEF ReserveDisconnectClient
<1>5. CASE RecvFromClient(s)
  BY <1>1, <1>5, ChannelEnds
     DEF RecvFromClient, Recv_Ignored, Recv_Data, Recv_Fails, Drop, history
<1>6. ASSUME NEW endString \in EndStrings, PullFromRecvBuffer(s, endString)
      PROVE  Channel!Next \/ UNCHANGED history
  <2>1. UNCHANGED <<owner, pushed, sent, peerSent, ended>>
    BY <1>6 DEF PullFromRecvBuffer, kernel
  <2>2. ASSUME Pull_All(s) PROVE Channel!Next
    BY <1>1, <1>2, <2>1, <2>2, SessionUpdates, ChannelTakes DEF Pull_All
  <2>3. ASSUME Pull_UpTo(s, endString) PROVE Channel!Next
    <3>1. PICK p \in Occurrences(At(s).recvBuffer, endString) :
            /\ Store(s, [At(s) EXCEPT !.recvBuffer = From(@, p + Len(endString))])
            /\ taken' = [taken EXCEPT ![c] = @ \o First(At(s).recvBuffer, p + Len(endString))]
      BY <1>2, <2>3 DEF Pull_UpTo
    <3>2. p + Len(endString) \in 0 .. Len(At(s).recvBuffer)
      BY <1>2, LenProperties, NetworkAssumption DEF Occurrences
    <3>3. First(At(s).recvBuffer, p + Len(endString)) \in Seq(Bytes)
      BY <1>2, <3>2, Cuts
    <3>4. p + Len(endString) \in Nat
      BY <1>2, <3>2
    <3>5. [At(s) EXCEPT !.recvBuffer = From(@, p + Len(endString))] \in Session
      BY <1>2, <3>4, SessionUpdates
    <3> QED
      BY <1>1, <2>1, <3>1, <3>3, <3>5, ChannelTakes
  <2> QED
    BY <1>6, <2>1, <2>2, <2>3 DEF PullFromRecvBuffer, Pull_Nothing, history
<1>7. CASE ClearRecvBuffer(s)
  <2>1. /\ UNCHANGED <<owner, pushed, sent, peerSent, ended>>
        /\ Store(s, [At(s) EXCEPT !.recvBuffer = <<>>])
        /\ [At(s) EXCEPT !.recvBuffer = <<>>] \in Session
    BY <1>2, <1>7, SessionUpdates DEF ClearRecvBuffer, kernel
  <2>2. \/ taken' = taken
        \/ taken' = [taken EXCEPT ![c] = @ \o At(s).recvBuffer]
    BY <1>2, <1>7 DEF ClearRecvBuffer
  <2> QED
    BY <1>1, <1>2, <2>1, <2>2, ChannelTakes DEF history
<1>8. ASSUME NEW buf \in Messages, PushToSendBuffer(s, buf) PROVE Channel!Next
  <2>1. Channel!Push(c)
    BY <1>2, <1>8 DEF PushToSendBuffer, Channel!Push
  <2> QED BY <1>2, <2>1 DEF Channel!Next
<1>9. CASE ClearSendBuffer(s)
  <2>1. Channel!Withdraw(c)
    BY <1>2, <1>9 DEF ClearSendBuffer, Channel!Withdraw
  <2> QED BY <1>2, <2>1 DEF Channel!Next
<1>10. CASE SendToClient(s)
  <2>1. UNCHANGED <<pushed, peerSent, taken>>
    BY <1>10 DEF SendToClient
  <2>2. ASSUME Send_Some(s) PROVE Channel!Next
    <3> DEFINE offered == CStr(Unsent(At(s)))
               sendLen == Least(Len(offered), SendRoom - queued[owner[s]])
    <3>1. offered \in Seq(Bytes) /\ Len(offered) \in Nat
      BY <1>2, SessionUpdates, CStrType, LenProperties
    <3>2. sendLen \in 0 .. Len(offered)
      BY <1>1, <1>2, <3>1, NetworkAssumption DEF Least, TypeOK
    <3>3. Transmitted(At(s), sendLen, Len(offered)) \in Session
      <4>1. sendLen \in Nat /\ Len(offered) \in Nat
        BY <3>1, <3>2
      <4> HIDE DEF sendLen, offered
      <4> QED
        BY <1>2, <4>1, SessionUpdates
    <3>4. First(offered, sendLen) \in Seq(Bytes)
      BY <3>1, <3>2, Cuts
    <3>5. /\ Store(s, Transmitted(At(s), sendLen, Len(offered)))
          /\ sent' = [sent EXCEPT ![c] = @ \o First(offered, sendLen)]
          /\ UNCHANGED <<owner, ended>>
      BY <2>2 DEF Send_Some
    <3> QED
      BY <1>1, <2>1, <3>3, <3>4, <3>5, ChannelSends
  <2>3. ASSUME Send_Farewell(s) PROVE Channel!Next
    <3>1. ~mSessions[s].sendBufferRemain
      BY <1>2, <2>3 DEF Send_Farewell
    <3>2. sent[c] = pushed[c]
      BY <1>1, <1>2, <3>1, AllSentWhenDone DEF ChannelInv
    <3> QED
      BY <1>1, <2>1, <2>3, <3>2, ChannelEnds DEF Send_Farewell
  <2>4. ASSUME Send_Fails(s) PROVE Channel!Next
    BY <1>1, <2>1, <2>4, ChannelEnds DEF Send_Fails, Drop
  <2> QED
    BY <1>10, <2>1, <2>2, <2>3, <2>4 DEF SendToClient, Send_Idle, history
<1> QED
  BY <1>3, <1>4, <1>5, <1>6, <1>7, <1>8, <1>9, <1>10 DEF Call

LEMMA ChannelStep ==
  ASSUME CheckSession, Nul \notin Bytes, ChannelInv, ChannelInv', [Next]_vars
  PROVE  [Channel!Next]_(Channel!channelVars)
<1>1. ASSUME UNCHANGED history PROVE UNCHANGED Channel!channelVars
  BY <1>1 DEF history, Channel!channelVars, Channel!streams
<1>2. ASSUME NEW s \in Fds, Call(s) PROVE Channel!Next \/ UNCHANGED Channel!channelVars
  BY <1>1, <1>2, ChannelCalls
<1>3. ASSUME NEW c \in Conns, NEW b \in Bytes, ClientSends(c, b) PROVE Channel!Next
  <2>1. Channel!Lives(c)
    BY <1>3 DEF ClientSends, HasClient, ChannelInv, EndedIsClosed, Channel!Lives
  <2>2. Channel!Arrive(c)
    BY <1>3, <2>1 DEF ClientSends, Channel!Arrive
  <2> QED BY <2>2 DEF Channel!Next
<1>4. CASE Clients
  BY <1>1, <1>3, <1>4 DEF Clients, ClientConnects, ClientLeaves, KernelDrains
<1>5. CASE InitServer \/ DestroyNetwork \/ ConnectNewClient \/ Others \/ UNCHANGED vars
  BY <1>1, <1>5 DEF InitServer, DestroyNetwork, ConnectNewClient, Others, OtherOpens, OtherCloses, vars
<1> QED
  BY <1>2, <1>4, <1>5 DEF Next

\* For an application that calls only on sockets with a session, and without
\* zero bytes, Network is a ByteChannel to each client: bytes go each way in
\* order and none is lost, repeated or misdirected, a channel ends once, and
\* nothing is carried, pushed or pulled after its end.
THEOREM ChannelImplemented ==
  CheckSession /\ Nul \notin Bytes => (Spec => ImplementsChannel)
<1> SUFFICES ASSUME CheckSession, Nul \notin Bytes PROVE Spec => ImplementsChannel
  OBVIOUS
<1>1. Init => ChannelInv
  <2> SUFFICES ASSUME Init PROVE ChannelInv
    OBVIOUS
  <2>1. Receiving /\ EndedIsClosed
    BY DEF Init, Receiving, RecvIntegrity, NothingTakenBefore, HasSession, EndedIsClosed
  <2> QED
    BY <2>1, SendingInvInit DEF ChannelInv
<1>2. Init => Channel!Init
  BY DEF Init, Channel!Init
<1>3. ChannelInv /\ [Next]_vars => ChannelInv'
  BY ChannelInvNext
<1>4. ChannelInv /\ ChannelInv' /\ [Next]_vars => [Channel!Next]_(Channel!channelVars)
  BY ChannelStep
<1> QED
  BY <1>1, <1>2, <1>3, <1>4, PTL DEF Spec, ImplementsChannel, Channel!Spec
=============================================================================
