--------------------------- MODULE NetworkProofs ---------------------------
(* Theorems about Network, for every value of its constants. *)
EXTENDS Network, SequenceTheorems, FiniteSetTheorems, TLAPS

(***************************************************************************)
(* C strings and the cuts the code makes in its buffers.                   *)
(***************************************************************************)

\* strlen stays inside the buffer.
LEMMA StrLenInBuffer ==
  ASSUME NEW str \in Seq(Bytes)
  PROVE  StrLen(str) \in 0 .. Len(str)
<1> DEFINE Prefixes == {n \in 1 .. Len(str) : \A i \in 1 .. n : str[i] # Nul}
<1>1. Len(str) \in Nat
  BY LenProperties
<1>2. IsFiniteSet(1 .. Len(str)) /\ Cardinality(1 .. Len(str)) = Len(str)
  BY <1>1, FS_Interval
<1>3. Cardinality(Prefixes) \in Nat /\ Cardinality(Prefixes) <= Len(str)
  <2>1. Prefixes \in SUBSET (1 .. Len(str))
    OBVIOUS
  <2>2. IsFiniteSet(Prefixes) /\ Cardinality(Prefixes) <= Cardinality(1 .. Len(str))
    BY <2>1, <1>2, FS_Subset
  <2> QED
    BY <2>2, <1>2, FS_CardinalityType
<1> QED
  BY <1>1, <1>3 DEF StrLen

\* What a buffer is cut into.
LEMMA Cuts ==
  ASSUME NEW str \in Seq(Bytes), NEW n \in 0 .. Len(str)
  PROVE  /\ First(str, n) \in Seq(Bytes) /\ Len(First(str, n)) = n
         /\ From(str, n) \in Seq(Bytes) /\ Len(From(str, n)) = Len(str) - n
<1>1. Len(str) \in Nat /\ \A i \in 1 .. Len(str) : str[i] \in Bytes
  BY LenProperties, ElementOfSeq
<1>2. /\ First(str, n) \in Seq(Bytes)
      /\ Len(First(str, n)) = IF 1 <= n THEN n - 1 + 1 ELSE 0
  <2>1. \A i \in 1 .. n : str[i] \in Bytes
    BY <1>1
  <2> QED
    BY <2>1, <1>1, SubSeqProperties DEF First
<1>3. /\ From(str, n) \in Seq(Bytes)
      /\ Len(From(str, n)) = IF n + 1 <= Len(str) THEN Len(str) - (n + 1) + 1 ELSE 0
  <2>1. \A i \in n + 1 .. Len(str) : str[i] \in Bytes
    BY <1>1
  <2> QED
    BY <2>1, <1>1, SubSeqProperties DEF From
<1> QED
  BY <1>1, <1>2, <1>3

\* What is appended as a C string is as long as strlen says.
LEMMA CStrType ==
  ASSUME NEW str \in Seq(Bytes)
  PROVE  CStr(str) \in Seq(Bytes) /\ Len(CStr(str)) = StrLen(str)
BY StrLenInBuffer, Cuts DEF CStr, First

\* Where no zero byte travels a C string is the whole string.
LEMMA StrLenNulFree ==
  ASSUME NEW str \in Seq(Bytes), Nul \notin Bytes
  PROVE  StrLen(str) = Len(str) /\ CStr(str) = str
<1>1. Len(str) \in Nat /\ \A i \in 1 .. Len(str) : str[i] \in Bytes
  BY LenProperties, ElementOfSeq
<1>2. {n \in 1 .. Len(str) : \A i \in 1 .. n : str[i] # Nul} = 1 .. Len(str)
  BY <1>1
<1>3. IsFiniteSet(1 .. Len(str)) /\ Cardinality(1 .. Len(str)) = Len(str)
  <2>1. Len(str) \in Nat
    BY <1>1
  <2> QED
    BY <2>1, FS_Interval
<1>4. StrLen(str) = Len(str)
  BY <1>2, <1>3 DEF StrLen
<1> QED
  BY <1>4, SubSeqFull DEF CStr

\* A cut behind the end is empty, and still a sequence.
LEMMA FromType ==
  ASSUME NEW str \in Seq(Bytes), NEW n \in Nat
  PROVE  From(str, n) \in Seq(Bytes)
<1>1. Len(str) \in Nat /\ \A i \in 1 .. Len(str) : str[i] \in Bytes
  BY LenProperties, ElementOfSeq
<1>2. \A i \in n + 1 .. Len(str) : str[i] \in Bytes
  BY <1>1
<1> QED
  BY <1>1, <1>2, SubSeqProperties DEF From

(***************************************************************************)
(* What the code stores in the table is a session.                         *)
(***************************************************************************)
LEMMA SessionUpdates ==
  ASSUME NEW ses \in Session
  PROVE  /\ Unsent(ses) \in Seq(Bytes)
         /\ \A c \in Conns : Connected(ses, c) \in Session
         /\ [ses EXCEPT !.isReservedDisconnect = TRUE] \in Session
         /\ \A data \in Seq(Bytes) : Received(ses, data) \in Session
         /\ [ses EXCEPT !.recvBuffer = <<>>] \in Session
         /\ \A n \in Nat : [ses EXCEPT !.recvBuffer = From(@, n)] \in Session
         /\ \A buf \in Seq(Bytes) : WithPushed(ses, buf) \in Session
         /\ [ses EXCEPT !.sendBuffer = <<>>, !.sendBufferIndex = 0,
                         !.sendBufferRemain = FALSE] \in Session
         /\ \A n, m \in Nat : Transmitted(ses, n, m) \in Session
<1>1. <<>> \in Seq(Bytes)
  BY EmptySeq
<1>2. Unsent(ses) \in Seq(Bytes)
  BY FromType DEF Unsent, Session
<1>3. ASSUME NEW c \in Conns PROVE Connected(ses, c) \in Session
  BY DEF Connected, Session
<1>4. ASSUME NEW data \in Seq(Bytes) PROVE Received(ses, data) \in Session
  <2>1. ses.recvBuffer \o CStr(data) \in Seq(Bytes)
    BY CStrType, ConcatProperties DEF Session
  <2> QED
    BY <2>1 DEF Received, Session
<1>5. ASSUME NEW n \in Nat PROVE [ses EXCEPT !.recvBuffer = From(@, n)] \in Session
  <2>1. From(ses.recvBuffer, n) \in Seq(Bytes)
    BY FromType DEF Session
  <2> QED
    BY <2>1 DEF Session
<1>6. ASSUME NEW buf \in Seq(Bytes) PROVE WithPushed(ses, buf) \in Session
  <2>1. Unsent(ses) \o buf \in Seq(Bytes)
    BY <1>2, ConcatProperties
  <2> QED
    BY <2>1 DEF WithPushed, Session
<1>7. ASSUME NEW n \in Nat, NEW m \in Nat PROVE Transmitted(ses, n, m) \in Session
  <2>1. CASE n = m
    BY <2>1, <1>1 DEF Transmitted, Session
  <2>2. CASE n # m
    <3>1. ses.sendBufferIndex + n \in Nat
      BY DEF Session
    <3> QED
      BY <2>2, <3>1 DEF Transmitted, Session
  <2> QED
    BY <2>1, <2>2
<1>8. /\ [ses EXCEPT !.isReservedDisconnect = TRUE] \in Session
      /\ [ses EXCEPT !.recvBuffer = <<>>] \in Session
      /\ [ses EXCEPT !.sendBuffer = <<>>, !.sendBufferIndex = 0,
                      !.sendBufferRemain = FALSE] \in Session
  BY <1>1 DEF Session
<1> QED
  BY <1>2, <1>3, <1>4, <1>5, <1>6, <1>7, <1>8

\* What a call finds under a socket number is a session.
LEMMA AtType ==
  ASSUME TypeOK, NEW s \in Fds
  PROVE  At(s) \in Session
<1>1. <<>> \in Seq(Bytes)
  BY EmptySeq
<1>2. EmptySession \in Session
  BY <1>1 DEF EmptySession, Session
<1> QED
  BY <1>2 DEF At, HasSession, TypeOK

\* Storing a session keeps the table well-typed.
LEMMA StoreType ==
  ASSUME TypeOK, NEW s \in Fds, NEW ses \in Session \cup {NoSession}, Store(s, ses)
  PROVE  mSessions' \in [Fds -> Session \cup {NoSession}]
BY DEF Store, TypeOK

\* So does close() for the descriptors and the connections.
LEMMA CloseFdType ==
  ASSUME TypeOK, NEW f \in Fds, CloseFd(f)
  PROVE  owner' \in [Fds -> Nobody \cup Conns] /\ link' \in [Conns -> LinkStates]
BY DEF CloseFd, TypeOK, Nobody, LinkStates

\* And the removal of a session that the application hears of.
LEMMA DropType ==
  ASSUME TypeOK, NEW s \in Fds, NEW why \in Endings, Drop(s, why)
  PROVE  /\ owner' \in [Fds -> Nobody \cup Conns] /\ link' \in [Conns -> LinkStates]
         /\ mSessions' \in [Fds -> Session \cup {NoSession}]
         /\ ended' \in [Conns -> Endings]
         /\ believed' \in [Fds -> Conns \cup {NoConn}]
<1>1. CloseFd(s) /\ Store(s, NoSession)
  BY DEF Drop, Remove
<1>2. ended' \in [Conns -> Endings] /\ believed' \in [Fds -> Conns \cup {NoConn}]
  BY DEF Drop, Remove, TypeOK
<1> QED
  BY <1>1, <1>2, CloseFdType, StoreType

(***************************************************************************)
(* Type correctness.                                                       *)
(***************************************************************************)
LEMMA TypeInit == Init => TypeOK
<1>1. <<>> \in Seq(Bytes)
  BY EmptySeq
<1> QED
  BY <1>1, NetworkAssumption DEF Init, TypeOK, Phases, Nobody, LinkStates, PeerStates, Endings

\* No call, and no step of the clients or the kernel, breaks a type.
LEMMA TypeNext == TypeOK /\ [Next]_vars => TypeOK'
<1> SUFFICES ASSUME TypeOK, [Next]_vars PROVE TypeOK'
  OBVIOUS
<1> USE DEF TypeOK
<1>1. CASE InitServer
  BY <1>1 DEF InitServer, Init_SocketFails, Init_SetupFails, Init_Listens, FreeFds,
              Phases, Nobody, history, vars
<1>2. CASE DestroyNetwork
  <2>1. mSessions' \in [Fds -> Session \cup {NoSession}] /\ phase' \in Phases
    BY <1>2 DEF DestroyNetwork, Phases
  <2>2. owner' \in [Fds -> Nobody \cup Conns] /\ link' \in [Conns -> LinkStates]
    BY <1>2 DEF DestroyNetwork, descriptors, Nobody, LinkStates
  <2> QED
    BY <1>2, <2>1, <2>2 DEF DestroyNetwork, history
<1>3. CASE ConnectNewClient
  <2>1. PICK c \in Conns, s \in FreeFds : Connect_Accepted(c, s) \/ Connect_Refused(c)
    BY <1>3 DEF ConnectNewClient
  <2>2. s \in Fds
    BY DEF FreeFds
  <2>3. Connected(At(s), c) \in Session
    BY <2>2, AtType, SessionUpdates
  <2>4. CASE Connect_Accepted(c, s)
    <3>1. mSessions' \in [Fds -> Session \cup {NoSession}]
      BY <2>2, <2>3, <2>4, StoreType DEF Connect_Accepted
    <3> QED
      BY <1>3, <2>2, <2>4, <3>1 DEF ConnectNewClient, Connect_Accepted, history, LinkStates
  <2>5. CASE Connect_Refused(c)
    BY <1>3, <2>5 DEF ConnectNewClient, Connect_Refused, history, LinkStates
  <2> QED
    BY <2>1, <2>4, <2>5
<1>4. ASSUME NEW s \in Fds, DisconnectClient(s) PROVE TypeOK'
  <2>1. Drop(s, "asked") /\ "asked" \in Endings
    BY <1>4 DEF DisconnectClient, Endings
  <2> QED
    BY <1>4, <2>1, DropType DEF DisconnectClient
<1>5. ASSUME NEW s \in Fds, ReserveDisconnectClient(s) PROVE TypeOK'
  <2>1. mSessions' \in [Fds -> Session \cup {NoSession}]
    BY <1>5, AtType, SessionUpdates, StoreType DEF ReserveDisconnectClient
  <2> QED
    BY <1>5, <2>1 DEF ReserveDisconnectClient, kernel, history
<1>6. ASSUME NEW s \in Fds, RecvFromClient(s) PROVE TypeOK'
  <2>1. CASE Recv_Ignored(s)
    <3>1. mSessions' \in [Fds -> Session \cup {NoSession}]
      BY <2>1, AtType, StoreType DEF Recv_Ignored
    <3> QED
      BY <1>6, <2>1, <3>1 DEF RecvFromClient, Recv_Ignored, kernel
  <2>2. CASE Recv_Data(s)
    <3> DEFINE data    == inbound[owner[s]]
               recvLen == Least(Len(data), kRecvBufferSize - 1)
    <3>1. owner[s] \in Conns /\ data \in Seq(Bytes) /\ Len(data) \in Nat
      BY <2>2, LenProperties DEF Recv_Data, IsConnected
    <3>2. recvLen \in 0 .. Len(data)
      BY <3>1, NetworkAssumption DEF Least
    <3>3. First(data, recvLen) \in Seq(Bytes) /\ From(data, recvLen) \in Seq(Bytes)
      BY <3>1, <3>2, Cuts
    <3>4. Received(At(s), First(data, recvLen)) \in Session
      BY <3>3, AtType, SessionUpdates
    <3>5. mSessions' \in [Fds -> Session \cup {NoSession}]
      BY <2>2, <3>4, StoreType DEF Recv_Data
    <3>6. inbound' \in [Conns -> Seq(Bytes)]
      BY <2>2, <3>1, <3>3 DEF Recv_Data
    <3> QED
      BY <1>6, <2>2, <3>5, <3>6 DEF RecvFromClient, Recv_Data
  <2>3. CASE Recv_Fails(s)
    <3>1. Drop(s, "lost") /\ "lost" \in Endings
      BY <2>3 DEF Recv_Fails, Endings
    <3> QED
      BY <1>6, <2>3, <3>1, DropType DEF RecvFromClient, Recv_Fails
  <2> QED
    BY <1>6, <2>1, <2>2, <2>3 DEF RecvFromClient
<1>7. ASSUME NEW s \in Fds, NEW endString \in EndStrings, PullFromRecvBuffer(s, endString)
      PROVE  TypeOK'
  <2> DEFINE rest == At(s).recvBuffer
  <2>1. rest \in Seq(Bytes) /\ Len(rest) \in Nat /\ Len(endString) \in Nat
    BY AtType, LenProperties, NetworkAssumption DEF Session
  <2>2. CASE Pull_All(s)
    <3>1. mSessions' \in [Fds -> Session \cup {NoSession}]
      BY <2>2, AtType, SessionUpdates, StoreType DEF Pull_All
    <3>2. taken' \in [Conns -> Seq(Bytes)]
      BY <2>1, <2>2, ConcatProperties DEF Pull_All
    <3> QED
      BY <1>7, <3>1, <3>2 DEF PullFromRecvBuffer, kernel
  <2>3. CASE Pull_UpTo(s, endString)
    <3>1. PICK p \in Occurrences(rest, endString) :
            /\ Store(s, [At(s) EXCEPT !.recvBuffer = From(@, p + Len(endString))])
            /\ taken' = [taken EXCEPT ![At(s).addr] = @ \o First(rest, p + Len(endString))]
      BY <2>3 DEF Pull_UpTo
    <3>2. p + Len(endString) \in 0 .. Len(rest)
      BY <2>1 DEF Occurrences
    <3>3. mSessions' \in [Fds -> Session \cup {NoSession}]
      <4>1. At(s) \in Session /\ p + Len(endString) \in Nat
        BY <2>1, <3>2, AtType
      <4>2. [At(s) EXCEPT !.recvBuffer = From(@, p + Len(endString))] \in Session
        BY <4>1, SessionUpdates
      <4> QED
        BY <3>1, <4>2, StoreType
    <3>4. taken' \in [Conns -> Seq(Bytes)]
      BY <2>1, <3>1, <3>2, Cuts, ConcatProperties
    <3> QED
      BY <1>7, <3>3, <3>4 DEF PullFromRecvBuffer, kernel
  <2>4. CASE Pull_Nothing(s, endString)
    <3>1. mSessions' \in [Fds -> Session \cup {NoSession}]
      BY <2>4, AtType, StoreType DEF Pull_Nothing
    <3> QED
      BY <1>7, <2>4, <3>1 DEF PullFromRecvBuffer, Pull_Nothing, kernel
  <2> QED
    BY <1>7, <2>2, <2>3, <2>4 DEF PullFromRecvBuffer
<1>8. ASSUME NEW s \in Fds, ClearRecvBuffer(s) PROVE TypeOK'
  <2>1. mSessions' \in [Fds -> Session \cup {NoSession}]
    BY <1>8, AtType, SessionUpdates, StoreType DEF ClearRecvBuffer
  <2>2. taken' \in [Conns -> Seq(Bytes)]
    <3>1. At(s).recvBuffer \in Seq(Bytes)
      BY AtType DEF Session
    <3> QED
      BY <1>8, <3>1, ConcatProperties DEF ClearRecvBuffer
  <2> QED
    BY <1>8, <2>1, <2>2 DEF ClearRecvBuffer, kernel
<1>9. ASSUME NEW s \in Fds, NEW buf \in Messages, PushToSendBuffer(s, buf) PROVE TypeOK'
  <2>1. buf \in Seq(Bytes)
    BY NetworkAssumption
  <2>2. mSessions' \in [Fds -> Session \cup {NoSession}]
    BY <1>9, <2>1, AtType, SessionUpdates, StoreType DEF PushToSendBuffer
  <2>3. pushed' \in [Conns -> Seq(Bytes)]
    BY <1>9, <2>1, ConcatProperties DEF PushToSendBuffer
  <2> QED
    BY <1>9, <2>2, <2>3 DEF PushToSendBuffer, kernel
<1>10. ASSUME NEW s \in Fds, ClearSendBuffer(s) PROVE TypeOK'
  <2>1. mSessions' \in [Fds -> Session \cup {NoSession}]
    BY <1>10, AtType, SessionUpdates, StoreType DEF ClearSendBuffer
  <2>2. pushed' \in [Conns -> Seq(Bytes)]
    BY <1>10 DEF ClearSendBuffer, MayCall
  <2> QED
    BY <1>10, <2>1, <2>2 DEF ClearSendBuffer, kernel
<1>11. ASSUME NEW s \in Fds, SendToClient(s) PROVE TypeOK'
  <2>1. CASE Send_Idle(s)
    <3>1. mSessions' \in [Fds -> Session \cup {NoSession}]
      BY <2>1, AtType, StoreType DEF Send_Idle
    <3> QED
      BY <1>11, <2>1, <3>1 DEF SendToClient, Send_Idle, kernel
  <2>2. CASE Send_Farewell(s)
    <3>1. CloseFd(s) /\ Store(s, NoSession) /\ ended' \in [Conns -> Endings]
      BY <2>2 DEF Send_Farewell, Remove, Endings
    <3>2. /\ owner' \in [Fds -> Nobody \cup Conns] /\ link' \in [Conns -> LinkStates]
          /\ mSessions' \in [Fds -> Session \cup {NoSession}]
      BY <3>1, CloseFdType, StoreType
    <3> QED
      BY <1>11, <2>2, <3>1, <3>2 DEF SendToClient, Send_Farewell
  <2>3. CASE Send_Some(s)
    <3> DEFINE offered == CStr(Unsent(At(s)))
               sendLen == Least(Len(offered), SendRoom - queued[owner[s]])
    <3>1. offered \in Seq(Bytes) /\ Len(offered) \in Nat
      BY AtType, SessionUpdates, CStrType, LenProperties
    <3>2. owner[s] \in Conns /\ queued[owner[s]] \in 0 .. SendRoom
      BY <2>3 DEF Send_Some, CanSend, IsConnected
    <3>3. sendLen \in 0 .. Len(offered) /\ queued[owner[s]] + sendLen \in 0 .. SendRoom
      BY <3>1, <3>2, NetworkAssumption DEF Least
    <3>4. mSessions' \in [Fds -> Session \cup {NoSession}]
      <4>1. At(s) \in Session /\ sendLen \in Nat
        BY <3>1, <3>3, AtType
      <4>2. Transmitted(At(s), sendLen, Len(offered)) \in Session
        BY <3>1, <4>1, SessionUpdates
      <4>3. Store(s, Transmitted(At(s), sendLen, Len(offered)))
        BY <2>3 DEF Send_Some
      <4> QED
        BY <4>2, <4>3, StoreType
    <3>5. sent' \in [Conns -> Seq(Bytes)]
      BY <2>3, <3>1, <3>3, Cuts, ConcatProperties DEF Send_Some
    <3>6. queued' \in [Conns -> 0 .. SendRoom]
      BY <2>3, <3>3 DEF Send_Some
    <3> QED
      BY <1>11, <2>3, <3>4, <3>5, <3>6 DEF SendToClient, Send_Some
  <2>4. CASE Send_Fails(s)
    <3>1. Drop(s, "lost") /\ "lost" \in Endings
      BY <2>4 DEF Send_Fails, Endings
    <3> QED
      BY <1>11, <2>4, <3>1, DropType DEF SendToClient, Send_Fails
  <2> QED
    BY <1>11, <2>1, <2>2, <2>3, <2>4 DEF SendToClient
<1>12. CASE Clients
  <2>1. ASSUME NEW c \in Conns, ClientConnects(c) PROVE TypeOK'
    BY <2>1 DEF ClientConnects, object, history, LinkStates
  <2>2. ASSUME NEW c \in Conns, NEW b \in Bytes, ClientSends(c, b) PROVE TypeOK'
    <3>1. inbound' \in [Conns -> Seq(Bytes)] /\ peerSent' \in [Conns -> Seq(Bytes)]
      BY <2>2, AppendProperties DEF ClientSends
    <3> QED
      BY <2>2, <3>1 DEF ClientSends, object
  <2>3. ASSUME NEW c \in Conns, NEW how \in {"fin", "reset"}, ClientLeaves(c, how)
        PROVE  TypeOK'
    BY <2>3 DEF ClientLeaves, object, history, PeerStates
  <2>4. ASSUME NEW c \in Conns, KernelDrains(c) PROVE TypeOK'
    <3>1. queued[c] - 1 \in 0 .. SendRoom
      BY <2>4, NetworkAssumption DEF KernelDrains
    <3> QED
      BY <2>4, <3>1 DEF KernelDrains, object, history
  <2> QED
    BY <1>12, <2>1, <2>2, <2>3, <2>4 DEF Clients
<1>13. CASE Others
  BY <1>13 DEF Others, OtherOpens, OtherCloses, object, history, Nobody
<1>14. CASE UNCHANGED vars
  BY <1>14 DEF vars, object, kernel, history
<1> QED
  BY <1>1, <1>2, <1>3, <1>4, <1>5, <1>6, <1>7, <1>8, <1>9, <1>10, <1>11, <1>12,
     <1>13, <1>14 DEF Next, Call

\* Every variable keeps to its values, whatever the application calls and in
\* whatever order, on sockets with a session and without.
THEOREM TypeCorrect == Spec => []TypeOK
BY TypeInit, TypeNext, PTL DEF Spec

(***************************************************************************)
(* The window still to be sent lies inside the buffer.                     *)
(***************************************************************************)
WindowOK(ses) ==
  /\ ses.sendBufferIndex <= Len(ses.sendBuffer)
  /\ ~ses.sendBufferRemain => ses.sendBufferIndex = 0
  /\ ses.sendBufferIndex > 0 => ses.sendBufferIndex < Len(ses.sendBuffer)

\* What the code does to one session keeps its send window in its buffer.
LEMMA WindowUpdates ==
  ASSUME NEW ses \in Session, WindowOK(ses)
  PROVE  /\ \A c \in Conns : WindowOK(Connected(ses, c))
         /\ WindowOK([ses EXCEPT !.isReservedDisconnect = TRUE])
         /\ \A data : WindowOK(Received(ses, data))
         /\ \A str : WindowOK([ses EXCEPT !.recvBuffer = str])
         /\ \A buf \in Seq(Bytes) : WindowOK(WithPushed(ses, buf))
         /\ WindowOK([ses EXCEPT !.sendBuffer = <<>>, !.sendBufferIndex = 0,
                                 !.sendBufferRemain = FALSE])
<1>1. Len(ses.sendBuffer) \in Nat /\ ses.sendBufferIndex \in Nat
  BY LenProperties DEF Session
<1>2. ASSUME NEW c \in Conns PROVE WindowOK(Connected(ses, c))
  BY <1>1 DEF WindowOK, Connected, Session
<1>3. /\ WindowOK([ses EXCEPT !.isReservedDisconnect = TRUE])
      /\ \A data : WindowOK(Received(ses, data))
      /\ \A str : WindowOK([ses EXCEPT !.recvBuffer = str])
  BY DEF WindowOK, Received, Session
<1>4. ASSUME NEW buf \in Seq(Bytes) PROVE WindowOK(WithPushed(ses, buf))
  <2>1. Unsent(ses) \o buf \in Seq(Bytes)
    BY SessionUpdates, ConcatProperties
  <2>2. Len(Unsent(ses) \o buf) \in Nat
    BY <2>1, LenProperties
  <2> QED
    BY <2>2 DEF WindowOK, WithPushed, Session
<1>5. WindowOK([ses EXCEPT !.sendBuffer = <<>>, !.sendBufferIndex = 0,
                           !.sendBufferRemain = FALSE])
  BY DEF WindowOK, Session
<1> QED
  BY <1>2, <1>3, <1>4, <1>5

\* send() took sendLen of the remainLen bytes it was offered, and remainLen,
\* which strlen measured, is at most what is unsent.
LEMMA WindowTransmitted ==
  ASSUME NEW ses \in Session, WindowOK(ses), ses.sendBufferRemain,
         NEW remainLen \in 0 .. Len(Unsent(ses)), NEW sendLen \in 0 .. remainLen
  PROVE  WindowOK(Transmitted(ses, sendLen, remainLen))
<1>1. /\ Len(ses.sendBuffer) \in Nat /\ ses.sendBufferIndex \in Nat
      /\ ses.sendBufferIndex <= Len(ses.sendBuffer)
  BY LenProperties DEF Session, WindowOK
<1>2. Len(Unsent(ses)) = Len(ses.sendBuffer) - ses.sendBufferIndex
  <2>1. ses.sendBuffer \in Seq(Bytes) /\ ses.sendBufferIndex \in 0 .. Len(ses.sendBuffer)
    BY <1>1 DEF Session
  <2> QED
    BY <2>1, Cuts DEF Unsent
<1>3. CASE sendLen = remainLen
  BY <1>3 DEF WindowOK, Transmitted, Session
<1>4. CASE sendLen # remainLen
  <2>1. ses.sendBufferIndex + sendLen < Len(ses.sendBuffer)
    BY <1>1, <1>2, <1>4
  <2> QED
    BY <1>1, <1>4, <2>1 DEF WindowOK, Transmitted, Session
<1> QED
  BY <1>3, <1>4

\* The entry that mSessions[socket] makes has an empty window in its buffer.
LEMMA WindowAt ==
  ASSUME TypeOK, SendWindowInBuffer, NEW s \in Fds
  PROVE  WindowOK(At(s))
<1>1. WindowOK(EmptySession)
  BY DEF WindowOK, EmptySession
<1> QED
  BY <1>1 DEF At, WindowOK, SendWindowInBuffer

\* Storing a session whose window is right keeps all windows right.
LEMMA WindowStored ==
  ASSUME TypeOK, SendWindowInBuffer, NEW s \in Fds, NEW ses,
         ses = NoSession \/ WindowOK(ses), Store(s, ses)
  PROVE  SendWindowInBuffer'
BY DEF Store, TypeOK, SendWindowInBuffer, HasSession, WindowOK

\* No step moves a window out of its buffer.
LEMMA WindowNext == TypeOK /\ SendWindowInBuffer /\ [Next]_vars => SendWindowInBuffer'
<1> SUFFICES ASSUME TypeOK, SendWindowInBuffer, [Next]_vars
             PROVE  SendWindowInBuffer'
  OBVIOUS
<1>1. ASSUME UNCHANGED mSessions PROVE SendWindowInBuffer'
  BY <1>1 DEF SendWindowInBuffer, HasSession
<1>2. ASSUME NEW s \in Fds, Store(s, NoSession) PROVE SendWindowInBuffer'
  BY <1>2, WindowStored
<1>3. ASSUME NEW s \in Fds, Store(s, At(s)) PROVE SendWindowInBuffer'
  BY <1>3, WindowAt, WindowStored
<1>4. CASE InitServer
  BY <1>4, <1>1 DEF InitServer
<1>5. CASE DestroyNetwork
  BY <1>5 DEF DestroyNetwork, SendWindowInBuffer, HasSession
<1>6. CASE ConnectNewClient
  <2>1. PICK c \in Conns, s \in FreeFds : Connect_Accepted(c, s) \/ Connect_Refused(c)
    BY <1>6 DEF ConnectNewClient
  <2>2. s \in Fds
    BY DEF FreeFds
  <2>3. WindowOK(Connected(At(s), c))
    BY <2>2, AtType, WindowAt, WindowUpdates
  <2> QED
    BY <2>1, <2>2, <2>3, <1>1, WindowStored DEF Connect_Accepted, Connect_Refused
<1>7. ASSUME NEW s \in Fds, Call(s) PROVE SendWindowInBuffer'
  <2>1. At(s) \in Session /\ WindowOK(At(s))
    BY AtType, WindowAt
  <2>2. CASE DisconnectClient(s)
    BY <2>2, <1>2 DEF DisconnectClient, Drop, Remove
  <2>3. CASE ReserveDisconnectClient(s)
    BY <2>1, <2>3, WindowUpdates, WindowStored DEF ReserveDisconnectClient
  <2>4. CASE RecvFromClient(s)
    <3>1. ASSUME Recv_Data(s) PROVE SendWindowInBuffer'
      <4>1. PICK data : Store(s, Received(At(s), data))
        BY <3>1 DEF Recv_Data
      <4> QED
        BY <2>1, <4>1, WindowUpdates, WindowStored
    <3> QED
      BY <2>4, <3>1, <1>2, <1>3 DEF RecvFromClient, Recv_Ignored, Recv_Fails, Drop, Remove
  <2>5. ASSUME NEW endString \in EndStrings, PullFromRecvBuffer(s, endString)
        PROVE  SendWindowInBuffer'
    <3>1. \/ Store(s, At(s))
          \/ \E str : Store(s, [At(s) EXCEPT !.recvBuffer = str])
      BY <2>5 DEF PullFromRecvBuffer, Pull_All, Pull_UpTo, Pull_Nothing
    <3> QED
      BY <2>1, <3>1, <1>3, WindowUpdates, WindowStored
  <2>6. CASE ClearRecvBuffer(s)
    BY <2>1, <2>6, WindowUpdates, WindowStored DEF ClearRecvBuffer
  <2>7. ASSUME NEW buf \in Messages, PushToSendBuffer(s, buf) PROVE SendWindowInBuffer'
    <3>1. buf \in Seq(Bytes)
      BY NetworkAssumption
    <3>2. WindowOK(WithPushed(At(s), buf))
      BY <2>1, <3>1, WindowUpdates
    <3> QED
      BY <2>7, <3>2, WindowStored DEF PushToSendBuffer
  <2>8. CASE ClearSendBuffer(s)
    BY <2>1, <2>8, WindowUpdates, WindowStored DEF ClearSendBuffer
  <2>9. CASE SendToClient(s)
    <3>1. ASSUME Send_Some(s) PROVE SendWindowInBuffer'
      <4> DEFINE offered == CStr(Unsent(At(s)))
                 sendLen == Least(Len(offered), SendRoom - queued[owner[s]])
      <4>1. Unsent(At(s)) \in Seq(Bytes)
        BY <2>1, SessionUpdates
      <4>2. Len(offered) \in 0 .. Len(Unsent(At(s)))
        BY <4>1, CStrType, StrLenInBuffer
      <4>3. queued[owner[s]] \in 0 .. SendRoom
        BY <3>1 DEF Send_Some, CanSend, IsConnected, TypeOK
      <4>4. sendLen \in 0 .. Len(offered)
        BY <4>1, <4>2, <4>3, LenProperties, NetworkAssumption DEF Least
      <4>5. WindowOK(Transmitted(At(s), sendLen, Len(offered)))
        BY <2>1, <3>1, <4>2, <4>4, WindowTransmitted DEF Send_Some
      <4>6. Store(s, Transmitted(At(s), sendLen, Len(offered)))
        BY <3>1 DEF Send_Some
      <4> QED
        BY <4>5, <4>6, WindowStored
    <3> QED
      BY <2>9, <3>1, <1>2, <1>3
         DEF SendToClient, Send_Idle, Send_Farewell, Send_Fails, Drop, Remove
  <2> QED
    BY <1>7, <2>2, <2>3, <2>4, <2>5, <2>6, <2>7, <2>8, <2>9 DEF Call
<1>8. CASE Clients
  BY <1>8, <1>1 DEF Clients, ClientConnects, ClientSends, ClientLeaves, KernelDrains, object
<1>9. CASE Others
  BY <1>9, <1>1 DEF Others, OtherOpens, OtherCloses, object
<1>10. CASE UNCHANGED vars
  BY <1>10, <1>1 DEF vars, object
<1> QED
  BY <1>4, <1>5, <1>6, <1>7, <1>8, <1>9, <1>10 DEF Next

\* SendToClient never reads behind the end of a send buffer and
\* PushToSendBuffer never erases more than there is, for every order of
\* pushes, partial sends, zero bytes, withdrawals and reused sockets.
THEOREM SendWindowCorrect == Spec => []SendWindowInBuffer
<1>1. Init => SendWindowInBuffer
  BY DEF Init, SendWindowInBuffer, HasSession
<1> QED
  BY <1>1, WindowNext, TypeCorrect, PTL DEF Spec

(***************************************************************************)
(* Who owns which socket, whatever the application calls.                  *)
(***************************************************************************)
SessionsOnlyWhenListening == \A s \in Fds : HasSession(s) => phase = "listening"

\* A descriptor of a client is the only one and its connection is open.
ConnectedOnce ==
  \A s \in Fds : IsConnected(s) =>
    /\ link[owner[s]] = "open"
    /\ \A r \in Fds : owner[r] = owner[s] => r = s

SocketsHaveTheirSessions ==
  phase # "destroyed" =>
    \A s \in Fds : IsConnected(s) => HasSession(s) /\ mSessions[s].addr = owner[s]

\* An entry that a call on a socket without a session has made.
PhantomsHoldNothing ==
  \A s \in Fds : HasSession(s) /\ ~IsConnected(s) => mSessions[s].recvBuffer = <<>>

\* Before the object listens the application knows of no socket.
NoneBelievedBefore ==
  phase \in {"constructed", "failed"} => \A s \in Fds : believed[s] = NoConn

\* The inductive invariant.
Sockets ==
  /\ SessionsOnlyWhenListening
  /\ ConnectedOnce
  /\ SocketsHaveTheirSessions
  /\ PhantomsHoldNothing
  /\ NoneBelievedBefore

\* No edit of a session changes the client it is about.
LEMMA AddressKept ==
  ASSUME NEW ses \in Session
  PROVE  /\ [ses EXCEPT !.isReservedDisconnect = TRUE].addr = ses.addr
         /\ \A data : Received(ses, data).addr = ses.addr
         /\ \A str : [ses EXCEPT !.recvBuffer = str].addr = ses.addr
         /\ \A buf : WithPushed(ses, buf).addr = ses.addr
         /\ [ses EXCEPT !.sendBuffer = <<>>, !.sendBufferIndex = 0,
                        !.sendBufferRemain = FALSE].addr = ses.addr
         /\ \A n, m : Transmitted(ses, n, m).addr = ses.addr
BY DEF Session, Received, WithPushed, Transmitted

\* The updates of a session that concern sending keep what was received.
LEMMA RecvBufferKept ==
  ASSUME NEW ses \in Session
  PROVE  /\ [ses EXCEPT !.isReservedDisconnect = TRUE].recvBuffer = ses.recvBuffer
         /\ \A buf : WithPushed(ses, buf).recvBuffer = ses.recvBuffer
         /\ [ses EXCEPT !.sendBuffer = <<>>, !.sendBufferIndex = 0,
                        !.sendBufferRemain = FALSE].recvBuffer = ses.recvBuffer
         /\ \A n, m : Transmitted(ses, n, m).recvBuffer = ses.recvBuffer
BY DEF Session, WithPushed, Transmitted

\* What is written back for a socket that is no client's holds nothing, if what
\* was there did.
StaysEmpty(s, ses) == ~IsConnected(s) /\ At(s).recvBuffer = <<>> => ses.recvBuffer = <<>>

LEMMA FromNothing == ASSUME NEW n \in Nat PROVE From(<<>>, n) = <<>>
<1>1. Len(<<>>) = 0 /\ 0 < n + 1
  BY EmptySeq
<1> QED
  BY <1>1, SubSeqEmpty DEF From

LEMMA BufferEmptied ==
  ASSUME NEW s \in Fds, NEW ses \in Session
  PROVE  StaysEmpty(s, [ses EXCEPT !.recvBuffer = <<>>])
BY DEF StaysEmpty, Session

\* A call either edits the session of its socket or removes it.
\* If there is none, it makes one.  Only what came from a client fills a receive
\* buffer.
LEMMA CallStoresOrRemoves ==
  ASSUME TypeOK, NEW s \in Fds, Call(s)
  PROVE  /\ phase # "destroyed" /\ believed[s] # NoConn
         /\ UNCHANGED <<phase, mServerSocket>>
         /\ \/ /\ \E ses \in Session : /\ ses.addr = At(s).addr /\ Store(s, ses)
                                       /\ StaysEmpty(s, ses)
               /\ UNCHANGED <<owner, link, believed>>
            \/ /\ \E why \in Endings : Remove(s, why)
               /\ believed' \in {believed, [believed EXCEPT ![s] = NoConn]}
<1> DEFINE Edits   == /\ \E ses \in Session : /\ ses.addr = At(s).addr /\ Store(s, ses)
                                             /\ StaysEmpty(s, ses)
                      /\ UNCHANGED <<owner, link, believed>>
           Removes == /\ \E why \in Endings : Remove(s, why)
                      /\ believed' \in {believed, [believed EXCEPT ![s] = NoConn]}
<1>1. phase # "destroyed" /\ believed[s] # NoConn
  BY DEF Call, DisconnectClient, ReserveDisconnectClient, RecvFromClient,
         PullFromRecvBuffer, ClearRecvBuffer, PushToSendBuffer, ClearSendBuffer,
         SendToClient, MayCall
<1>2. At(s) \in Session
  BY AtType
<1>3. Store(s, At(s)) /\ UNCHANGED <<owner, link, believed>> => Edits
  BY <1>2 DEF StaysEmpty
<1>0. ASSUME NEW ses \in Session, ses.recvBuffer = At(s).recvBuffer PROVE StaysEmpty(s, ses)
  BY <1>0 DEF StaysEmpty
<1>4. ASSUME NEW why \in Endings, Drop(s, why) PROVE Removes
  BY <1>4 DEF Drop
<1>5. ASSUME DisconnectClient(s) PROVE Removes
  BY <1>4, <1>5 DEF DisconnectClient, Endings
<1>6. ASSUME ReserveDisconnectClient(s) PROVE Edits
  BY <1>0, <1>2, <1>6, SessionUpdates, AddressKept, RecvBufferKept DEF ReserveDisconnectClient, kernel
<1>7. ASSUME RecvFromClient(s) PROVE Edits \/ Removes
  <2>1. ASSUME Recv_Data(s) PROVE Edits
    <3> DEFINE data    == inbound[owner[s]]
               recvLen == Least(Len(data), kRecvBufferSize - 1)
    <3>1. data \in Seq(Bytes) /\ Len(data) \in Nat
      BY <2>1, LenProperties DEF Recv_Data, IsConnected, TypeOK
    <3>2. recvLen \in 0 .. Len(data)
      BY <3>1, NetworkAssumption DEF Least
    <3>3. First(data, recvLen) \in Seq(Bytes)
      BY <3>1, <3>2, Cuts
    <3>4. /\ Received(At(s), First(data, recvLen)) \in Session
          /\ Received(At(s), First(data, recvLen)).addr = At(s).addr
      BY <1>2, <3>3, SessionUpdates, AddressKept
    <3>5. Store(s, Received(At(s), First(data, recvLen)))
      BY <2>1 DEF Recv_Data
    <3>6. StaysEmpty(s, Received(At(s), First(data, recvLen)))
      BY <2>1 DEF Recv_Data, StaysEmpty
    <3> QED
      BY <2>1, <3>4, <3>5, <3>6 DEF Recv_Data
  <2> QED
    BY <1>3, <1>4, <1>7, <2>1 DEF RecvFromClient, Recv_Ignored, Recv_Fails, kernel, Endings
<1>8. ASSUME NEW endString \in EndStrings, PullFromRecvBuffer(s, endString) PROVE Edits
  <2>1. UNCHANGED <<owner, link, believed>>
    BY <1>8 DEF PullFromRecvBuffer, kernel
  <2>2. \/ Store(s, At(s))
        \/ Store(s, [At(s) EXCEPT !.recvBuffer = <<>>])
        \/ \E n \in Nat : Store(s, [At(s) EXCEPT !.recvBuffer = From(@, n)])
    <3>1. ASSUME Pull_UpTo(s, endString)
          PROVE  \E n \in Nat : Store(s, [At(s) EXCEPT !.recvBuffer = From(@, n)])
      <4>1. PICK p \in Occurrences(At(s).recvBuffer, endString) :
              Store(s, [At(s) EXCEPT !.recvBuffer = From(@, p + Len(endString))])
        BY <3>1 DEF Pull_UpTo
      <4>2. p \in Nat /\ Len(endString) \in Nat
        BY NetworkAssumption, LenProperties DEF Occurrences
      <4>3. p + Len(endString) \in Nat
        BY <4>2
      <4> QED
        BY <4>1, <4>3
    <3> QED
      BY <1>8, <3>1 DEF PullFromRecvBuffer, Pull_All, Pull_Nothing
  <2>3. ASSUME NEW n \in Nat, Store(s, [At(s) EXCEPT !.recvBuffer = From(@, n)]) PROVE Edits
    <3>1. [At(s) EXCEPT !.recvBuffer = From(@, n)].addr = At(s).addr
      BY <1>2, AddressKept
    <3>2. [At(s) EXCEPT !.recvBuffer = From(@, n)] \in Session
      BY <1>2, SessionUpdates
    <3>3. StaysEmpty(s, [At(s) EXCEPT !.recvBuffer = From(@, n)])
      <4>1. From(<<>>, n) = <<>>
        BY <2>3, FromNothing
      <4>2. [At(s) EXCEPT !.recvBuffer = From(@, n)].recvBuffer = From(At(s).recvBuffer, n)
        BY <1>2 DEF Session
      <4> QED
        BY <4>1, <4>2 DEF StaysEmpty
    <3> QED
      BY <2>1, <2>3, <3>1, <3>2, <3>3
  <2>4. ASSUME Store(s, [At(s) EXCEPT !.recvBuffer = <<>>]) PROVE Edits
    BY <1>2, <2>1, <2>4, SessionUpdates, AddressKept, BufferEmptied
  <2> QED
    BY <1>3, <2>1, <2>2, <2>3, <2>4
<1>9. ASSUME ClearRecvBuffer(s) PROVE Edits
  BY <1>2, <1>9, SessionUpdates, AddressKept, BufferEmptied DEF ClearRecvBuffer, kernel
<1>10. ASSUME NEW buf \in Messages, PushToSendBuffer(s, buf) PROVE Edits
  <2>1. buf \in Seq(Bytes)
    BY NetworkAssumption
  <2>2. WithPushed(At(s), buf) \in Session /\ WithPushed(At(s), buf).addr = At(s).addr
    BY <1>2, <2>1, SessionUpdates, AddressKept
  <2> QED
    BY <1>0, <1>2, <1>10, <2>2, RecvBufferKept DEF PushToSendBuffer, kernel
<1>11. ASSUME ClearSendBuffer(s) PROVE Edits
  BY <1>0, <1>2, <1>11, SessionUpdates, AddressKept, RecvBufferKept DEF ClearSendBuffer, kernel
<1>12. ASSUME SendToClient(s) PROVE Edits \/ Removes
  <2>1. ASSUME Send_Some(s) PROVE Edits
    <3> DEFINE offered == CStr(Unsent(At(s)))
               sendLen == Least(Len(offered), SendRoom - queued[owner[s]])
    <3>1. Len(offered) \in Nat
      BY <1>2, SessionUpdates, CStrType, LenProperties
    <3>2. queued[owner[s]] \in 0 .. SendRoom
      BY <2>1 DEF Send_Some, CanSend, IsConnected, TypeOK
    <3>3. sendLen \in Nat
      BY <3>1, <3>2, NetworkAssumption DEF Least
    <3>4. /\ Transmitted(At(s), sendLen, Len(offered)) \in Session
          /\ Transmitted(At(s), sendLen, Len(offered)).addr = At(s).addr
      <4>1. Transmitted(At(s), sendLen, Len(offered)) \in Session
        BY <1>2, <3>1, <3>3, SessionUpdates
      <4>2. Transmitted(At(s), sendLen, Len(offered)).addr = At(s).addr
        BY <1>2, AddressKept
      <4> QED
        BY <1>2, <4>1, <4>2
    <3>5. Store(s, Transmitted(At(s), sendLen, Len(offered)))
      BY <2>1 DEF Send_Some
    <3>6. StaysEmpty(s, Transmitted(At(s), sendLen, Len(offered)))
      BY <1>0, <1>2, <3>4, RecvBufferKept
    <3> QED
      BY <2>1, <3>4, <3>5, <3>6 DEF Send_Some
  <2>2. ASSUME Send_Farewell(s) PROVE Removes
    BY <2>2 DEF Send_Farewell, Endings
  <2> QED
    BY <1>3, <1>4, <1>12, <2>1, <2>2 DEF SendToClient, Send_Idle, Send_Fails, kernel, Endings
<1>13. UNCHANGED <<phase, mServerSocket>>
  BY DEF Call, DisconnectClient, ReserveDisconnectClient, RecvFromClient,
         PullFromRecvBuffer, ClearRecvBuffer, PushToSendBuffer, ClearSendBuffer, SendToClient
<1>14. Edits \/ Removes
  BY <1>5, <1>6, <1>7, <1>8, <1>9, <1>10, <1>11, <1>12 DEF Call
<1> QED
  BY <1>1, <1>13, <1>14

\* No step of any program breaks it.
LEMMA SocketsNext == TypeOK /\ Sockets /\ [Next]_vars => Sockets'
<1> SUFFICES ASSUME TypeOK, Sockets, [Next]_vars PROVE Sockets'
  OBVIOUS
<1> USE DEF Sockets
<1>1. CASE InitServer
  <2>1. phase \in {"constructed", "failed"} /\ UNCHANGED <<mSessions, link, believed>>
    BY <1>1 DEF InitServer
  <2>2. \A s \in Fds : ~HasSession(s) /\ ~IsConnected(s) /\ ~HasSession(s)'
    BY <2>1 DEF SessionsOnlyWhenListening, SocketsHaveTheirSessions, HasSession
  <2>3. \A s \in Fds : owner'[s] \in {owner[s], "server"}
    BY <1>1 DEF InitServer, Init_SocketFails, Init_SetupFails, Init_Listens, FreeFds, TypeOK
  <2>4. \A s \in Fds : ~IsConnected(s)'
    BY <2>2, <2>3, NetworkAssumption DEF IsConnected, Nobody
  <2> QED
    BY <2>1, <2>2, <2>4 DEF SessionsOnlyWhenListening, ConnectedOnce, SocketsHaveTheirSessions,
                            PhantomsHoldNothing, NoneBelievedBefore
<1>2. CASE DestroyNetwork
  <2>1. phase' = "destroyed" /\ \A s \in Fds : ~HasSession(s)'
    BY <1>2 DEF DestroyNetwork, HasSession
  <2>2. \A s \in Fds : owner'[s] \in {owner[s], "free"}
    BY <1>2 DEF DestroyNetwork, descriptors, TypeOK
  <2>3. \A s \in Fds : IsConnected(s)' => IsConnected(s) /\ owner'[s] = owner[s]
    BY <2>2, NetworkAssumption DEF IsConnected, Nobody
  <2>4. \A s \in Fds : IsConnected(s)' => link'[owner[s]] = "open"
    <3> SUFFICES ASSUME NEW s \in Fds, IsConnected(s)' PROVE link'[owner[s]] = "open"
      OBVIOUS
    <3>1. owner[s] \in Conns /\ owner'[s] = owner[s] /\ link[owner[s]] = "open"
      BY <2>3 DEF IsConnected, ConnectedOnce
    <3>2. CASE mServerSocket = ERROR
      BY <1>2, <3>1, <3>2 DEF DestroyNetwork, descriptors
    <3>3. CASE mServerSocket # ERROR
      <4>1. owner' = [owner EXCEPT ![mServerSocket] = "free"] /\ mServerSocket \in Fds
        BY <1>2, <3>3 DEF DestroyNetwork, TypeOK
      <4>2. mServerSocket # s
        BY <3>1, <4>1, NetworkAssumption DEF Nobody, TypeOK
      <4>3. owner[mServerSocket] # owner[s]
        BY <3>1, <4>1, <4>2 DEF ConnectedOnce, IsConnected
      <4> QED
        BY <1>2, <3>1, <3>3, <4>3 DEF DestroyNetwork
    <3> QED
      BY <3>2, <3>3
  <2>5. ConnectedOnce'
    BY <2>2, <2>3, <2>4 DEF ConnectedOnce, IsConnected
  <2> QED
    BY <2>1, <2>5
       DEF SessionsOnlyWhenListening, SocketsHaveTheirSessions, PhantomsHoldNothing, NoneBelievedBefore
<1>3. CASE ConnectNewClient
  <2>1. PICK c \in Conns, s \in FreeFds :
          link[c] = "queued" /\ (Connect_Accepted(c, s) \/ Connect_Refused(c))
    BY <1>3 DEF ConnectNewClient
  <2>2. s \in Fds /\ owner[s] = "free" /\ phase = "listening" /\ phase' = "listening"
    BY <1>3 DEF FreeFds, ConnectNewClient
  <2>3. \A r \in Fds : owner[r] # c
    BY <2>1 DEF ConnectedOnce, IsConnected
  <2>4. CASE Connect_Accepted(c, s)
    <3>1. Connected(At(s), c) \in Session /\ Connected(At(s), c).addr = c
      BY <2>2, AtType, SessionUpdates DEF Connected, Session
    <3>2. /\ owner' = [owner EXCEPT ![s] = c] /\ link' = [link EXCEPT ![c] = "open"]
          /\ mSessions' = [mSessions EXCEPT ![s] = Connected(At(s), c)]
      BY <2>4 DEF Connect_Accepted, Store
    <3>3. /\ owner'[s] = c /\ link'[c] = "open" /\ IsConnected(s)'
          /\ mSessions'[s] = Connected(At(s), c) /\ HasSession(s)'
      BY <2>2, <3>1, <3>2, NetworkAssumption DEF TypeOK, HasSession, IsConnected
    <3>4. \A r \in Fds : r # s => /\ owner'[r] = owner[r] /\ mSessions'[r] = mSessions[r]
                                  /\ HasSession(r)' <=> HasSession(r)
                                  /\ IsConnected(r)' <=> IsConnected(r)
      BY <2>2, <3>2 DEF TypeOK, HasSession, IsConnected
    <3>5. \A r \in Fds : r # s /\ IsConnected(r) => link'[owner[r]] = link[owner[r]]
      BY <2>3, <3>2 DEF TypeOK, IsConnected
    <3>6. ConnectedOnce'
      BY <2>3, <3>3, <3>4, <3>5 DEF ConnectedOnce, IsConnected
    <3>7. SocketsHaveTheirSessions' /\ PhantomsHoldNothing'
      BY <2>2, <3>1, <3>3, <3>4 DEF SocketsHaveTheirSessions, PhantomsHoldNothing
    <3> QED
      BY <2>2, <3>6, <3>7 DEF SessionsOnlyWhenListening, NoneBelievedBefore
  <2>5. CASE Connect_Refused(c)
    <3>1. UNCHANGED <<owner, mSessions>> /\ link' = [link EXCEPT ![c] = "closed"]
      BY <2>5 DEF Connect_Refused
    <3>2. \A r \in Fds : IsConnected(r) => link'[owner[r]] = link[owner[r]]
      BY <2>3, <3>1 DEF TypeOK, IsConnected
    <3> QED
      BY <2>2, <3>1, <3>2
         DEF SessionsOnlyWhenListening, ConnectedOnce, SocketsHaveTheirSessions,
             PhantomsHoldNothing, NoneBelievedBefore, IsConnected, HasSession
  <2> QED
    BY <2>1, <2>4, <2>5
<1>4. ASSUME NEW s \in Fds, Call(s) PROVE Sockets'
  <2>1. phase = "listening" /\ phase' = "listening"
    BY <1>4, CallStoresOrRemoves DEF NoneBelievedBefore, TypeOK, Phases
  <2>2. ASSUME NEW ses \in Session, ses.addr = At(s).addr, Store(s, ses), StaysEmpty(s, ses),
               UNCHANGED <<owner, link, believed>>
        PROVE  Sockets'
    <3>1. /\ mSessions'[s] = ses /\ HasSession(s)'
          /\ \A r \in Fds : r # s => mSessions'[r] = mSessions[r]
      BY <2>2, NetworkAssumption DEF Store, HasSession, TypeOK
    <3>2. IsConnected(s) => ses.addr = owner[s]
      BY <2>1, <2>2 DEF SocketsHaveTheirSessions, At
    <3>3. ~IsConnected(s) => ses.recvBuffer = <<>>
      BY <2>2 DEF PhantomsHoldNothing, At, StaysEmpty, EmptySession
    <3>4. ConnectedOnce'
      BY <2>2 DEF ConnectedOnce, IsConnected
    <3>5. SocketsHaveTheirSessions' /\ PhantomsHoldNothing'
      BY <2>1, <2>2, <3>1, <3>2, <3>3
         DEF SocketsHaveTheirSessions, PhantomsHoldNothing, HasSession, IsConnected
    <3> QED
      BY <2>1, <3>4, <3>5 DEF SessionsOnlyWhenListening, NoneBelievedBefore
  <2>3. ASSUME NEW why \in Endings, Remove(s, why) PROVE Sockets'
    <3>1. /\ owner' = [owner EXCEPT ![s] = "free"]
          /\ link' = [c \in Conns |-> IF owner[s] = c THEN "closed" ELSE link[c]]
          /\ mSessions' = [mSessions EXCEPT ![s] = NoSession]
      BY <2>3 DEF Remove, CloseFd, Store
    <3>2. ~HasSession(s)' /\ ~IsConnected(s)'
      BY <3>1, NetworkAssumption DEF HasSession, IsConnected, TypeOK, Nobody
    <3>3. \A r \in Fds : r # s => /\ mSessions'[r] = mSessions[r] /\ owner'[r] = owner[r]
                                  /\ HasSession(r)' <=> HasSession(r)
                                  /\ IsConnected(r)' <=> IsConnected(r)
      BY <3>1 DEF TypeOK, HasSession, IsConnected
    <3>4. \A r \in Fds : r # s /\ IsConnected(r) => owner[r] # owner[s]
      BY DEF ConnectedOnce
    <3>5. \A r \in Fds : r # s /\ IsConnected(r) => link'[owner[r]] = link[owner[r]]
      BY <3>1, <3>4 DEF IsConnected
    <3>6. ConnectedOnce'
      BY <3>1, <3>2, <3>3, <3>5, NetworkAssumption DEF ConnectedOnce, IsConnected, Nobody, TypeOK
    <3>7. SocketsHaveTheirSessions' /\ PhantomsHoldNothing'
      BY <2>1, <3>2, <3>3 DEF SocketsHaveTheirSessions, PhantomsHoldNothing
    <3> QED
      BY <2>1, <3>6, <3>7 DEF SessionsOnlyWhenListening, NoneBelievedBefore
  <2> QED
    BY <1>4, <2>2, <2>3, CallStoresOrRemoves
<1>5. CASE Clients
  <2>1. UNCHANGED <<phase, mSessions, owner, believed>>
    BY <1>5 DEF Clients, ClientConnects, ClientSends, ClientLeaves, KernelDrains, object
  <2>2. \A c \in Conns : link[c] = "open" => link'[c] = "open"
    BY <1>5 DEF Clients, ClientConnects, ClientSends, ClientLeaves, KernelDrains, TypeOK
  <2> QED
    BY <2>1, <2>2
       DEF SessionsOnlyWhenListening, ConnectedOnce, SocketsHaveTheirSessions,
           PhantomsHoldNothing, NoneBelievedBefore, IsConnected, HasSession
<1>6. CASE Others
  <2>1. UNCHANGED <<phase, mSessions, link, believed>>
    BY <1>6 DEF Others, OtherOpens, OtherCloses, object
  <2>2. PICK f \in Fds : /\ owner[f] \in {"free", "other"}
                        /\ \/ owner' = [owner EXCEPT ![f] = "other"]
                           \/ owner' = [owner EXCEPT ![f] = "free"]
    BY <1>6 DEF Others, OtherOpens, OtherCloses
  <2>3. ~IsConnected(f) /\ ~IsConnected(f)'
    BY <2>2, NetworkAssumption DEF IsConnected, Nobody, TypeOK
  <2>4. \A r \in Fds : r # f => owner'[r] = owner[r]
    BY <2>2 DEF TypeOK
  <2> QED
    BY <2>1, <2>3, <2>4
       DEF SessionsOnlyWhenListening, ConnectedOnce, SocketsHaveTheirSessions,
           PhantomsHoldNothing, NoneBelievedBefore, IsConnected, HasSession
<1>7. CASE UNCHANGED vars
  BY <1>7 DEF vars, object, kernel, descriptors, SessionsOnlyWhenListening, ConnectedOnce,
     SocketsHaveTheirSessions, PhantomsHoldNothing, NoneBelievedBefore, IsConnected, HasSession
<1> QED
  BY <1>1, <1>2, <1>3, <1>4, <1>5, <1>6, <1>7 DEF Next

LEMMA SocketsInit == Init => Sockets
BY NetworkAssumption DEF Init, Sockets, SessionsOnlyWhenListening, ConnectedOnce,
   SocketsHaveTheirSessions, PhantomsHoldNothing, NoneBelievedBefore, IsConnected, HasSession,
   Nobody

LEMMA SocketsHold == Spec => []Sockets
BY SocketsInit, SocketsNext, TypeCorrect, PTL DEF Spec

\* No client's socket is left open without a session while the object lives,
\* for every application: every path that forgets a session closes its socket
\* and the reverse.
THEOREM NoOrphanSocketCorrect == Spec => []NoOrphanSocket
<1>1. Sockets => NoOrphanSocket
  BY DEF Sockets, SocketsHaveTheirSessions, NoOrphanSocket
<1> QED
  BY <1>1, SocketsHold, PTL

\* A call leaves the other sockets alone, and opens no connection.
LEMMA CallLeaves ==
  ASSUME TypeOK, NEW s \in Fds, Call(s)
  PROVE  /\ \A r \in Fds : r # s => mSessions'[r] = mSessions[r] /\ owner'[r] = owner[r]
         /\ \A c \in Conns : link'[c] # "closed" => link'[c] = link[c]
         /\ HasSession(s)' => owner'[s] = owner[s]
<1>1. \A ses : Store(s, ses) => \A r \in Fds : r # s => mSessions'[r] = mSessions[r]
  BY DEF Store, TypeOK
<1>2. \A why : Remove(s, why) =>
        /\ Store(s, NoSession) /\ ~HasSession(s)'
        /\ \A r \in Fds : r # s => owner'[r] = owner[r]
        /\ \A c \in Conns : link'[c] # "closed" => link'[c] = link[c]
  BY DEF Remove, CloseFd, Store, TypeOK, HasSession
<1> QED
  BY <1>1, <1>2, CallStoresOrRemoves

\* The same of an application that checks its sessions.
LEMMA CallEditsOrRemoves ==
  ASSUME TypeOK, CheckSession, NEW s \in Fds, Call(s)
  PROVE  /\ HasSession(s) /\ UNCHANGED <<phase, mServerSocket>>
         /\ \/ /\ \E ses \in Session : ses.addr = mSessions[s].addr /\ Store(s, ses)
               /\ UNCHANGED <<owner, link, believed>>
            \/ /\ \E why \in Endings : Remove(s, why)
               /\ believed' \in {believed, [believed EXCEPT ![s] = NoConn]}
<1>1. HasSession(s)
  BY DEF Call, DisconnectClient, ReserveDisconnectClient, RecvFromClient,
         PullFromRecvBuffer, ClearRecvBuffer, PushToSendBuffer, ClearSendBuffer,
         SendToClient, MayCall
<1>2. At(s) = mSessions[s]
  BY <1>1 DEF At
<1> QED
  BY <1>1, <1>2, CallStoresOrRemoves

(***************************************************************************)
(* Who owns which socket, when the application calls only on sockets that  *)
(* have a session.                                                         *)
(***************************************************************************)
ServerIsOpen ==
  phase = "listening" => mServerSocket \in Fds /\ owner[mServerSocket] = "server"

\* The inductive invariant.
Ownership == Sockets /\ ServerIsOpen /\ SessionsOwnTheirSockets

NoPhantoms == \A s \in Fds : HasSession(s) => IsConnected(s) /\ believed[s] = owner[s]

\* No step of a program that checks its sessions breaks the ownership.
LEMMA OwnershipNext == CheckSession /\ TypeOK /\ Ownership /\ [Next]_vars => Ownership'
<1> SUFFICES ASSUME CheckSession, TypeOK, Ownership, [Next]_vars PROVE Ownership'
  OBVIOUS
<1>0. Sockets /\ ServerIsOpen /\ NoPhantoms
  BY DEF Ownership, SessionsOwnTheirSockets, NoPhantoms, IsConnected
<1>1. ASSUME InitServer PROVE ServerIsOpen' /\ NoPhantoms'
  <2>1. \A s \in Fds : ~HasSession(s)'
    BY <1>0, <1>1 DEF InitServer, Sockets, SessionsOnlyWhenListening, HasSession
  <2>2. ServerIsOpen'
    BY <1>1 DEF InitServer, Init_SocketFails, Init_SetupFails, Init_Listens, FreeFds,
                TypeOK, ServerIsOpen
  <2> QED
    BY <2>1, <2>2 DEF NoPhantoms
<1>2. ASSUME DestroyNetwork PROVE ServerIsOpen' /\ NoPhantoms'
  BY <1>2 DEF DestroyNetwork, HasSession, ServerIsOpen, NoPhantoms
<1>3. ASSUME ConnectNewClient PROVE ServerIsOpen' /\ NoPhantoms'
  <2>1. PICK c \in Conns, s \in FreeFds : Connect_Accepted(c, s) \/ Connect_Refused(c)
    BY <1>3 DEF ConnectNewClient
  <2>2. s \in Fds /\ owner[s] = "free" /\ phase = "listening" /\ UNCHANGED <<phase, mServerSocket>>
    BY <1>3 DEF FreeFds, ConnectNewClient
  <2>3. ASSUME Connect_Accepted(c, s) PROVE ServerIsOpen' /\ NoPhantoms'
    <3>1. /\ owner'[s] = c /\ believed'[s] = c
          /\ \A r \in Fds : r # s => /\ owner'[r] = owner[r] /\ mSessions'[r] = mSessions[r]
                                     /\ believed'[r] = believed[r]
      BY <2>2, <2>3 DEF Connect_Accepted, Store, TypeOK
    <3>2. ServerIsOpen'
      BY <1>0, <2>2, <3>1 DEF ServerIsOpen
    <3> QED
      BY <1>0, <3>1, <3>2 DEF NoPhantoms, HasSession, IsConnected
  <2>4. ASSUME Connect_Refused(c) PROVE ServerIsOpen' /\ NoPhantoms'
    BY <1>0, <2>2, <2>4 DEF Connect_Refused, ServerIsOpen, NoPhantoms, HasSession, IsConnected
  <2> QED
    BY <2>1, <2>3, <2>4
<1>4. ASSUME NEW s \in Fds, Call(s) PROVE ServerIsOpen' /\ NoPhantoms'
  <2>1. HasSession(s) /\ UNCHANGED <<phase, mServerSocket>>
    BY <1>4, CallEditsOrRemoves
  <2>2. owner[s] \in Conns /\ owner[s] # "server"
    BY <1>0, <2>1, NetworkAssumption DEF NoPhantoms, IsConnected, Nobody
  <2>3. ASSUME NEW ses, Store(s, ses), UNCHANGED <<owner, believed>>
        PROVE  ServerIsOpen' /\ NoPhantoms'
    <3>1. \A r \in Fds : HasSession(r)' => HasSession(r)
      BY <2>1, <2>3 DEF Store, HasSession, TypeOK
    <3> QED
      BY <1>0, <2>1, <2>3, <3>1 DEF ServerIsOpen, NoPhantoms, IsConnected
  <2>4. ASSUME NEW why, Remove(s, why), believed' \in {believed, [believed EXCEPT ![s] = NoConn]}
        PROVE  ServerIsOpen' /\ NoPhantoms'
    <3>1. ~HasSession(s)'
      BY <2>4 DEF Remove, Store, HasSession, TypeOK
    <3>2. \A r \in Fds : r # s => /\ mSessions'[r] = mSessions[r] /\ owner'[r] = owner[r]
                                  /\ believed'[r] = believed[r]
      BY <2>4 DEF Remove, CloseFd, Store, TypeOK
    <3>3. ServerIsOpen'
      BY <1>0, <2>1, <2>2, <3>2 DEF ServerIsOpen
    <3> QED
      BY <1>0, <3>1, <3>2, <3>3 DEF NoPhantoms, HasSession, IsConnected
  <2> QED
    BY <1>4, <2>3, <2>4, CallEditsOrRemoves
<1>5. ASSUME Clients \/ UNCHANGED vars PROVE ServerIsOpen' /\ NoPhantoms'
  <2>1. UNCHANGED <<phase, mServerSocket, mSessions, owner, believed>>
    BY <1>5 DEF Clients, ClientConnects, ClientSends, ClientLeaves, KernelDrains, object, vars,
                kernel
  <2> QED
    BY <1>0, <2>1 DEF ServerIsOpen, NoPhantoms, HasSession, IsConnected
<1>6. ASSUME Others PROVE ServerIsOpen' /\ NoPhantoms'
  <2>1. UNCHANGED <<phase, mServerSocket, mSessions, believed>>
    BY <1>6 DEF Others, OtherOpens, OtherCloses, object
  <2>2. PICK f \in Fds : /\ owner[f] \in {"free", "other"}
                        /\ \/ owner' = [owner EXCEPT ![f] = "other"]
                           \/ owner' = [owner EXCEPT ![f] = "free"]
    BY <1>6 DEF Others, OtherOpens, OtherCloses
  <2>3. ~IsConnected(f) /\ owner[f] # "server"
    BY <2>2, NetworkAssumption DEF IsConnected, Nobody, TypeOK
  <2>4. \A r \in Fds : r # f => owner'[r] = owner[r]
    BY <2>2 DEF TypeOK
  <2> QED
    BY <1>0, <2>1, <2>3, <2>4 DEF ServerIsOpen, NoPhantoms, HasSession, IsConnected
<1>7. Sockets' /\ ServerIsOpen' /\ NoPhantoms'
  BY <1>0, <1>1, <1>2, <1>3, <1>4, <1>5, <1>6, SocketsNext DEF Next
<1>8. SessionsOwnTheirSockets'
  BY <1>7 DEF Sockets, SessionsOnlyWhenListening, SocketsHaveTheirSessions, ConnectedOnce,
              NoPhantoms, SessionsOwnTheirSockets, IsConnected
<1> QED
  BY <1>7, <1>8 DEF Ownership

LEMMA OwnershipInit == Init => Ownership
BY SocketsInit DEF Init, Ownership, ServerIsOpen, SessionsOwnTheirSockets, HasSession

LEMMA OwnershipHolds == CheckSession => (Spec => []Ownership)
<1> SUFFICES ASSUME CheckSession PROVE Spec => []Ownership
  OBVIOUS
<1>1. TypeOK /\ Ownership /\ [Next]_vars => Ownership'
  BY OwnershipNext
<1> QED
  BY <1>1, OwnershipInit, TypeCorrect, PTL DEF Spec

\* An application that calls only on sockets that have a session keeps every
\* session on the live socket of its own client, whatever numbers accept()
\* hands out again: no call ever reads, writes or closes for the wrong client.
THEOREM SessionsOwnTheirSocketsCorrect == CheckSession => (Spec => []SessionsOwnTheirSockets)
<1>1. Ownership => SessionsOwnTheirSockets
  BY DEF Ownership
<1> QED
  BY <1>1, OwnershipHolds, PTL

(***************************************************************************)
(* The bytes of the sending side, where no zero byte travels.              *)
(***************************************************************************)

\* The two parts of a cut make up the whole.
LEMMA CutJoins ==
  ASSUME NEW str \in Seq(Bytes), NEW n \in 0 .. Len(str)
  PROVE  First(str, n) \o From(str, n) = str
<1>1. Len(str) \in Nat
  BY LenProperties
<1>2. 1 \in 1 .. Len(str) + 1 /\ n \in 1 - 1 .. Len(str) /\ Len(str) \in n .. Len(str)
  BY <1>1
<1>3. SubSeq(str, 1, n) \o SubSeq(str, n + 1, Len(str)) = SubSeq(str, 1, Len(str))
  BY <1>2, ConcatAdjacentSubSeq
<1> QED
  BY <1>3, SubSeqFull DEF First, From

\* Concatenation is associative.
LEMMA Regroup ==
  ASSUME NEW x \in Seq(Bytes), NEW y \in Seq(Bytes), NEW z \in Seq(Bytes)
  PROVE  (x \o y) \o z = x \o (y \o z)
BY ConcatAssociative

\* Nothing is cut off by an index of zero.
LEMMA FromZero ==
  ASSUME NEW str \in Seq(Bytes)
  PROVE  From(str, 0) = str
BY SubSeqFull DEF From

\* A cut of what a cut left.
LEMMA FromFrom ==
  ASSUME NEW str \in Seq(Bytes), NEW i \in 0 .. Len(str), NEW n \in 0 .. Len(str) - i,
         n < Len(str) - i
  PROVE  From(str, i + n) = From(From(str, i), n)
<1>1. Len(str) \in Nat /\ Len(From(str, i)) = Len(str) - i
  BY LenProperties, Cuts
<1>2. /\ i + 1 \in 1 .. Len(str) /\ Len(str) \in 1 .. Len(str)
      /\ n + 1 \in 1 .. Len(str) - (i + 1) + 1
      /\ Len(str) - i \in 1 .. Len(str) - (i + 1) + 1
  BY <1>1
<1>3. SubSeq(SubSeq(str, i + 1, Len(str)), n + 1, Len(str) - i)
        = SubSeq(str, i + 1 + (n + 1) - 1, i + 1 + (Len(str) - i) - 1)
  BY <1>2, SubSeqOfSubSeq
<1>4. i + 1 + (n + 1) - 1 = i + n + 1 /\ i + 1 + (Len(str) - i) - 1 = Len(str)
  BY <1>1
<1> QED
  BY <1>1, <1>3, <1>4 DEF From

\* What the edits of a session do to the bytes it still has to send.
LEMMA UnsentPushed ==
  ASSUME NEW ses \in Session, NEW buf \in Seq(Bytes)
  PROVE  Unsent(WithPushed(ses, buf)) = Unsent(ses) \o buf
<1>1. Unsent(ses) \o buf \in Seq(Bytes)
  BY SessionUpdates, ConcatProperties
<1>2. /\ WithPushed(ses, buf).sendBuffer = Unsent(ses) \o buf
      /\ WithPushed(ses, buf).sendBufferIndex = 0
  BY DEF WithPushed, Session
<1>3. Unsent(WithPushed(ses, buf)) = From(Unsent(ses) \o buf, 0)
  BY <1>2 DEF Unsent
<1> QED
  BY <1>1, <1>3, FromZero

\* What send() took is the beginning of what was unsent.
LEMMA UnsentTransmitted ==
  ASSUME NEW ses \in Session, WindowOK(ses), NEW n \in 0 .. Len(Unsent(ses))
  PROVE  Unsent(Transmitted(ses, n, Len(Unsent(ses)))) = From(Unsent(ses), n)
<1>1. /\ ses.sendBuffer \in Seq(Bytes) /\ Len(ses.sendBuffer) \in Nat
      /\ ses.sendBufferIndex \in 0 .. Len(ses.sendBuffer)
  BY LenProperties DEF Session, WindowOK
<1>2. /\ Unsent(ses) \in Seq(Bytes)
      /\ Len(Unsent(ses)) = Len(ses.sendBuffer) - ses.sendBufferIndex
  BY <1>1, Cuts DEF Unsent
<1>3. CASE n = Len(Unsent(ses))
  <2> DEFINE after == Transmitted(ses, n, Len(Unsent(ses)))
  <2>1. after.sendBuffer = <<>> /\ after.sendBufferIndex = 0
    BY <1>3 DEF Transmitted, Session
  <2>2. Unsent(after) = <<>>
    BY <2>1, EmptySeq, FromZero DEF Unsent
  <2>3. From(Unsent(ses), n) = <<>>
    <3>1. Len(Unsent(ses)) < n + 1 /\ Len(Unsent(ses)) \in Int /\ n + 1 \in Int
      BY <1>1, <1>2, <1>3
    <3> QED
      BY <3>1, SubSeqEmpty DEF From
  <2> QED
    BY <2>2, <2>3
<1>4. CASE n # Len(Unsent(ses))
  <2> DEFINE after == Transmitted(ses, n, Len(Unsent(ses)))
  <2>1. /\ after.sendBuffer = ses.sendBuffer
        /\ after.sendBufferIndex = ses.sendBufferIndex + n
    BY <1>4 DEF Transmitted, Session
  <2>2. /\ n \in 0 .. Len(ses.sendBuffer) - ses.sendBufferIndex
        /\ n < Len(ses.sendBuffer) - ses.sendBufferIndex
    BY <1>1, <1>2, <1>4
  <2> QED
    BY <1>1, <2>1, <2>2, FromFrom DEF Unsent
<1> QED
  BY <1>3, <1>4

\* The other updates of a session keep what is unsent.
LEMMA UnsentKept ==
  ASSUME NEW ses \in Session
  PROVE  /\ Unsent([ses EXCEPT !.isReservedDisconnect = TRUE]) = Unsent(ses)
         /\ \A data : Unsent(Received(ses, data)) = Unsent(ses)
         /\ \A str : Unsent([ses EXCEPT !.recvBuffer = str]) = Unsent(ses)
BY DEF Unsent, Received, Session

\* The same of an application that checks its sessions.
LEMMA CallFrame ==
  ASSUME TypeOK, CheckSession, Ownership, NEW s \in Fds, Call(s)
  PROVE  /\ \A r \in Fds : r # s => mSessions'[r] = mSessions[r] /\ owner'[r] = owner[r]
         /\ \A c \in Conns : link'[c] # "closed" => link'[c] = link[c]
         /\ HasSession(s)' => owner'[s] = owner[s]
         /\ owner[s] \in Conns /\ believed[s] = owner[s]
         /\ mSessions[s].addr = owner[s] /\ At(s) = mSessions[s] /\ At(s) \in Session
<1>1. HasSession(s)
  BY CallEditsOrRemoves
<1>2. /\ owner[s] \in Conns /\ believed[s] = owner[s] /\ mSessions[s].addr = owner[s]
      /\ At(s) = mSessions[s] /\ At(s) \in Session
  BY <1>1, AtType DEF Ownership, SessionsOwnTheirSockets, At
<1> QED
  BY <1>2, CallLeaves

\* Nothing has been pushed or sent for a connection that is not accepted.
NothingSentBefore ==
  \A c \in Conns : link[c] \in {"idle", "queued"} => pushed[c] = <<>> /\ sent[c] = <<>>

Sending == SendIntegrity /\ NothingSentBefore

\* The step leaves alone what the invariant is about.
LEMMA SendingKept ==
  ASSUME TypeOK, Sending, UNCHANGED <<mSessions, pushed, sent>>,
         \A s \in Fds : IsConnected(s)' => owner'[s] = owner[s],
         \A c \in Conns : link'[c] \in {"idle", "queued"} => link[c] \in {"idle", "queued"}
  PROVE  Sending'
BY DEF Sending, SendIntegrity, NothingSentBefore, IsConnected, HasSession

\* A call keeps the account of its own socket, and so of all.
LEMMA SendingCall ==
  ASSUME TypeOK, CheckSession, Ownership, Sending, NEW s \in Fds, Call(s),
         \A c \in Conns : c # owner[s] => pushed'[c] = pushed[c] /\ sent'[c] = sent[c],
         HasSession(s)' =>
           pushed'[owner[s]] = sent'[owner[s]] \o Unsent(mSessions'[s])
  PROVE  Sending'
<1>1. /\ \A r \in Fds : r # s => mSessions'[r] = mSessions[r] /\ owner'[r] = owner[r]
      /\ \A c \in Conns : link'[c] # "closed" => link'[c] = link[c]
      /\ HasSession(s)' => owner'[s] = owner[s]
      /\ owner[s] \in Conns
  BY CallFrame
<1>2. \A r \in Fds : r # s /\ IsConnected(r) => owner[r] # owner[s]
  BY <1>1 DEF Ownership, Sockets, ConnectedOnce, IsConnected
<1>3. SendIntegrity'
  <2> SUFFICES ASSUME NEW r \in Fds, HasSession(r)', IsConnected(r)'
               PROVE  pushed'[owner'[r]] = sent'[owner'[r]] \o Unsent(mSessions'[r])
    BY DEF SendIntegrity, Unsent
  <2>1. CASE r = s
    BY <1>1, <2>1
  <2>2. CASE r # s
    <3>1. /\ mSessions'[r] = mSessions[r] /\ owner'[r] = owner[r]
          /\ HasSession(r) /\ IsConnected(r)
      BY <1>1, <2>2 DEF HasSession, IsConnected
    <3>2. /\ owner[r] \in Conns /\ owner[r] # owner[s]
          /\ pushed[owner[r]] = sent[owner[r]] \o Unsent(mSessions[r])
      BY <1>2, <2>2, <3>1 DEF Sending, SendIntegrity, IsConnected
    <3> QED
      BY <3>1, <3>2
  <2> QED
    BY <2>1, <2>2
<1>4. NothingSentBefore'
  <2>1. link[owner[s]] = "open"
    BY <1>1 DEF Ownership, Sockets, ConnectedOnce, IsConnected
  <2> QED
    BY <1>1, <2>1 DEF Sending, NothingSentBefore
<1> QED
  BY <1>3, <1>4 DEF Sending

\* No step loses, repeats or misdirects a byte on its way out.
LEMMA SendingNext ==
  CheckSession /\ Nul \notin Bytes /\ TypeOK /\ SendWindowInBuffer /\ Ownership /\ Sending
    /\ [Next]_vars => Sending'
<1> SUFFICES ASSUME CheckSession, Nul \notin Bytes, TypeOK, SendWindowInBuffer, Ownership,
                    Sending, [Next]_vars
             PROVE  Sending'
  OBVIOUS
<1>1. CASE InitServer
  <2>1. UNCHANGED <<mSessions, pushed, sent, link>>
    BY <1>1 DEF InitServer, history
  <2>2. \A s \in Fds : ~HasSession(s)
    BY <1>1 DEF InitServer, Ownership, Sockets, SessionsOnlyWhenListening
  <2> QED
    BY <2>1, <2>2 DEF Sending, SendIntegrity, NothingSentBefore, HasSession
<1>2. CASE DestroyNetwork
  <2>1. UNCHANGED <<pushed, sent>> /\ \A s \in Fds : ~HasSession(s)'
    BY <1>2 DEF DestroyNetwork, history, HasSession
  <2>2. \A c \in Conns : link'[c] \in {"idle", "queued"} => link'[c] = link[c]
    BY <1>2 DEF DestroyNetwork, descriptors
  <2> QED
    BY <2>1, <2>2 DEF Sending, SendIntegrity, NothingSentBefore
<1>3. CASE ConnectNewClient
  <2>1. PICK c \in Conns, s \in FreeFds :
          link[c] = "queued" /\ (Connect_Accepted(c, s) \/ Connect_Refused(c))
    BY <1>3 DEF ConnectNewClient
  <2>2. s \in Fds /\ owner[s] = "free" /\ UNCHANGED <<pushed, sent>>
    BY <1>3 DEF FreeFds, ConnectNewClient, history
  <2>3. ~HasSession(s)
    BY <2>2, NetworkAssumption DEF Ownership, SessionsOwnTheirSockets, Nobody
  <2>4. pushed[c] = <<>> /\ sent[c] = <<>>
    BY <2>1 DEF Sending, NothingSentBefore
  <2>5. CASE Connect_Accepted(c, s)
    <3>1. /\ mSessions' = [mSessions EXCEPT ![s] = Connected(EmptySession, c)]
          /\ owner' = [owner EXCEPT ![s] = c] /\ link' = [link EXCEPT ![c] = "open"]
      BY <2>3, <2>5 DEF Connect_Accepted, Store, At
    <3>2. Unsent(Connected(EmptySession, c)) = <<>>
      BY EmptySeq, FromZero DEF Unsent, Connected, EmptySession
    <3>3. <<>> \o <<>> = <<>>
      BY EmptySeq, ConcatEmptySeq
    <3>4. SendIntegrity'
      <4> SUFFICES ASSUME NEW r \in Fds, HasSession(r)', IsConnected(r)'
                   PROVE  pushed'[owner'[r]] = sent'[owner'[r]] \o Unsent(mSessions'[r])
        BY DEF SendIntegrity, Unsent
      <4>1. CASE r = s
        BY <2>2, <2>4, <3>1, <3>2, <3>3, <4>1 DEF TypeOK
      <4>2. CASE r # s
        <5>1. mSessions'[r] = mSessions[r] /\ owner'[r] = owner[r]
          BY <3>1, <4>2 DEF TypeOK
        <5> QED
          BY <2>2, <5>1 DEF Sending, SendIntegrity, HasSession, IsConnected
      <4> QED
        BY <4>1, <4>2
    <3>5. NothingSentBefore'
      BY <2>2, <3>1 DEF Sending, NothingSentBefore, TypeOK
    <3> QED
      BY <3>4, <3>5 DEF Sending
  <2>6. CASE Connect_Refused(c)
    BY <2>2, <2>6, SendingKept DEF Connect_Refused, TypeOK
  <2> QED
    BY <2>1, <2>5, <2>6
<1>4. ASSUME NEW s \in Fds, Call(s) PROVE Sending'
  <2> DEFINE c   == owner[s]
             ses == mSessions[s]
  <2>1. /\ c \in Conns /\ believed[s] = c /\ ses.addr = c
        /\ At(s) = ses /\ ses \in Session
    BY <1>4, CallFrame
  <2>2. HasSession(s) /\ WindowOK(ses)
    BY <1>4, <2>1, CallEditsOrRemoves, WindowAt
  <2>3. pushed[c] = sent[c] \o Unsent(ses)
    BY <2>1, <2>2 DEF Sending, SendIntegrity, IsConnected
  <2>4. /\ Unsent(ses) \in Seq(Bytes) /\ sent[c] \in Seq(Bytes) /\ pushed[c] \in Seq(Bytes)
    BY <2>1, SessionUpdates DEF TypeOK
  <2>5. ASSUME UNCHANGED <<pushed, sent>>, NEW new, Store(s, new), Unsent(new) = Unsent(ses)
        PROVE  Sending'
    <3>1. mSessions'[s] = new
      BY <2>5 DEF Store, TypeOK
    <3> QED
      BY <1>4, <2>3, <2>5, <3>1, SendingCall
  <2>6. ASSUME UNCHANGED <<pushed, sent>>, NEW why, Remove(s, why) PROVE Sending'
    <3>1. ~HasSession(s)'
      BY <2>6 DEF Remove, Store, HasSession, TypeOK
    <3> QED
      BY <1>4, <2>6, <3>1, SendingCall
  <2>7. CASE DisconnectClient(s)
    BY <2>6, <2>7 DEF DisconnectClient, Drop
  <2>8. CASE ReserveDisconnectClient(s)
    BY <2>1, <2>5, <2>8, UnsentKept DEF ReserveDisconnectClient, history
  <2>9. CASE RecvFromClient(s)
    <3>1. UNCHANGED <<pushed, sent>>
      BY <2>9 DEF RecvFromClient
    <3>2. ASSUME Recv_Data(s) PROVE Sending'
      <4>1. PICK data : Store(s, Received(ses, data))
        BY <2>1, <3>2 DEF Recv_Data
      <4> QED
        BY <2>1, <2>5, <3>1, <4>1, UnsentKept
    <3> QED
      BY <2>1, <2>5, <2>6, <2>9, <3>1, <3>2
         DEF RecvFromClient, Recv_Ignored, Recv_Fails, Drop
  <2>10. ASSUME NEW endString \in EndStrings, PullFromRecvBuffer(s, endString) PROVE Sending'
    <3>1. Store(s, ses) \/ \E str : Store(s, [ses EXCEPT !.recvBuffer = str])
      BY <2>1, <2>10 DEF PullFromRecvBuffer, Pull_All, Pull_UpTo, Pull_Nothing
    <3>2. UNCHANGED <<pushed, sent>>
      BY <2>10 DEF PullFromRecvBuffer
    <3> QED
      BY <2>1, <2>5, <3>1, <3>2, UnsentKept
  <2>11. CASE ClearRecvBuffer(s)
    BY <2>1, <2>5, <2>11, UnsentKept DEF ClearRecvBuffer
  <2>12. ASSUME NEW buf \in Messages, PushToSendBuffer(s, buf) PROVE Sending'
    <3>1. buf \in Seq(Bytes)
      BY NetworkAssumption
    <3>2. /\ mSessions'[s] = WithPushed(ses, buf) /\ sent' = sent
          /\ pushed' = [pushed EXCEPT ![c] = @ \o buf]
      BY <2>1, <2>12 DEF PushToSendBuffer, Store, TypeOK
    <3>3. pushed'[c] = pushed[c] \o buf /\ \A d \in Conns : d # c => pushed'[d] = pushed[d]
      BY <2>1, <3>2 DEF TypeOK
    <3>4. (sent[c] \o Unsent(ses)) \o buf = sent[c] \o (Unsent(ses) \o buf)
      BY <2>4, <3>1, Regroup
    <3>5. pushed'[c] = sent'[c] \o Unsent(mSessions'[s])
      BY <2>1, <2>3, <3>1, <3>2, <3>3, <3>4, UnsentPushed
    <3> QED
      BY <1>4, <3>2, <3>3, <3>5, SendingCall
  <2>13. CASE ClearSendBuffer(s)
    <3> DEFINE new == [ses EXCEPT !.sendBuffer = <<>>, !.sendBufferIndex = 0,
                                  !.sendBufferRemain = FALSE]
    <3>1. mSessions'[s] = new /\ sent' = sent /\ pushed' = [pushed EXCEPT ![c] = sent[c]]
      BY <2>1, <2>13 DEF ClearSendBuffer, Store, TypeOK
    <3>2. Unsent(new) = <<>>
      BY <2>1, EmptySeq, FromZero DEF Unsent, Session
    <3>3. sent[c] \o <<>> = sent[c]
      BY <2>4, ConcatEmptySeq
    <3>4. pushed'[c] = sent[c] /\ \A d \in Conns : d # c => pushed'[d] = pushed[d]
      BY <2>1, <3>1 DEF TypeOK
    <3> QED
      BY <1>4, <3>1, <3>2, <3>3, <3>4, SendingCall
  <2>14. CASE SendToClient(s)
    <3>1. UNCHANGED pushed
      BY <2>14 DEF SendToClient
    <3>2. ASSUME Send_Some(s) PROVE Sending'
      <4> DEFINE u == Unsent(ses)
                 n == Least(Len(u), SendRoom - queued[c])
      <4>1. CStr(Unsent(At(s))) = u /\ Len(u) \in Nat
        BY <2>1, <2>4, StrLenNulFree, LenProperties
      <4>2. n \in 0 .. Len(u)
        BY <2>1, <4>1, NetworkAssumption DEF Least, TypeOK
      <4>3. /\ mSessions'[s] = Transmitted(ses, n, Len(u))
            /\ sent' = [sent EXCEPT ![c] = @ \o First(u, n)]
        BY <2>1, <3>2, <4>1 DEF Send_Some, Store, TypeOK
      <4>4. sent'[c] = sent[c] \o First(u, n) /\ \A d \in Conns : d # c => sent'[d] = sent[d]
        BY <2>1, <4>3 DEF TypeOK
      <4>5. Unsent(mSessions'[s]) = From(u, n)
        BY <2>1, <2>2, <4>2, <4>3, UnsentTransmitted
      <4>6. First(u, n) \in Seq(Bytes) /\ From(u, n) \in Seq(Bytes) /\ First(u, n) \o From(u, n) = u
        BY <2>4, <4>2, Cuts, CutJoins
      <4>7. (sent[c] \o First(u, n)) \o From(u, n) = sent[c] \o (First(u, n) \o From(u, n))
        BY <2>4, <4>6, Regroup
      <4> QED
        BY <1>4, <2>3, <3>1, <4>4, <4>5, <4>6, <4>7, SendingCall
    <3> QED
      BY <2>1, <2>5, <2>6, <2>14, <3>1, <3>2
         DEF SendToClient, Send_Idle, Send_Farewell, Send_Fails, Drop
  <2> QED
    BY <1>4, <2>7, <2>8, <2>9, <2>10, <2>11, <2>12, <2>13, <2>14 DEF Call
<1>5. CASE Clients
  BY <1>5, SendingKept
     DEF Clients, ClientConnects, ClientSends, ClientLeaves, KernelDrains, object, history, TypeOK
<1>6. CASE Others
  <2>1. UNCHANGED <<mSessions, pushed, sent, link>>
    BY <1>6 DEF Others, OtherOpens, OtherCloses, object, history
  <2>2. \A s \in Fds : IsConnected(s)' => owner'[s] = owner[s]
    BY <1>6, NetworkAssumption DEF Others, OtherOpens, OtherCloses, IsConnected, TypeOK, Nobody
  <2> QED
    BY <2>1, <2>2, SendingKept
<1>7. CASE UNCHANGED vars
  BY <1>7, SendingKept DEF vars, object, kernel, history
<1> QED
  BY <1>1, <1>2, <1>3, <1>4, <1>5, <1>6, <1>7 DEF Next

\* What the application pushed for a client is what was sent to it followed by
\* what its session still holds: no byte is lost, repeated, reordered or sent
\* to another client, when no zero byte is pushed and the application calls
\* only on sockets that have a session.
THEOREM SendIntegrityCorrect ==
  CheckSession /\ Nul \notin Bytes => (Spec => []SendIntegrity)
<1> SUFFICES ASSUME CheckSession, Nul \notin Bytes PROVE Spec => []SendIntegrity
  OBVIOUS
<1>1. Init => Sending
  BY DEF Init, Sending, SendIntegrity, NothingSentBefore, HasSession
<1>2. TypeOK /\ SendWindowInBuffer /\ Ownership /\ Sending /\ [Next]_vars => Sending'
  BY SendingNext
<1>3. Spec => []Ownership
  BY OwnershipHolds
<1>4. Sending => SendIntegrity
  BY DEF Sending
<1> QED
  BY <1>1, <1>2, <1>3, <1>4, TypeCorrect, SendWindowCorrect, PTL DEF Spec

(***************************************************************************)
(* The bytes of the receiving side, where no zero byte travels.            *)
(***************************************************************************)

\* A byte that arrives comes after all the others.
LEMMA AppendJoins ==
  ASSUME NEW x \in Seq(Bytes), NEW y \in Seq(Bytes), NEW b \in Bytes
  PROVE  Append(x \o y, b) = x \o Append(y, b)
<1>1. /\ x \o y \in Seq(Bytes) /\ <<b>> \in Seq(Bytes)
      /\ Append(x \o y, b) = (x \o y) \o <<b>> /\ Append(y, b) = y \o <<b>>
  BY ConcatProperties, AppendIsConcat
<1> QED
  BY <1>1, Regroup

\* The front of the receive buffer joins what was taken before.
LEMMA TakenJoins ==
  ASSUME NEW t \in Seq(Bytes), NEW buf \in Seq(Bytes), NEW n \in 0 .. Len(buf)
  PROVE  (t \o First(buf, n)) \o From(buf, n) = t \o buf
<1> DEFINE x == First(buf, n)
           y == From(buf, n)
<1>1. x \in Seq(Bytes) /\ y \in Seq(Bytes)
  BY Cuts
<1>2. x \o y = buf
  BY CutJoins
<1> HIDE DEF x, y
<1>3. (t \o x) \o y = t \o (x \o y)
  BY <1>1, Regroup
<1> QED
  BY <1>2, <1>3 DEF x, y

\* The front of what the kernel holds joins the receive buffer.
LEMMA ReceivedJoins ==
  ASSUME NEW t \in Seq(Bytes), NEW buf \in Seq(Bytes), NEW data \in Seq(Bytes),
         NEW n \in 0 .. Len(data)
  PROVE  t \o (buf \o First(data, n)) \o From(data, n) = t \o buf \o data
<1> DEFINE x == First(data, n)
           y == From(data, n)
<1>1. x \in Seq(Bytes) /\ y \in Seq(Bytes) /\ t \o buf \in Seq(Bytes)
  BY Cuts, ConcatProperties
<1>2. x \o y = data
  BY CutJoins
<1> HIDE DEF x, y
<1>3. t \o (buf \o x) = (t \o buf) \o x
  BY <1>1, Regroup
<1>4. ((t \o buf) \o x) \o y = (t \o buf) \o (x \o y)
  BY <1>1, Regroup
<1> QED
  BY <1>2, <1>3, <1>4 DEF x, y

\* What a client sent before it is accepted waits in the kernel.
NothingTakenBefore ==
  \A c \in Conns : link[c] \in {"idle", "queued"} => taken[c] = <<>> /\ peerSent[c] = inbound[c]

Receiving == RecvIntegrity /\ NothingTakenBefore

\* The step leaves alone what the invariant is about.
LEMMA ReceivingKept ==
  ASSUME TypeOK, Receiving, UNCHANGED <<mSessions, taken, peerSent, inbound>>,
         \A s \in Fds : IsConnected(s)' => owner'[s] = owner[s],
         \A c \in Conns : link'[c] \in {"idle", "queued"} => link[c] \in {"idle", "queued"}
  PROVE  Receiving'
BY DEF Receiving, RecvIntegrity, NothingTakenBefore, IsConnected, HasSession

\* A call on a socket of no client does not concern what was received.
LEMMA ReceivingElsewhere ==
  ASSUME TypeOK, Receiving, NEW s \in Fds, ~IsConnected(s), Call(s),
         UNCHANGED <<taken, inbound, peerSent>>
  PROVE  Receiving'
<1>1. /\ \A r \in Fds : r # s => mSessions'[r] = mSessions[r] /\ owner'[r] = owner[r]
      /\ \A c \in Conns : link'[c] # "closed" => link'[c] = link[c]
      /\ HasSession(s)' => owner'[s] = owner[s]
  BY CallLeaves
<1>2. \A r \in Fds : HasSession(r)' /\ IsConnected(r)' =>
        /\ mSessions'[r] = mSessions[r] /\ owner'[r] = owner[r]
        /\ HasSession(r) /\ IsConnected(r)
  BY <1>1 DEF HasSession, IsConnected
<1>3. RecvIntegrity'
  BY <1>2 DEF Receiving, RecvIntegrity
<1>4. NothingTakenBefore'
  BY <1>1 DEF Receiving, NothingTakenBefore
<1> QED
  BY <1>3, <1>4 DEF Receiving

\* A call keeps the account of its own socket, and so of all.
LEMMA ReceivingCall ==
  ASSUME TypeOK, Sockets, Receiving, NEW s \in Fds, IsConnected(s), Call(s),
         peerSent' = peerSent,
         \A c \in Conns : c # owner[s] => taken'[c] = taken[c] /\ inbound'[c] = inbound[c],
         HasSession(s)' =>
           peerSent[owner[s]] = taken'[owner[s]] \o mSessions'[s].recvBuffer \o inbound'[owner[s]]
  PROVE  Receiving'
<1>1. /\ \A r \in Fds : r # s => mSessions'[r] = mSessions[r] /\ owner'[r] = owner[r]
      /\ \A c \in Conns : link'[c] # "closed" => link'[c] = link[c]
      /\ HasSession(s)' => owner'[s] = owner[s]
      /\ owner[s] \in Conns
  BY CallLeaves DEF IsConnected
<1>2. \A r \in Fds : r # s /\ IsConnected(r) => owner[r] # owner[s]
  BY <1>1 DEF Sockets, ConnectedOnce, IsConnected
<1>3. RecvIntegrity'
  <2> SUFFICES ASSUME NEW r \in Fds, HasSession(r)', IsConnected(r)'
               PROVE  peerSent'[owner'[r]] =
                        taken'[owner'[r]] \o mSessions'[r].recvBuffer \o inbound'[owner'[r]]
    BY DEF RecvIntegrity
  <2>1. CASE r = s
    BY <1>1, <2>1
  <2>2. CASE r # s
    <3>1. /\ mSessions'[r] = mSessions[r] /\ owner'[r] = owner[r]
          /\ HasSession(r) /\ IsConnected(r)
      BY <1>1, <2>2 DEF HasSession, IsConnected
    <3>2. /\ owner[r] \in Conns /\ owner[r] # owner[s]
          /\ peerSent[owner[r]] = taken[owner[r]] \o mSessions[r].recvBuffer \o inbound[owner[r]]
      BY <1>2, <2>2, <3>1 DEF Receiving, RecvIntegrity, IsConnected
    <3> QED
      BY <3>1, <3>2
  <2> QED
    BY <2>1, <2>2
<1>4. NothingTakenBefore'
  <2>1. link[owner[s]] = "open"
    BY <1>1 DEF Sockets, ConnectedOnce, IsConnected
  <2> QED
    BY <1>1, <2>1 DEF Receiving, NothingTakenBefore
<1> QED
  BY <1>3, <1>4 DEF Receiving

\* A call on a socket of no client receives nothing, and there is nothing to take.
LEMMA PhantomCall ==
  ASSUME TypeOK, Sockets, NEW s \in Fds, ~IsConnected(s), Call(s)
  PROVE  UNCHANGED <<taken, inbound, peerSent>>
<1>1. At(s).recvBuffer = <<>>
  BY DEF Sockets, PhantomsHoldNothing, At, EmptySession
<1>2. ASSUME NEW endString \in EndStrings, PullFromRecvBuffer(s, endString)
      PROVE  UNCHANGED <<taken, inbound, peerSent>>
  <2>1. endString # <<>> => Occurrences(At(s).recvBuffer, endString) = {}
    <3> SUFFICES ASSUME endString # <<>>, NEW p \in Occurrences(<<>>, endString) PROVE FALSE
      BY <1>1
    <3>1. Len(endString) \in Nat /\ Len(endString) # 0
      BY NetworkAssumption, EmptySeq, LenProperties
    <3>2. Len(<<>>) = 0 /\ p \in 0 .. Len(<<>>) - Len(endString)
      BY EmptySeq DEF Occurrences
    <3> QED
      BY <3>1, <3>2
  <2>2. UNCHANGED <<inbound, peerSent>>
    BY <1>2 DEF PullFromRecvBuffer, kernel
  <2>3. UNCHANGED taken
    BY <1>1, <1>2, <2>1 DEF PullFromRecvBuffer, Pull_All, Pull_UpTo, Pull_Nothing
  <2> QED
    BY <2>2, <2>3
<1>3. ASSUME ClearRecvBuffer(s) PROVE UNCHANGED <<taken, inbound, peerSent>>
  BY <1>1, <1>3 DEF ClearRecvBuffer, kernel
<1>4. ASSUME RecvFromClient(s) PROVE UNCHANGED <<taken, inbound, peerSent>>
  BY <1>4 DEF RecvFromClient, Recv_Ignored, Recv_Data, Recv_Fails, kernel
<1>5. ASSUME SendToClient(s) PROVE UNCHANGED <<taken, inbound, peerSent>>
  BY <1>5 DEF SendToClient, Send_Idle, Send_Farewell, Send_Some, Send_Fails, kernel
<1> QED
  BY <1>2, <1>3, <1>4, <1>5
     DEF Call, DisconnectClient, ReserveDisconnectClient, PushToSendBuffer, ClearSendBuffer,
         kernel, history

\* No step loses, repeats or misdirects a byte on its way in.
LEMMA ReceivingNext ==
  Nul \notin Bytes /\ TypeOK /\ Sockets /\ Receiving /\ [Next]_vars => Receiving'
<1> SUFFICES ASSUME Nul \notin Bytes, TypeOK, Sockets, Receiving, [Next]_vars
             PROVE  Receiving'
  OBVIOUS
<1>1. CASE InitServer
  <2>1. UNCHANGED <<mSessions, taken, peerSent, inbound, link>>
    BY <1>1 DEF InitServer, history
  <2>2. \A s \in Fds : ~HasSession(s)
    BY <1>1 DEF InitServer, Sockets, SessionsOnlyWhenListening
  <2> QED
    BY <2>1, <2>2 DEF Receiving, RecvIntegrity, NothingTakenBefore, HasSession
<1>2. CASE DestroyNetwork
  <2>1. UNCHANGED <<taken, peerSent, inbound>> /\ \A s \in Fds : ~HasSession(s)'
    BY <1>2 DEF DestroyNetwork, history, HasSession
  <2>2. \A c \in Conns : link'[c] \in {"idle", "queued"} => link'[c] = link[c]
    BY <1>2 DEF DestroyNetwork, descriptors
  <2> QED
    BY <2>1, <2>2 DEF Receiving, RecvIntegrity, NothingTakenBefore
<1>3. CASE ConnectNewClient
  <2>1. PICK c \in Conns, s \in FreeFds :
          link[c] = "queued" /\ (Connect_Accepted(c, s) \/ Connect_Refused(c))
    BY <1>3 DEF ConnectNewClient
  <2>2. s \in Fds /\ owner[s] = "free" /\ UNCHANGED <<taken, peerSent, inbound>>
    BY <1>3 DEF FreeFds, ConnectNewClient, history
  <2>3. At(s) \in Session /\ At(s).recvBuffer = <<>>
    BY <2>2, AtType, NetworkAssumption
       DEF Sockets, PhantomsHoldNothing, At, EmptySession, IsConnected, Nobody
  <2>4. taken[c] = <<>> /\ peerSent[c] = inbound[c] /\ inbound[c] \in Seq(Bytes)
    BY <2>1 DEF Receiving, NothingTakenBefore, TypeOK
  <2>5. CASE Connect_Accepted(c, s)
    <3>1. /\ mSessions' = [mSessions EXCEPT ![s] = Connected(At(s), c)]
          /\ owner' = [owner EXCEPT ![s] = c] /\ link' = [link EXCEPT ![c] = "open"]
      BY <2>5 DEF Connect_Accepted, Store
    <3>2. Connected(At(s), c).recvBuffer = <<>>
      BY <2>3 DEF Connected, Session
    <3>3. <<>> \o <<>> = <<>> /\ <<>> \o inbound[c] = inbound[c]
      BY <2>4, EmptySeq, ConcatEmptySeq
    <3>4. RecvIntegrity'
      <4> SUFFICES ASSUME NEW r \in Fds, HasSession(r)', IsConnected(r)'
                   PROVE  peerSent'[owner'[r]] =
                            taken'[owner'[r]] \o mSessions'[r].recvBuffer \o inbound'[owner'[r]]
        BY DEF RecvIntegrity
      <4>1. CASE r = s
        BY <2>2, <2>4, <3>1, <3>2, <3>3, <4>1 DEF TypeOK
      <4>2. CASE r # s
        <5>1. mSessions'[r] = mSessions[r] /\ owner'[r] = owner[r]
          BY <3>1, <4>2 DEF TypeOK
        <5> QED
          BY <2>2, <5>1 DEF Receiving, RecvIntegrity, HasSession, IsConnected
      <4> QED
        BY <4>1, <4>2
    <3>5. NothingTakenBefore'
      BY <2>2, <3>1 DEF Receiving, NothingTakenBefore, TypeOK
    <3> QED
      BY <3>4, <3>5 DEF Receiving
  <2>6. CASE Connect_Refused(c)
    BY <2>2, <2>6, ReceivingKept DEF Connect_Refused, TypeOK
  <2> QED
    BY <2>1, <2>5, <2>6
<1>4. ASSUME NEW s \in Fds, Call(s) PROVE Receiving'
  <2> DEFINE c   == owner[s]
             ses == mSessions[s]
  <2>0. SUFFICES ASSUME IsConnected(s) PROVE Receiving'
    <3>1. ASSUME ~IsConnected(s) PROVE UNCHANGED <<taken, inbound, peerSent>>
      BY <1>4, <3>1, PhantomCall
    <3> QED
      BY <1>4, <2>0, <3>1, ReceivingElsewhere
  <2>2. HasSession(s) /\ ses.addr = c /\ c \in Conns
    BY <1>4, <2>0, CallStoresOrRemoves DEF Sockets, SocketsHaveTheirSessions, IsConnected
  <2>1. /\ c \in Conns /\ ses.addr = c /\ At(s) = ses /\ ses \in Session
    BY <2>2, AtType DEF At
  <2>3. peerSent[c] = taken[c] \o ses.recvBuffer \o inbound[c]
    BY <2>1, <2>2 DEF Receiving, RecvIntegrity, IsConnected
  <2>4. /\ ses.recvBuffer \in Seq(Bytes) /\ inbound[c] \in Seq(Bytes)
        /\ taken[c] \in Seq(Bytes)
    BY <2>1 DEF Session, TypeOK
  <2>5. peerSent' = peerSent
    BY <1>4 DEF Call, DisconnectClient, ReserveDisconnectClient, RecvFromClient,
                PullFromRecvBuffer, ClearRecvBuffer, PushToSendBuffer, ClearSendBuffer,
                SendToClient, history
  <2>6. ASSUME UNCHANGED <<taken, inbound>>, NEW new, Store(s, new),
               new.recvBuffer = ses.recvBuffer
        PROVE  Receiving'
    <3>1. mSessions'[s] = new
      BY <2>6 DEF Store, TypeOK
    <3> QED
      BY <1>4, <2>0, <2>3, <2>5, <2>6, <3>1, ReceivingCall
  <2>7. ASSUME UNCHANGED <<taken, inbound>>, NEW why, Remove(s, why) PROVE Receiving'
    <3>1. ~HasSession(s)'
      BY <2>7 DEF Remove, Store, HasSession, TypeOK
    <3> QED
      BY <1>4, <2>0, <2>5, <2>7, <3>1, ReceivingCall
  \* The application takes the first n bytes of the receive buffer.
  <2>8. ASSUME NEW n \in 0 .. Len(ses.recvBuffer), inbound' = inbound,
               Store(s, [ses EXCEPT !.recvBuffer = From(ses.recvBuffer, n)]),
               taken' = [taken EXCEPT ![c] = @ \o First(ses.recvBuffer, n)]
        PROVE  Receiving'
    <3> DEFINE buf == ses.recvBuffer
    <3>1. mSessions'[s].recvBuffer = From(buf, n)
      BY <2>1, <2>8 DEF Store, Session, TypeOK
    <3>2. /\ taken'[c] = taken[c] \o First(buf, n)
          /\ \A d \in Conns : d # c => taken'[d] = taken[d]
      BY <2>1, <2>8 DEF TypeOK
    <3>3. (taken[c] \o First(buf, n)) \o From(buf, n) = taken[c] \o buf
      BY <2>4, TakenJoins
    <3> QED
      BY <1>4, <2>0, <2>3, <2>5, <2>8, <3>1, <3>2, <3>3, ReceivingCall
  <2>9. ASSUME inbound' = inbound, Store(s, [ses EXCEPT !.recvBuffer = <<>>]),
               taken' = [taken EXCEPT ![c] = @ \o ses.recvBuffer]
        PROVE  Receiving'
    <3> DEFINE n == Len(ses.recvBuffer)
    <3>1. n \in 0 .. Len(ses.recvBuffer) /\ n \in Nat
      BY <2>4, LenProperties
    <3>2. First(ses.recvBuffer, n) = ses.recvBuffer
      BY <2>4, SubSeqFull DEF First
    <3>3. From(ses.recvBuffer, n) = <<>>
      <4>1. Len(ses.recvBuffer) < n + 1 /\ Len(ses.recvBuffer) \in Int /\ n + 1 \in Int
        BY <3>1
      <4> QED
        BY <4>1, SubSeqEmpty DEF From
    <3> QED
      BY <2>8, <2>9, <3>1, <3>2, <3>3
  <2>10. CASE DisconnectClient(s)
    BY <2>7, <2>10 DEF DisconnectClient, Drop
  <2>11. CASE ReserveDisconnectClient(s)
    BY <2>1, <2>6, <2>11, RecvBufferKept DEF ReserveDisconnectClient, history, kernel
  <2>12. CASE RecvFromClient(s)
    <3>1. UNCHANGED taken
      BY <2>12 DEF RecvFromClient
    <3>2. ASSUME Recv_Data(s) PROVE Receiving'
      <4> DEFINE n   == Least(Len(inbound[c]), kRecvBufferSize - 1)
                 new == First(inbound[c], n)
      <4>1. n \in 0 .. Len(inbound[c])
        BY <2>4, LenProperties, NetworkAssumption DEF Least
      <4>2. CStr(new) = new
        BY <2>4, <4>1, Cuts, StrLenNulFree
      <4>3. /\ Store(s, Received(ses, new))
            /\ inbound' = [inbound EXCEPT ![c] = From(inbound[c], n)]
        BY <2>1, <3>2 DEF Recv_Data
      <4>4. mSessions'[s].recvBuffer = ses.recvBuffer \o new
        BY <2>1, <4>2, <4>3 DEF Store, Received, Session, TypeOK
      <4>5. /\ inbound'[c] = From(inbound[c], n)
            /\ \A d \in Conns : d # c => inbound'[d] = inbound[d]
        BY <2>1, <4>3 DEF TypeOK
      <4>6. taken[c] \o (ses.recvBuffer \o new) \o From(inbound[c], n)
              = taken[c] \o ses.recvBuffer \o inbound[c]
        <5>1. \A m \in 0 .. Len(inbound[c]) :
                taken[c] \o (ses.recvBuffer \o First(inbound[c], m)) \o From(inbound[c], m)
                  = taken[c] \o ses.recvBuffer \o inbound[c]
          BY <2>4, ReceivedJoins
        <5> QED
          BY <4>1, <5>1
      <4> QED
        BY <1>4, <2>0, <2>3, <2>5, <3>1, <4>4, <4>5, <4>6, ReceivingCall
    <3> QED
      BY <2>1, <2>6, <2>7, <2>12, <3>1, <3>2
         DEF RecvFromClient, Recv_Ignored, Recv_Fails, Drop, kernel
  <2>13. ASSUME NEW endString \in EndStrings, PullFromRecvBuffer(s, endString) PROVE Receiving'
    <3>1. inbound' = inbound
      BY <2>13 DEF PullFromRecvBuffer, kernel
    <3>2. ASSUME Pull_All(s) PROVE Receiving'
      BY <2>1, <2>9, <3>1, <3>2 DEF Pull_All
    <3>3. ASSUME Pull_UpTo(s, endString) PROVE Receiving'
      <4>1. PICK p \in Occurrences(ses.recvBuffer, endString) :
              /\ Store(s, [ses EXCEPT !.recvBuffer = From(@, p + Len(endString))])
              /\ taken' = [taken EXCEPT ![c] = @ \o First(ses.recvBuffer, p + Len(endString))]
        BY <2>1, <3>3 DEF Pull_UpTo
      <4>2. p + Len(endString) \in 0 .. Len(ses.recvBuffer)
        <5>1. endString \in Seq(Bytes)
          BY NetworkAssumption
        <5>2. Len(endString) \in Nat /\ Len(ses.recvBuffer) \in Nat
          BY <2>4, <5>1, LenProperties
        <5>3. p \in 0 .. Len(ses.recvBuffer) - Len(endString)
          BY DEF Occurrences
        <5> QED
          BY <5>2, <5>3
      <4> QED
        BY <2>1, <2>8, <3>1, <4>1, <4>2 DEF Session
    <3>4. ASSUME Pull_Nothing(s, endString) PROVE Receiving'
      BY <2>1, <2>6, <3>1, <3>4 DEF Pull_Nothing
    <3> QED
      BY <2>13, <3>2, <3>3, <3>4 DEF PullFromRecvBuffer
  <2>14. CASE ClearRecvBuffer(s)
    <3>1. inbound' = inbound /\ Store(s, [ses EXCEPT !.recvBuffer = <<>>])
      BY <2>1, <2>14 DEF ClearRecvBuffer, kernel
    <3>2. CASE ses.recvBuffer = <<>>
      <4>1. taken' = taken
        BY <2>1, <2>14, <3>2 DEF ClearRecvBuffer
      <4>2. [ses EXCEPT !.recvBuffer = <<>>].recvBuffer = ses.recvBuffer
        BY <2>1, <3>2 DEF Session
      <4> QED
        BY <2>6, <3>1, <4>1, <4>2
    <3>3. CASE ses.recvBuffer # <<>>
      <4>1. taken' = [taken EXCEPT ![c] = @ \o ses.recvBuffer]
        BY <2>1, <2>14, <3>3 DEF ClearRecvBuffer
      <4> QED
        BY <2>9, <3>1, <4>1
    <3> QED
      BY <3>2, <3>3
  <2>15. ASSUME NEW buf \in Messages, PushToSendBuffer(s, buf) PROVE Receiving'
    BY <2>1, <2>6, <2>15, RecvBufferKept DEF PushToSendBuffer, kernel
  <2>16. CASE ClearSendBuffer(s)
    BY <2>1, <2>6, <2>16, RecvBufferKept DEF ClearSendBuffer, kernel
  <2>17. CASE SendToClient(s)
    <3>1. UNCHANGED <<taken, inbound>>
      BY <2>17 DEF SendToClient, Send_Idle, Send_Farewell, Send_Some, Send_Fails, kernel
    <3>2. ASSUME Send_Some(s) PROVE Receiving'
      <4>1. PICK n, m : Store(s, Transmitted(ses, n, m))
        BY <2>1, <3>2 DEF Send_Some
      <4> QED
        BY <2>1, <2>6, <3>1, <4>1, RecvBufferKept
    <3> QED
      BY <2>1, <2>6, <2>7, <2>17, <3>1, <3>2
         DEF SendToClient, Send_Idle, Send_Farewell, Send_Fails, Drop
  <2> QED
    BY <1>4, <2>10, <2>11, <2>12, <2>13, <2>14, <2>15, <2>16, <2>17 DEF Call
<1>5. CASE Clients
  <2>1. PICK c \in Conns :
          \/ ClientConnects(c)
          \/ \E b \in Bytes : ClientSends(c, b)
          \/ \E how \in {"fin", "reset"} : ClientLeaves(c, how)
          \/ KernelDrains(c)
    BY <1>5 DEF Clients
  <2>2. ASSUME NEW b \in Bytes, ClientSends(c, b) PROVE Receiving'
    <3>1. /\ inbound' = [inbound EXCEPT ![c] = Append(@, b)]
          /\ peerSent' = [peerSent EXCEPT ![c] = Append(@, b)]
          /\ UNCHANGED <<mSessions, owner, link, taken>>
      BY <2>2 DEF ClientSends, object
    <3>2. /\ inbound'[c] = Append(inbound[c], b) /\ peerSent'[c] = Append(peerSent[c], b)
          /\ \A d \in Conns : d # c => inbound'[d] = inbound[d] /\ peerSent'[d] = peerSent[d]
      BY <3>1 DEF TypeOK
    <3>3. RecvIntegrity'
      <4> SUFFICES ASSUME NEW r \in Fds, HasSession(r), IsConnected(r)
                   PROVE  peerSent'[owner[r]] =
                            taken[owner[r]] \o mSessions[r].recvBuffer \o inbound'[owner[r]]
        BY <3>1 DEF RecvIntegrity, HasSession, IsConnected
      <4>1. /\ owner[r] \in Conns
            /\ peerSent[owner[r]] =
                 taken[owner[r]] \o mSessions[r].recvBuffer \o inbound[owner[r]]
        BY DEF Receiving, RecvIntegrity, IsConnected
      <4>2. CASE owner[r] # c
        BY <3>2, <4>1, <4>2
      <4>3. CASE owner[r] = c
        <5> DEFINE x == taken[c] \o mSessions[r].recvBuffer
        <5>1. x \in Seq(Bytes) /\ inbound[c] \in Seq(Bytes) /\ peerSent[c] \in Seq(Bytes)
          <6>1. mSessions[r].recvBuffer \in Seq(Bytes) /\ taken[c] \in Seq(Bytes)
            BY DEF HasSession, Session, TypeOK
          <6> QED
            BY <6>1, ConcatProperties DEF TypeOK
        <5>2. Append(x \o inbound[c], b) = x \o Append(inbound[c], b)
          BY <5>1, AppendJoins
        <5> QED
          BY <3>2, <4>1, <4>3, <5>2
      <4> QED
        BY <4>2, <4>3
    <3>4. NothingTakenBefore'
      BY <3>1, <3>2 DEF Receiving, NothingTakenBefore
    <3> QED
      BY <3>3, <3>4 DEF Receiving
  <2>3. CASE ClientConnects(c)
    BY <2>3, ReceivingKept DEF ClientConnects, object, history, TypeOK
  <2>4. ASSUME NEW how \in {"fin", "reset"}, ClientLeaves(c, how) PROVE Receiving'
    BY <2>4, ReceivingKept DEF ClientLeaves, object, history
  <2>5. CASE KernelDrains(c)
    BY <2>5, ReceivingKept DEF KernelDrains, object, history
  <2> QED
    BY <2>1, <2>2, <2>3, <2>4, <2>5
<1>6. CASE Others
  <2>1. UNCHANGED <<mSessions, taken, peerSent, inbound, link>>
    BY <1>6 DEF Others, OtherOpens, OtherCloses, object, history
  <2>2. \A s \in Fds : IsConnected(s)' => owner'[s] = owner[s]
    BY <1>6, NetworkAssumption DEF Others, OtherOpens, OtherCloses, IsConnected, TypeOK, Nobody
  <2> QED
    BY <2>1, <2>2, ReceivingKept
<1>7. CASE UNCHANGED vars
  BY <1>7, ReceivingKept DEF vars, object, kernel, history
<1> QED
  BY <1>1, <1>2, <1>3, <1>4, <1>5, <1>6, <1>7 DEF Next

\* What a client sent is what the application took of it, what its session
\* buffers and what the kernel still holds, in this order, when no zero byte
\* is sent: for every application, also one that calls on sockets whose session
\* has gone, though what such a call leaves behind is found by the next client.
THEOREM RecvIntegrityCorrect == Nul \notin Bytes => (Spec => []RecvIntegrity)
<1> SUFFICES ASSUME Nul \notin Bytes PROVE Spec => []RecvIntegrity
  OBVIOUS
<1>1. Init => Receiving
  BY DEF Init, Receiving, RecvIntegrity, NothingTakenBefore, HasSession
<1>2. TypeOK /\ Sockets /\ Receiving /\ [Next]_vars => Receiving'
  BY ReceivingNext
<1>3. Receiving => RecvIntegrity
  BY DEF Receiving
<1> QED
  BY <1>1, <1>2, <1>3, SocketsHold, TypeCorrect, PTL DEF Spec
=============================================================================
