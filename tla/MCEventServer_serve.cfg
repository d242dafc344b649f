SPECIFICATION FairServerSpec
CONSTANTS
  Fds = {f1, f2}
  Conns = {c1}
  a = a
  Nul = nul
  Bytes = {a}
  Messages <- TwoBytes
  EndStrings = {}
  kRecvBufferSize = 2
  SendRoom = 1
  MaxPushed = 2
  MaxPeerSent = 2
  CheckSession = TRUE
  AwaitReady = FALSE
  MAX_KEVENT_SIZE = 3
  DeferAccept = TRUE
  NoSession = NoSession
  NoConn = NoConn
  ERROR = ERROR
  NoList = NoList
  Zeroed = Zeroed
  Kqueue = Kqueue
INVARIANTS LostOnlyAfterClientLeft
PROPERTIES ReservedCloses EverythingIsRead BacklogIsServed
