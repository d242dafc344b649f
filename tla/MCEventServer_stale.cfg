SPECIFICATION ServerSpec
CONSTANTS
  Fds = {f1, f2, f3}
  Conns = {c1, c2}
  a = a
  Nul = nul
  Bytes = {a}
  Messages <- OneByte
  EndStrings = {}
  kRecvBufferSize = 2
  SendRoom = 1
  MaxPushed = 1
  MaxPeerSent = 1
  CheckSession = TRUE
  AwaitReady = FALSE
  MAX_KEVENT_SIZE = 3
  DeferAccept = FALSE
  NoSession = NoSession
  NoConn = NoConn
  ERROR = ERROR
  NoList = NoList
  Zeroed = Zeroed
  Kqueue = Kqueue
SYMMETRY Symmetry
INVARIANTS EventIsAboutSocket
