SPECIFICATION Spec
CONSTANTS
  Fds = {f1, f2}
  Conns = {c1, c2}
  a = a
  b = b
  Nul = nul
  Bytes = {a, b}
  Messages <- NoMessages
  EndStrings <- AllEndStrings
  kRecvBufferSize = 2
  SendRoom = 1
  MaxPushed = 0
  MaxPeerSent = 2
  CheckSession = FALSE
  AwaitReady = FALSE
  NoSession = NoSession
  NoConn = NoConn
  ERROR = ERROR
SYMMETRY Symmetry
INVARIANTS RecvIntegrity
PROPERTIES ImplementsChannel
