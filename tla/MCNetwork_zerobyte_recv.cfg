SPECIFICATION Spec
CONSTANTS
  Fds = {f1, f2, f3}
  Conns = {c1, c2}
  a = a
  b = nul
  Nul = nul
  Bytes = {a, nul}
  Messages <- ShortMessages
  EndStrings = {}
  kRecvBufferSize = 3
  SendRoom = 2
  MaxPushed = 0
  MaxPeerSent = 2
  CheckSession = TRUE
  AwaitReady = FALSE
  NoSession = NoSession
  NoConn = NoConn
  ERROR = ERROR
SYMMETRY Symmetry
INVARIANTS RecvIntegrity
