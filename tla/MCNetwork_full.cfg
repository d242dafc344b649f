SPECIFICATION Spec
CONSTANTS
  Fds = {f1, f2, f3}
  Conns = {c1, c2}
  a = a
  b = b
  Nul = nul
  Bytes = {a, b}
  Messages <- ShortMessages
  EndStrings = {}
  kRecvBufferSize = 3
  SendRoom = 2
  MaxPushed = 3
  MaxPeerSent = 0
  CheckSession = TRUE
  AwaitReady = FALSE
  NoSession = NoSession
  NoConn = NoConn
  ERROR = ERROR
SYMMETRY Symmetry
PROPERTIES ReservedSendsAll
