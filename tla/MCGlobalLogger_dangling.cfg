SPECIFICATION Spec
CONSTANTS
  Loggers = {t1, t2}
  Setters = {u1}
  Strings = {s1}
  Fds = {out, in}
  StartFd = out
  Stdin = in
  Warning = Warning
  Levels = {0, 1}
  StartLevel = 0
  MaxLogs = 2
  MaxWarnings = 1
  InOrder = TRUE
  StringsDie = TRUE
  Null = Null
  NoTarget = NoTarget
  Nobody = Nobody
SYMMETRY Symmetry
INVARIANTS NoWildAppend
