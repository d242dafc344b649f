SPECIFICATION Spec
CONSTANTS
  Loggers = {t1, t2}
  Setters = {u1}
  Strings = {s1, s2}
  Fds = {out, in}
  StartFd = out
  Stdin = in
  Warning = Warning
  Levels = {0, 1}
  StartLevel = 0
  MaxLogs = 1
  MaxWarnings = 1
  InOrder = FALSE
  StringsDie = TRUE
  Null = Null
  NoTarget = NoTarget
  Nobody = Nobody
INVARIANTS NeverThroughNull
