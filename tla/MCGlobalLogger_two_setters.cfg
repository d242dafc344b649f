SPECIFICATION Spec
CONSTANTS
  Loggers = {t1}
  Setters = {u1, u2}
  Strings = {s1}
  Fds = {out, in}
  StartFd = out
  Stdin = in
  Warning = Warning
  Levels = {0, 1}
  StartLevel = 0
  MaxLogs = 1
  MaxWarnings = 1
  InOrder = TRUE
  StringsDie = FALSE
  Null = Null
  NoTarget = NoTarget
  Nobody = Nobody
SYMMETRY Symmetry
PROPERTIES RecordsGoWhereTold
