SPECIFICATION Spec
CONSTANTS
  Self = Self
  Consoles = {Self, other}
  CountLimit = 256
  Modes <- OneMode
  Copying = TRUE
  Contents = {c1, c2}
  MaxContents = 2
  ContentCapacity = 2
  Fields = {"header"}
  Values = {v1, v2}
  Keys <- OneKey
  a = a
  bracket = bracket
  Enter = Enter
  Eot = Eot
  Del = Del
  Esc = Esc
  MaxKeys = 1
  Sizes <- TwoSizes
  MinHeight = 4
  MinWidth = 2
  TtyRoom = 2
  IsTty = FALSE
INVARIANTS ModeFollowsConsoles
