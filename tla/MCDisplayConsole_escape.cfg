SPECIFICATION Spec
CONSTANTS
  Self = Self
  Consoles = {Self}
  CountLimit = 256
  Modes <- OneMode
  Copying = FALSE
  Contents = {}
  MaxContents = 0
  ContentCapacity = 1
  Fields = {"header"}
  Values = {v1}
  Keys <- WithEscape
  a = a
  bracket = bracket
  Enter = Enter
  Eot = Eot
  Del = Del
  Esc = Esc
  MaxKeys = 3
  Sizes <- OneSize
  MinHeight = 4
  MinWidth = 2
  TtyRoom = 2
  IsTty = TRUE
INVARIANTS LinesAreWhatWasTyped
