SPECIFICATION FairSpec
CONSTANTS
  Self = Self
  Consoles = {Self}
  CountLimit = 256
  Modes <- OneMode
  Copying = FALSE
  Contents = {}
  MaxContents = 0
  ContentCapacity = 1
  Fields = {"header"}
  Values = {v1}
  Keys <- AllKeys
  a = a
  bracket = bracket
  Enter = Enter
  Eot = Eot
  Del = Del
  Esc = Esc
  MaxKeys = 3
  Sizes <- TwoSizes
  MinHeight = 4
  MinWidth = 2
  TtyRoom = 1
  IsTty = TRUE
INVARIANTS LinesAreWhatWasTyped
PROPERTIES ScreenSettles
