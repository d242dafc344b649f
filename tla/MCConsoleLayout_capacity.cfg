SPECIFICATION LayoutSpec
CONSTANTS
  Contents <- Lines
  Capacities = {0, 2}
  StartCapacity = 2
  Others <- OneOther
  MaxContents = 3
  Texts <- Short
  Typed <- Ascii
  MaxPrompt = 8
  Echoing = FALSE
  Sizes <- OneSize
  MinHeight = 4
  MinWidth = 18
  Wide <- Twos
  Narrow <- Ones
INVARIANTS WithinCapacity
