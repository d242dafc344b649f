SPECIFICATION LayoutSpec
CONSTANTS
  Contents <- Accents
  Capacities = {1, 2}
  StartCapacity = 2
  Others = {}
  MaxContents = 3
  Texts <- Short
  Typed <- Ascii
  MaxPrompt = 0
  Echoing = FALSE
  Sizes <- OneSize
  MinHeight = 4
  MinWidth = 18
  Wide <- Twos
  Narrow <- Ones
INVARIANTS ReadsInside
