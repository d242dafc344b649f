SPECIFICATION LayoutSpec
CONSTANTS
  Contents = {}
  Capacities = {1, 2}
  StartCapacity = 2
  Others = {}
  MaxContents = 3
  Texts <- Short
  Typed <- Korean
  MaxPrompt = 6
  Echoing = TRUE
  Sizes <- OneSize
  MinHeight = 4
  MinWidth = 18
  Wide <- Twos
  Narrow <- Ones
INVARIANTS ReadsInside
