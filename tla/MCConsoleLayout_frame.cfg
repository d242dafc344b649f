SPECIFICATION LayoutSpec
CONSTANTS
  Contents <- Lines
  Capacities = {0, 2}
  StartCapacity = 2
  Others <- OneOther
  MaxContents = 3
  Texts <- TwoTexts
  Typed <- Ascii
  MaxPrompt = 8
  Echoing = FALSE
  Sizes <- FourSizes
  MinHeight = 4
  MinWidth = 18
  Wide <- Twos
  Narrow <- Ones
INVARIANTS ScreenShowsTheDisplay ReadsInside KeepsTheLatest
