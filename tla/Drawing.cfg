CONSTANTS
  Sizes <- MCSizes
  Drawn = {16, 18, 19, 21}
  Layouts <- MCLayouts
  Values = {0, 1, 128, 255}
  Backgrounds <- MCBackgrounds
  Alphas <- MCAlphas
  Pages <- MCPages
  CellBytes <- MCCellBytes
  TagBytes <- MCTagBytes
SPECIFICATION Spec
INVARIANTS LargestThatFits GridIsPlain ImageIsExpected ColourBetween RefusalIsExact FeaturesReadBack
CHECK_DEADLOCK FALSE
