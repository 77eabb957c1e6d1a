CONSTANTS
  Counts <- MCCounts
  Keep = 2
  CellCount = 2
  Base = 3
  Targets <- MCTargets
  Candidates <- MCCandidates
  StateDistance <- MCStateDistance
  OtherGist <- MCOtherGist
  PaletteSize = 2
  Conditions = 2
  View <- MCView
  Hue <- MCHue
  KeepsHue <- MCKeepsHue
  FrameGrey = 217
  GateDistance = 20
  Stages <- MCStages
  Picks <- MCPicks
  Jobs = 2
  Iterations <- MCIterations
  Draws <- MCDraws
  BandSteps = 8
  Words <- MCWords
  Number <- MCNumber
  Arguments <- MCGrind
  Hardware = {0, 2}
SPECIFICATION Spec
INVARIANT SameForAnyThreads
CHECK_DEADLOCK FALSE
