SPECIFICATION FairSpec
CONSTANTS
  Commands <- TwoCommands
  Meshes <- OneMesh
  Labelings <- SomeLabels
  NoMode = NoMode
  NoObject = NoObject
  NoResult = NoResult
  StepBuffer = 1
  MaxMoves = 1
CHECK_DEADLOCK FALSE
INVARIANTS TypeOK VerdictIsFresh NothingLeftBehind ResultIsShown
PROPERTIES ConsentGiven RunEnds
