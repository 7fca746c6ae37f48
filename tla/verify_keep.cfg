SPECIFICATION Spec
CONSTANTS
  Commands <- PatchOnly
  Meshes <- OneMesh
  Labelings <- SomeLabels
  NoMode = NoMode
  NoObject = NoObject
  NoResult = NoResult
  StepBuffer = 1
  MaxMoves = 1
CHECK_DEADLOCK FALSE
PROPERTY PatchKeepsNamespace
