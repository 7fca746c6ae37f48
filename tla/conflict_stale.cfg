SPECIFICATION SmallSpec
CONSTANTS
  Routes <- SameNamespace
  Services = {"a", "b"}
  Labels = {"v"}
  CustomKeys = {}
  NoLabel = NoLabel
  BadSelector = BadSelector
  NoService = NoService
  NoKey = NoKey
  NoJob = NoJob
  Specs <- TwoTargets
  ServiceObjects <- Services3
  MaxMoves = 1
CHECK_DEADLOCK FALSE
INVARIANT ConflictNamesOwner
