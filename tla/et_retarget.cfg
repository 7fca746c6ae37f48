SPECIFICATION SmallSpec
CONSTANTS
  ETs = {"e1"}
  CRs <- NoCRs
  Services = {"a", "b"}
  Labels = {"v"}
  CustomKeys = {}
  Addresses <- OneAddress
  NoLabel = NoLabel
  BadSelector = BadSelector
  NoService = NoService
  NoKey = NoKey
  NoET = NoET
  ETSpecs <- RouterOnAB
  CRSpecs <- PlainCR
  ServiceObjects <- AllKinds
  Deletable = {}
  MaxMoves = 1
CHECK_DEADLOCK FALSE
INVARIANTS SingleRoute
