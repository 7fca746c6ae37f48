SPECIFICATION SmallSpec
CONSTANTS
  ETs = {"e1"}
  CRs <- TwoCRs
  Services = {"a", "b"}
  Labels = {"v"}
  CustomKeys = {"key"}
  Addresses <- OneAddress
  NoLabel = NoLabel
  BadSelector = BadSelector
  NoService = NoService
  NoKey = NoKey
  NoET = NoET
  ETSpecs <- AllModes
  CRSpecs <- BothCRs
  ServiceObjects <- AllKinds
  Deletable = {"configmap", "httproute"}
  MaxMoves = 2
CHECK_DEADLOCK FALSE
INVARIANTS TypeOK TableIsCurrent ReasonIsCurrent RouteHasTranslator
