SPECIFICATION FairSmallSpec
CONSTANTS
  Routes <- SameNamespace
  Services = {"a", "b"}
  Labels = {"v"}
  CustomKeys <- OnlyKeyOfB
  NoLabel = NoLabel
  BadSelector = BadSelector
  NoService = NoService
  NoKey = NoKey
  NoJob = NoJob
  Specs <- MixedSpecs
  ServiceObjects <- Services3
  MaxMoves = 1
CHECK_DEADLOCK FALSE
INVARIANTS TypeOK ReadyRouteInstalled OthersTurnedAway DelegatedHasNoRoute
PROPERTIES FinalizerHoldsOwner Converges DeletionCompletes EligibleGetsRoute
