SPECIFICATION FairSmallSpec
CONSTANTS
  ETs = {"e1", "e2"}
  CRs <- OneCR
  Services = {"a", "b"}
  Labels = {"v"}
  CustomKeys = {"key"}
  Addresses <- OneAddress
  NoLabel = NoLabel
  BadSelector = BadSelector
  NoService = NoService
  NoKey = NoKey
  NoET = NoET
  ETSpecs <- AllModes
  CRSpecs <- MixedCRs
  ServiceObjects <- ClusterIPs
  Deletable = {"configmap", "service", "deployment", "httproute"}
  MaxMoves = 1
CHECK_DEADLOCK FALSE
PROPERTIES Settles ServableComesReady
