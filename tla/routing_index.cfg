SPECIFICATION FairSmallSpec
CONSTANTS
  CRs = {1, 2}
  Keys = {"a", "b", "ab"}
  Targets = {"a", "v"}
  Variants = {"v"}
  Self = "."
  Labels = {"variant"}
  Cookies = {"ck"}
  Times = {1, 2}
  Rebuilders = {"g1", "g2"}
  NoCR = NoCR
  NoLabel = NoLabel
  BadSelector = BadSelector
  NoCookie = NoCookie
  NoOne = NoOne
  CRSpecs <- Specs
  MaxMoves = 2
CHECK_DEADLOCK FALSE
INVARIANTS TypeOK SnapshotIsCurrent
PROPERTIES NeverGoesBack CatchesUp
