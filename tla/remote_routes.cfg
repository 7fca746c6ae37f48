SPECIFICATION FairSmallSpec
CONSTANTS
  RRs = {"r1"}
  CRs = {"c1"}
  Hosts = {"h1", "h2"}
  Names = {"x", "y"}
  LabelKeys = {"tier", "name"}
  LabelValues = {"blue", "green", "r1"}
  NameKey = "name"
  NoRR = NoRR
  NoCR = NoCR
  NoName = NoName
  UpstreamLists <- Lists
  Selectors <- Selectable
  MaxMoves = 2
CHECK_DEADLOCK FALSE
INVARIANTS TypeOK ProxyIsVariant ProxyIsConfigured ReasonIsCurrent
PROPERTIES HealthIsTracked ActiveIsFirstHealthy
