SPECIFICATION Spec
CONSTANTS
  DefaultLimit = 2
  MaxLimit = 3
  Snapshots <- SnapshotSet
  Queries <- QuerySet
  Targets <- Selectable
  PanelLimit = 1
  NoTarget = NoTarget
  MaxMoves = 3
CHECK_DEADLOCK FALSE
INVARIANTS TypeOK WalkIsExact PanelFollowsSelection
PROPERTY WalkEnds
