SPECIFICATION MCSpec
CONSTANTS
  PubPlans <- MCPubPlans
  PubBounds <- MCPubBounds
  SaProcs = {"p1", "p2"}
  SaWorlds <- MCSaWorlds
  SaHead = 2
  StPlans <- MCStPlans
  StBounds <- MCStBounds
  PlWorlds <- MCPlWorlds
  PlBounds <- MCPlBounds
INVARIANTS
  CatalogIsArchive
  DeliveriesExclusive
  RecordsTrue
  VerdictsSound
  ExecutionSafe
PROPERTIES
  NothingLost
  ClosesOrStuck
  ImplementsPromise
  StopsHold
  StartSettles
  FinalsOnlyAppear
  DeliverySettles
  OnlyMissingWritten
  PlSettles
CHECK_DEADLOCK FALSE
