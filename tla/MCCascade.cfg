CONSTANTS
  Known <- MCKnown
  DefaultOrder <- MCDefaultOrder
  CountryDefault <- MCNoDefault
  LockdownOrder <- MCLockdownOrder
  Free <- MCFree
  Tiers = {"paid", "demo", "nobody"}
  Configs <- MCConfigs
  Orders <- MCOrders
  StoredOrders <- MCStoredOrders
  Demotions <- MCDemotions
  Configured = {"reality", "hy2", "ws", "stls"}
  \* ExitRouting
  Exit = {"x", "y", "z"}
  RouteUser = {"u"}
  Tier <- MCTier
  Cpu = {1, 2}
  MaxMoves = 1
  NoExit = "-"
  \* ExitRouting: the trackers
  TrackedNode = {"n", "m"}
  LimitedNode = {"n"}
  Loads = {5, 28, 60}
  Threshold = 30
  Warning = 24
  MinSamples = 2
  WindowSize = 2
  AvgWindow = 1
  AliveFor = 1
  MaxTold = 2
  \* FailoverDesk
  Target = {"x", "y"}
  DaySecond = {0, 1}
  Button = {"s1", "s2"}
  MaxEvents = 2
  \* HermesGuard
  GuardModel = {"p", "c1", "c2"}
  NoModel = "-"
  HandPicked = "p"
  Curated <- MCCurated
  SeesImages = {"c1"}
  MinFree = 1
  MaxDefer = 2
  MaxPrices = 3
  GuardFaults = 1
SPECIFICATION HostSpec
INVARIANTS OrdersHold ProfilesHold
PROPERTIES FailoverHolds GuardHolds ServedProgress
