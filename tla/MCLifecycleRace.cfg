CONSTANTS
  BotOps = {"requestAuto", "platform", "getKey", "pay", "approvePayment"}
  WebOps = {"webGrant", "webQuota", "webExpire"}
  JobOps = {}
  Plans = {1}
  MaxMonths = 2
  MaxRejects = 1
  Faults = {"crash"}
  Interleaved = TRUE
  FetchSlot = {"r1", "r2"}
  Network = {"home", "mobile"}
  Hop = "hop"
  MaxFetches = 2
  MaxStatusMoves = 1
  VpnList = {"blocked-recent"}
  ServedList = {"blocked-recent"}
  Site = {"site", "sub"}
  Above <- MCAbove
  RuZone = {}
  Complainer = {"u1", "u2"}
  AutoThreshold = 2
  MaxEntries = 2
  DailyLimit = 1
  KeepDays = 2
  IgnoreDays = 3
  RuleFaults = 1
  NoSite = "no site"
  \* ProtocolCheck
  Probed = {"reality", "hy2", "stls"}
  Turbo = "hy2t"
  Audited = {"reality", "stls"}
  RunRows = 3
  OkRows = 2
  Runs = 2
  StaleAfter = 1
  WindowRounds = 2
  MaxTurns = 2
SPECIFICATION HostSpec
INVARIANTS NeverUnearned FetchHolds ChecksHold
PROPERTY ListsHold
