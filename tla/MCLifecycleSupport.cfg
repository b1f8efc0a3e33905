CONSTANTS
  BotOps = {"requestAuto", "platform", "support", "message", "closeTicket"}
  WebOps = {}
  JobOps = {"repair"}
  Plans = {1}
  MaxMonths = 1
  MaxRejects = 1
  Faults = {"crash"}
  Interleaved = TRUE
  PanelThread = {"t1", "t2"}
  PanelQuota = {1}
  MaxPanelFaults = 2
  OtherGb = 1
  AppGb = 2
  BigGb = 3
  MaxQuotaFaults = 1
  HyUser = {"u1"}
  FreshAge = 1
  StaleMax = 3
  MaxHyEvents = 4
  ReserveKey = {"k1", "k2", "m1"}
  MailOf <- MCMailOf
  PoolThread = "pool"
  KitThread = "kit"
  EnsureTtl = 1
  SkipTime = 1
  MaxRevokes = 1
  MaxReserveFaults = 1
  ZoneUser = {"k1", "k2"}
  MaxZoneEvents = 2
  MaxZoneFaults = 2
  MaxByHand = 1
  Chat = {"a", "b"}
  TurnWorker = {"w1", "w2"}
  MaxPrompts = 3
  AgentFaults = 1
SPECIFICATION HostSpec
PROPERTIES AccessProgress PanelHolds ReserveHolds ZoneHolds AgentHolds
