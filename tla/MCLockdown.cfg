CONSTANTS
  reality = reality
  stls = stls
  ws = ws
  Direct <- MCDirect
  Fronted <- MCFronted
  OnAfter = 2
  OffAfter = 12
  MinDirect = 2
  Faults = {"write"}
  Interleaved = FALSE
  SingleKey = {"cpu"}
  DpiKey = {"d", "e"}
  ProtocolKey = {}
  MinCycles = 2
  Repeat = 1
  AckTime = 2
  AgentSlots = 1
  NoAlert = "no alert"
  ProbeTags <- MCProbeTags
  ProbeRuns = 3
  ProbeDomains = 1
  MinSamples = 2
  DegradedMin = 3
  DegradedInv = 4
  StaleAge = 1
  MaxLost = 1
  Node = {"n1", "n2"}
  PeersOf <- MCPeersOf
  MaxTerm = 3
  MaxCrash = 1
  NoNode = "no node"
  Caller = {"health", "user"}
  Threshold = 3
  HoldTime = 2
  MaxTries = 5
  MaxSigned = 1
  RotSni = {"s1", "s2"}
  OtherSni = "other"
  RotUnread = "unread"
  MaxRuns = 2
  MaxRotFaults = 2
  MaxEdits = 1
  Pool <- MCPool
  Sender = {"poll", "job"}
  CallTries = 3
  OutageStreak = 2
  NoEntry = "no entry"
  MaxFlips = 2
  MaxErrors = 1
SPECIFICATION HostSpec
INVARIANT AlarmsHold
PROPERTIES PinHolds FlipNeedsProof KeepsContract AnswersHold WatchProgress ElectionHolds SyncHolds RotationHolds
