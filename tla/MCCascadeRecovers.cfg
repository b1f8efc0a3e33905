CONSTANTS
  p1 = p1
  p2 = p2
  p3 = p3
  n1 = n1
  Protocols = {p1, p2}
  Asns = {}
  Global = Global
  None = None
  CascadeRank <- MCCascadeRank
  KeyRank <- MCKeyRank
  RealityProto = p1
  UdpProtos = {p2}
  DemoteAfterBad = 2
  RestoreAfterGood = 2
  MinChangeGap = 1
  MaxChanges = 1
  ReportsMaxPerAsn = 1
  Signals <- ProbeFew
  Faults = {"auto", "rows", "crash"}
  MaxRefused = 0
  OperatorInterrupts = TRUE
SPECIFICATION FairSpec
PROPERTY Recovers
