CONSTANTS
  p1 = p1
  p2 = p2
  p3 = p3
  n1 = n1
  Protocols = {p1, p2, p3}
  Asns = {n1}
  Global = Global
  None = None
  CascadeRank <- MCCascadeRank
  KeyRank <- MCKeyRank
  RealityProto = p1
  UdpProtos = {p2}
  DemoteAfterBad = 2
  RestoreAfterGood = 3
  MinChangeGap = 3
  MaxChanges = 2
  ReportsMaxPerAsn = 1
  Signals <- AllSignals
  Faults = {"read", "auto", "audit"}
  MaxRefused = 1
  OperatorInterrupts = FALSE
SPECIFICATION Spec
INVARIANTS ReportsCap AuditAddsUp
PROPERTIES ChangesAreEarned KeepsContract
