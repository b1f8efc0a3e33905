CONSTANTS
  Direct = {reality, stls}
  Fronted = {ws}
  OnAfter = 2
  OffAfter = 2
  MinDirect = 2
  Faults = {"read", "write"}
  Interleaved = TRUE
SPECIFICATION FairSpec
INVARIANT PinAgrees
PROPERTY Responds
