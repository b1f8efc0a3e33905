CONSTANTS
  Direct = {reality, stls}
  Fronted = {ws}
  OnAfter = 2
  OffAfter = 3
  MinDirect = 2
  Faults = {}
  Interleaved = TRUE
SPECIFICATION Spec
PROPERTY PinHolds
