SPECIFICATION Spec
CONSTANTS
  Depth = 4
  ErrorTime = 10
  ClassifyTime = 20
  CueTime = 100
  CalHold = 100
  SoilTime = 8
  BatteryTime = 1
  ActiveHold = 10
  Settle = 5
  GestureTime = 4
  MaxFlows = 3
INVARIANT TypeOK
INVARIANT CueLeadsReference
INVARIANT ClassificationShown
