SPECIFICATION Spec
CONSTANTS
  Percents <- MCPercents
  Voltages <- MCVoltages
  Charge <- MCCharge
  SoilDelta = 2
  BatteryDelta = 20
  PresentMin = 800
  MaxReadings = 3
  Nothing = Nothing
  Unread = Unread
INVARIANT TypeOK
INVARIANT ServedWithinDeadband
INVARIANT NothingForgotten
INVARIANT SameVersionSameData
INVARIANT JitterNotifiesOnce
