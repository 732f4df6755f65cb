SPECIFICATION Spec
CONSTANTS
  Debounce = 1
  Window = 2
  Hold = 4
  SamplePeriod = 7
  HealthyAfter = 18
  WakeHold = 7
  CalibrationHold = 12
  ActiveThreshold = 4
  PersistDebounce = 2
  Settle = 2
  SleepMin = 3
  SoilTime = 2
  BatteryTime = 1
  CaptureTime = 3
  StartupTime = 1
  IdlePeriod = 6
  WatchdogTimeout = 14
  EdgeDepth = 8
  Causes <- WakeCauses
  MaxPresses <- MCPresses
  MaxMessages <- MCMessages
INVARIANT TypeOK
INVARIANT OneReadingPerWake
INVARIANT SleepOnlySettled
INVARIANT SleepOnlyAtRest
INVARIANT PollNotMissed
INVARIANT RebootCountedOnce
INVARIANT WatchdogFed
