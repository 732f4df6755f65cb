SPECIFICATION DeviceSpec
CONSTANTS
  CrashLoopBoots = 3
  MaxCount = 15
INVARIANT DeviceTypeOK
INVARIANT CrashLoopBounded
INVARIANT CountTellsCrash
INVARIANT PanicToldTruly
INVARIANT PanicIsACrash
INVARIANT WatchdogIsACrash
