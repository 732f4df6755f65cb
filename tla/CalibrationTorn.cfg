SPECIFICATION Spec
CONSTANTS
  Readings <- MCReadings
  MinSpan = 2
  DefaultDry = 4
  DefaultWet = 1
  Unwritten = Unwritten
INVARIANT RejectedKeepsPrevious
