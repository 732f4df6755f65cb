SPECIFICATION StorageSpec
CONSTANTS
  Readings <- MCReadings
  MinSpan = 2
  DefaultDry = 3
  DefaultWet = 1
  Unwritten = Unwritten
  Capacity = 3
  Window = 2
  Values <- MCValues
  Erased = 1
  Reads <- MCReads
  Writes <- MCWrites
  Erases <- MCErases
INVARIANT TypeOK
INVARIANT FlashTypeOK
INVARIANT AcceptedIsStored
INVARIANT ReferencesApart
INVARIANT ReadsInBounds
INVARIANT ReadsTheFlash
PROPERTY ImplementsRegister
