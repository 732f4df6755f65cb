SPECIFICATION FairSpec
CONSTANTS
  Debounce = 2
  Window = 3
  Hold = 5
  MaxPresses = 5
  Horizon <- MCHorizon
INVARIANT TypeOK
INVARIANT BelievesPin
INVARIANT ResetExactlyAfterHold
INVARIANT BurstAnswered
PROPERTY WakingPressDecided
