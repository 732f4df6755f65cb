SPECIFICATION Spec
CONSTANTS
  Debounce = 1
  Window = 2
  Hold = 3
  EdgeDepth = 8
  Woken <- MCOtherBoot
  MaxPresses = 2
INVARIANT ResetMeansHeld
