SPECIFICATION Spec
CONSTANTS
  Debounce = 1
  Window = 2
  Hold = 3
  EdgeDepth = 4
  Woken <- MCAnyBoot
  MaxPresses = 4
INVARIANT TypeOK
INVARIANT TaskAndMachineAgree
INVARIANT PromptTaskIsRight
