SPECIFICATION MCSpec
CONSTANTS
  WRTBL = 3
  RDTBL = 4
  SHORT = 2
  REACH = 3
  MAXRDLEN = 2
  MAXWRLEN = 2
  MaxCalls = 3
  MaxNoise = 1
  Word <- MCWord
  MemoryOf <- MCMemoryOf
  Calls <- All
CHECK_DEADLOCK FALSE
PROPERTIES ImplementsDevBus ValuesSurvive CallReturns
