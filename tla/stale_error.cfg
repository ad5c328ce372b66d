SPECIFICATION Spec
CONSTANTS
  MaxCalls = 3
  kNbStopCycles = 5
  CounterModulus = 8
  Simulating = FALSE
  NbSubsteps = 1
  SpineFaults = {}
  Methods = {"reset", "step", "close"}
  AgentFaults = {}

PROPERTIES ErrorOnlyForInvalid
CHECK_DEADLOCK FALSE
