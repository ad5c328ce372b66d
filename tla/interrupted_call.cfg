SPECIFICATION Spec
CONSTANTS
  MaxCalls = 2
  kNbStopCycles = 5
  CounterModulus = 8
  Simulating = FALSE
  NbSubsteps = 1
  SpineFaults = {"interrupt"}
  Methods = {"reset", "step", "close"}
  AgentFaults = {}
INVARIANTS AnswersItsCall

CHECK_DEADLOCK FALSE
