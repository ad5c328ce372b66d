SPECIFICATION Spec
CONSTANTS
  MaxCalls = 3
  kNbStopCycles = 5
  CounterModulus = 8
  Simulating = TRUE
  NbSubsteps = 3
  SpineFaults = {"interrupt", "deserialization", "exception", "termination"}
  Methods = {"reset", "step", "close"}
  AgentFaults = {"timeout", "oversize", "restart"}
INVARIANTS IInv AnswersItsCallUntilShutdown

CHECK_DEADLOCK FALSE
