SPECIFICATION FairSpec
CONSTANTS
  MaxCalls = 2
  kNbStopCycles = 5
  CounterModulus = 8
  Simulating = FALSE
  NbSubsteps = 1
  SpineFaults = {"interrupt", "exception"}
  Methods = {"reset", "step", "close", "start"}
  AgentFaults = {"timeout", "restart"}
PROPERTIES CallsReturn RequestsAreAnswered InterruptExits
CHECK_DEADLOCK FALSE
