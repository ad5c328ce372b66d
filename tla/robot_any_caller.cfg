SPECIFICATION Spec
CONSTANTS
  MaxCalls = 3
  kNbStopCycles = 5
  CounterModulus = 8
  Simulating = FALSE
  NbSubsteps = 1
  SpineFaults = {"interrupt", "deserialization", "exception", "termination"}
  Methods = {"reset", "step", "close", "start"}
  AgentFaults = {"timeout", "oversize", "restart"}
INVARIANTS ExclusiveBuffer ServesTheRightDictionary NeverAnswersAnotherCall StopsOnBus StopsSentBeforeReset
PROPERTIES AgentNeverDropsRequest ServedOnceInOrder ShutdownIsFinal ImplementsContract ImplementsCalls
CHECK_DEADLOCK FALSE
