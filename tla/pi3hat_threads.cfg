SPECIFICATION FairSpec
CONSTANTS
  NbServos = 2
  MemberInitRace = FALSE
INVARIANTS NeverCyclesTooEarly RepliesOfLastCycle SendsRecentCommands
PROPERTIES LaunchedCyclesComplete DestructorReturnsIfWaiting
CHECK_DEADLOCK FALSE
