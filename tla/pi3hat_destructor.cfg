SPECIFICATION FairSpec
CONSTANTS
  NbServos = 2
  MemberInitRace = FALSE

PROPERTIES DestructorReturns
CHECK_DEADLOCK FALSE
