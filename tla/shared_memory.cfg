SPECIFICATION Spec
CONSTANTS
  Spines = {bullet, pi3hat}
  Clearing = {bullet}
  bullet = bullet
  pi3hat = pi3hat
  Agents = {a1, a2}
  a1 = a1
  a2 = a2
  MaxObjects = 2
  Retries = 2
  OneAtATime = TRUE
  Faults = {"crash", "allocation", "leak"}
INVARIANTS LiveSpineIsReachable ClearingSpineStarts NothingLeftBehind
PROPERTIES StartsOnFreshObject
CHECK_DEADLOCK FALSE
