SPECIFICATION Spec
CONSTANTS
  lab = lab
  home = home
  Arguments = {lab, home}
  MaxRuns = 2
  NumServos = 2
INVARIANTS OriginalIsKept ConfiguredWhenDone NoPartialServoConfiguration KeepsBootParameters
CHECK_DEADLOCK FALSE
