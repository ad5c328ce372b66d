SPECIFICATION Spec
CONSTANTS
  Envs = {env}
  env = env
  Links = {torso, wheel_tire}
  torso = torso
  ExtraLinks <- MCExtraLinks
  Overriding = {}
  Regulated = {env}
  Fields = {}
  MaxEntries = 1
  MaxResets = 2
  MaxAmplitude = 0
  Wrappers = {"DifferentiateAction", "AddLagToAction", "NoisifyAction", "RandomPush"}
  MaxGroundVelocity = 3
  MaxDerivative = 1
  MaxNoise = 1
  TimeConstants = {2, 3}
  LegCutoff = 3
  MaxLegPosition = 1
  LeftWheeled = TRUE
  NoPosition = NoPosition
INVARIANTS NeverClamped LegsGoToNeutral
PROPERTIES PushIsThatOfTheStep SoftStart ExtrasReachTheNextStep
CHECK_DEADLOCK FALSE
