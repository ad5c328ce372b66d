SPECIFICATION Spec
CONSTANTS
  torques = torques
  servos = servos
  Envs = {torques, servos}
  PositionEnvs = {}
  TorqueEnvs = {torques}
  Overriding = {servos}
  Regulated = {torques}
  Fields = {"height"}
  MaxEntries = 0
  MaxResets = 1
  MaxAmplitude = 1
  hip = hip
  Joints = {hip}
  Keys = {"position", "feedforward_torque"}
  NaN = NaN
INVARIANTS CommandsWithinLimits NoPositionFeedbackUnlessAsked EveryResetIsServed
PROPERTIES DrawnFromCurrentRandomization
CHECK_DEADLOCK FALSE
