SPECIFICATION Spec
CONSTANTS
  max_ground_velocity = 3
  max_ground_accel = 2
  fall_pitch = 6
  Plotting = TRUE
  Uncertainty = 1
  MaxPosition = 12
  MaxPitch = 12
INVARIANTS ObservationIsCurrent
PROPERTIES GroundFollowsBoundedFilter ImuAgreesWithOdometry
CHECK_DEADLOCK FALSE
