----------------------- MODULE WheeledInvertedPendulum -----------------------
(***************************************************************************)
(* WheeledInvertedPendulum (upkie/envs/wheeled_inverted_pendulum.py): an   *)
(* environment that integrates its own dynamics rather than having a spine.*)
(*                                                                         *)
(* Quantities are integers, in units where the sampling period and gravity *)
(* are 1 and the length of the pole 1/2, positions and angles in half      *)
(* units, and the pendulum is linear around the vertical.  Uncertainties   *)
(* are bounded, and the same for all components of the state.              *)
(***************************************************************************)
EXTENDS Filters

CONSTANTS
    max_ground_velocity, max_ground_accel, fall_pitch,
    Plotting,                  \* render_mode = "plot"
    Uncertainty,               \* bound of the observation noise
    MaxPosition, MaxPitch      \* bounds: where users stop stepping

ASSUME PendulumAssumption ==
    /\ max_ground_velocity \in Nat /\ max_ground_accel \in Nat
    /\ fall_pitch \in Nat /\ Uncertainty \in Nat
    /\ Plotting \in BOOLEAN
    /\ MaxPosition \in Nat /\ MaxPitch \in Nat

VARIABLES
    state,               \* __state
    accel,               \* __accel
    plot,                \* "none", "ready", or "unavailable": no matplotlive to import
    spine_observation,   \* the state and the acceleration __spine_observation is made of
    observation,         \* last observation returned
    terminated,          \* last value returned by step, FALSE after a reset
    outcome,             \* what the last call did
    commanded            \* history: the last action

vars == <<state, accel, plot, spine_observation, observation, terminated, outcome, commanded>>

State == [theta : Int, r : Int, thetad : Int, rd : Int]
Upright == [theta |-> 0, r |-> 0, thetad |-> 0, rd |-> 0]
Accel == [thetadd : Int, rdd : Int]
AtRest == [thetadd |-> 0, rdd |-> 0]

TypeOK ==
    /\ state \in State /\ accel \in Accel /\ plot \in {"none", "ready", "unavailable"}
    /\ spine_observation \in [state : State, accel : Accel]
    /\ observation \in State /\ terminated \in BOOLEAN
    /\ outcome \in {"none", "reset", "step", "raised"}
    /\ commanded \in Int

Init ==
    /\ state = Upright /\ accel = AtRest /\ plot \in {"none", "unavailable"}
    /\ spine_observation = [state |-> Upright, accel |-> AtRest]
    /\ observation = Upright /\ terminated = FALSE
    /\ outcome = "none" /\ commanded = 0

-----------------------------------------------------------------------------

clamp_ground_not(action) == action

clamp_ground(action) == clamp_abs(action, max_ground_velocity)

\* Explicit second-order integration, for positions in half units.
_integrate(x, v, a) == <<x + 2 * v + a, v + a>>

NextAccel(action) ==
    LET rdd == clamp_abs(clamp_ground(action) - state.rd, max_ground_accel)
    IN  [thetadd |-> state.theta - 2 * rdd, rdd |-> rdd]

Integrated(a) ==
    LET ground == _integrate(state.r, state.rd, a.rdd)
        pendulum == _integrate(state.theta, state.thetad, a.thetadd)
    IN  [theta |-> pendulum[1], r |-> ground[1], thetad |-> pendulum[2], rd |-> ground[2]]

Noisy(s, noise) ==
    [theta |-> s.theta + noise, r |-> s.r + noise,
     thetad |-> s.thetad + noise, rd |-> s.rd + noise]

detect_fall(pitch) == pitch > fall_pitch \/ pitch < -fall_pitch

_get_spine_observation_before_step == [state |-> state, accel |-> accel']

_get_spine_observation_old_accel == [state |-> state', accel |-> accel]

_get_spine_observation == [state |-> state', accel |-> accel']

_reset_plot == IF plot = "none" THEN "ready" ELSE plot

CanRender == Plotting => plot = "ready"

\* The acceleration stays the one of the last step.
Reset ==
    /\ state' = Upright
    /\ UNCHANGED <<accel, commanded>>
    /\ spine_observation' = _get_spine_observation
    /\ plot' = IF Plotting THEN _reset_plot ELSE plot
    /\ outcome' = IF Plotting /\ plot' = "unavailable" THEN "raised" ELSE "reset"
    /\ IF outcome' = "reset"
       THEN observation' = state' /\ terminated' = FALSE
       ELSE UNCHANGED <<observation, terminated>>

\* Without a plot to render to, step raises after it has moved the pendulum.
Step(action) ==
    /\ Distance(state.r, 0) <= MaxPosition /\ Distance(state.theta, 0) <= MaxPitch
    /\ commanded' = action
    /\ accel' = NextAccel(action)
    /\ state' = Integrated(accel')
    /\ \/ /\ CanRender /\ outcome' = "step"
          /\ \E noise \in -Uncertainty .. Uncertainty : observation' = Noisy(state', noise)
          /\ terminated' = detect_fall(state'.theta)
          /\ spine_observation' = _get_spine_observation
       \/ /\ ~CanRender /\ outcome' = "raised"
          /\ UNCHANGED <<observation, terminated, spine_observation>>
    /\ UNCHANGED plot

\* One above what the action space allows, to be clamped.
Action == -(max_ground_velocity + 1) .. max_ground_velocity + 1

render ==
    /\ ~CanRender /\ outcome' = "raised"
    /\ UNCHANGED <<state, accel, plot, spine_observation, observation, terminated, commanded>>

Next == Reset \/ render \/ \E action \in Action : Step(action)

Spec == Init /\ [][Next]_vars

-----------------------------------------------------------------------------
(***************************************************************************)
(* The two clamps of step, of the commanded velocity then of the           *)
(* acceleration that leads to it, make of the ground velocity the output   *)
(* of the filter with bounded output and derivative of upkie.utils.filters *)
(* over any number of steps and episodes, whatever the pitch and the noise.*)
(***************************************************************************)
GroundFollowsBoundedFilter ==
    [][accel' # accel \/ outcome' = "step" =>
         state'.rd = abs_bounded_derivative_filter(
                        state.rd, commanded', max_ground_velocity, max_ground_accel)]_vars

(***************************************************************************)
(* The acceleration that the observed IMU is computed from is the change   *)
(* of the observed wheel odometry since the previous call that returned,   *)
(* which may be a reset: observers that differentiate one find the other.  *)
(***************************************************************************)
ImuAgreesWithOdometry ==
    [][(outcome # "raised" /\ outcome' = "step") =>
         spine_observation'.accel.rdd
            = spine_observation'.state.rd - spine_observation.state.rd]_vars

(***************************************************************************)
(* When a call returns, the observation and the dictionary of the spine    *)
(* that come with it are those of the current state, up to the uncertainty:*)
(* noise does not build up, and an unreported fall has not happened, after *)
(* any number of calls that have raised exceptions.                        *)
(***************************************************************************)
ObservationIsCurrent ==
    outcome \in {"reset", "step"} =>
        /\ spine_observation.state = state
        /\ \A x \in {"theta", "r", "thetad", "rd"} :
             Distance(observation[x], state[x]) <= Uncertainty
        /\ terminated = (Distance(state.theta, 0) > fall_pitch)

=============================================================================
