--------------------------- MODULE PendulumProofs ---------------------------
(***************************************************************************)
(* Proofs about WheeledInvertedPendulum for any bounds of the velocity and *)
(* of the acceleration, any fall pitch and any uncertainty.                *)
(*                                                                         *)
(* The argument: each step keeps the ground velocity within its bounds     *)
(* (Bounded), and under that condition the two clamps of step are the      *)
(* bounded filter; the dictionary of the spine is that of the current      *)
(* state unless a call has raised an exception (Current).                  *)
(***************************************************************************)
EXTENDS WheeledInvertedPendulum, TLAPS

Bounded == state.rd \in -max_ground_velocity .. max_ground_velocity

Current == outcome # "raised" => spine_observation.state = state

IInv == TypeOK /\ Bounded /\ Current /\ ObservationIsCurrent

(* The numbers a pendulum is made with.                                    *)
LEMMA Numbers ==
    /\ max_ground_velocity \in Nat /\ max_ground_accel \in Nat
    /\ fall_pitch \in Nat /\ Uncertainty \in Nat
  BY PendulumAssumption DEF PendulumAssumption

-----------------------------------------------------------------------------
(* A step on its own. *)

(* The clamp of the acceleration after that of the velocity is the filter  *)
(* with bounded output and derivative, if the velocity was within bounds.  *)
LEMMA TwoClamps ==
    ASSUME TypeOK, Bounded, NEW action \in Int
    PROVE  /\ NextAccel(action).rdd \in Int
           /\ state.rd + NextAccel(action).rdd
                = abs_bounded_derivative_filter(state.rd, action,
                                                max_ground_velocity, max_ground_accel)
           /\ state.rd + NextAccel(action).rdd
                \in -max_ground_velocity .. max_ground_velocity
  <1>1. state.rd \in Int
    BY DEF TypeOK, State
  <1>2. NextAccel(action).rdd
          = clamp_abs(clamp_ground(action) - state.rd, max_ground_accel)
    BY DEF NextAccel
  <1>. QED BY <1>1, <1>2, Numbers
         DEF Bounded, clamp_abs, clamp_ground, clamp, abs_bounded_derivative_filter,
             bounded_derivative_filter

(* The dynamics are those of integers, and integrate the acceleration.     *)
LEMMA Dynamics ==
    ASSUME TypeOK, Bounded, NEW action \in Int
    PROVE  /\ NextAccel(action) \in Accel
           /\ Integrated(NextAccel(action)) \in State
           /\ Integrated(NextAccel(action)).rd = state.rd + NextAccel(action).rdd
  <1>. DEFINE a == NextAccel(action)
  <1>1. state.theta \in Int /\ state.r \in Int /\ state.thetad \in Int /\ state.rd \in Int
    BY DEF TypeOK, State
  <1>2. a.rdd \in Int
    BY TwoClamps
  <1>3. a = [thetadd |-> state.theta - 2 * a.rdd, rdd |-> a.rdd]
    BY DEF NextAccel
  <1>4. a \in Accel
    BY <1>1, <1>2, <1>3 DEF Accel
  <1>. HIDE DEF a
  <1>5. a.thetadd \in Int
    BY <1>4 DEF Accel
  <1>6. Integrated(a) =
          [theta |-> state.theta + 2 * state.thetad + a.thetadd,
           r |-> state.r + 2 * state.rd + a.rdd,
           thetad |-> state.thetad + a.thetadd, rd |-> state.rd + a.rdd]
    BY DEF Integrated, _integrate
  <1>7. Integrated(a) \in State /\ Integrated(a).rd = state.rd + a.rdd
    BY <1>1, <1>2, <1>5, <1>6 DEF State
  <1>. QED BY <1>4, <1>7 DEF a

(* What a noisy observation says of a state.                               *)
LEMMA NoiseIsBounded ==
    ASSUME NEW s \in State, NEW noise \in -Uncertainty .. Uncertainty
    PROVE  /\ Noisy(s, noise) \in State
           /\ \A x \in {"theta", "r", "thetad", "rd"} :
                Distance(Noisy(s, noise)[x], s[x]) <= Uncertainty
  <1>1. s.theta \in Int /\ s.r \in Int /\ s.thetad \in Int /\ s.rd \in Int
    BY DEF State
  <1>2. noise \in Int
    BY Numbers
  <1>3. Noisy(s, noise) \in State
    BY <1>1, <1>2 DEF Noisy, State
  <1>4. ASSUME NEW y \in Int
        PROVE  Distance(y + noise, y) <= Uncertainty
    BY <1>2, Numbers DEF Distance, Highest, Lowest
  <1>5. ASSUME NEW x \in {"theta", "r", "thetad", "rd"}
        PROVE  Noisy(s, noise)[x] = s[x] + noise /\ s[x] \in Int
    BY <1>1 DEF Noisy
  <1>. QED BY <1>3, <1>4, <1>5

(* A state is as far from itself as the least uncertainty.                 *)
LEMMA NoDistance ==
    ASSUME NEW s \in State
    PROVE  \A x \in {"theta", "r", "thetad", "rd"} : Distance(s[x], s[x]) <= Uncertainty
  <1>1. ASSUME NEW x \in {"theta", "r", "thetad", "rd"} PROVE s[x] \in Int
    BY DEF State
  <1>2. ASSUME NEW y \in Int PROVE Distance(y, y) <= Uncertainty
    BY Numbers DEF Distance, Highest, Lowest
  <1>. QED BY <1>1, <1>2

(* detect_fall compares the distance from the vertical.                    *)
LEMMA Falls ==
    ASSUME NEW pitch \in Int
    PROVE  /\ detect_fall(pitch) \in BOOLEAN
           /\ detect_fall(pitch) = (Distance(pitch, 0) > fall_pitch)
  BY Numbers DEF detect_fall, Distance, Highest, Lowest

-----------------------------------------------------------------------------
(* The invariant. *)

(* A new pendulum stands still.                                            *)
LEMMA Initially == Init => IInv
  <1>. SUFFICES ASSUME Init PROVE IInv
    OBVIOUS
  <1>1. Upright \in State /\ AtRest \in Accel /\ Upright.rd = 0
    BY DEF Upright, State, AtRest, Accel
  <1>2. TypeOK
    <2>1. terminated \in BOOLEAN
      BY Zenon DEF Init
    <2>2. /\ state \in State /\ accel \in Accel /\ observation \in State
          /\ spine_observation \in [state : State, accel : Accel]
      BY <1>1, Zenon DEF Init
    <2>3. /\ plot \in {"none", "ready", "unavailable"} /\ commanded \in Int
          /\ outcome \in {"none", "reset", "step", "raised"}
      BY DEF Init
    <2>. QED BY <2>1, <2>2, <2>3 DEF TypeOK
  <1>3. Bounded
    BY <1>1, Numbers DEF Init, Bounded
  <1>4. spine_observation.state = state /\ outcome = "none"
    BY DEF Init
  <1>5. Current /\ ObservationIsCurrent
    BY <1>4 DEF Current, ObservationIsCurrent
  <1>. QED BY <1>2, <1>3, <1>5 DEF IInv

(* reset returns what it has set, also after calls that raised.            *)
LEMMA ResetPreserves == ASSUME IInv, Reset PROVE IInv'
  <1>1. Upright \in State /\ Upright.rd = 0 /\ Upright.theta = 0
    BY DEF Upright, State
  <1>2. /\ state' = Upright /\ accel' = accel /\ commanded' = commanded
        /\ spine_observation' = [state |-> state', accel |-> accel']
        /\ plot' \in {"none", "ready", "unavailable"}
        /\ outcome' \in {"reset", "raised"}
    BY DEF Reset, _get_spine_observation, _reset_plot, IInv, TypeOK
  <1>3. CASE outcome' = "reset"
    <2>1. observation' = state' /\ terminated' = FALSE
      BY <1>3 DEF Reset
    <2>2. TypeOK'
      BY <1>1, <1>2, <2>1 DEF IInv, TypeOK
    <2>3. terminated' = (Distance(state'.theta, 0) > fall_pitch)
      <3>1. (Distance(state'.theta, 0) > fall_pitch) = FALSE
        BY <1>1, <1>2, Numbers DEF Distance, Highest, Lowest
      <3>. QED BY <2>1, <3>1, Zenon
    <2>4. \A x \in {"theta", "r", "thetad", "rd"} :
            Distance(observation'[x], state'[x]) <= Uncertainty
      BY <1>1, <1>2, <2>1, NoDistance
    <2>5. spine_observation'.state = state'
      BY <1>2
    <2>6. ObservationIsCurrent'
      BY <2>3, <2>4, <2>5, Zenon DEF ObservationIsCurrent
    <2>7. Bounded' /\ Current'
      BY <1>1, <1>2, <2>5, Numbers DEF Bounded, Current
    <2>. QED BY <2>2, <2>6, <2>7 DEF IInv
  <1>4. CASE outcome' = "raised"
    <2>1. UNCHANGED <<observation, terminated>>
      BY <1>4 DEF Reset
    <2>2. TypeOK'
      BY <1>1, <1>2, <2>1 DEF IInv, TypeOK
    <2>3. Bounded'
      BY <1>1, <1>2, Numbers DEF Bounded
    <2>4. Current' /\ ObservationIsCurrent'
      BY <1>4 DEF Current, ObservationIsCurrent
    <2>. QED BY <2>2, <2>3, <2>4 DEF IInv
  <1>. QED BY <1>2, <1>3, <1>4

(* step, whether there is a plot to render to or not.                      *)
LEMMA StepPreserves == ASSUME IInv, NEW action \in Int, Step(action) PROVE IInv'
  <1>1. /\ accel' = NextAccel(action) /\ state' = Integrated(NextAccel(action))
        /\ commanded' = action /\ plot' = plot
    BY DEF Step
  <1>2. accel' \in Accel /\ state' \in State
    BY <1>1, Dynamics DEF IInv
  <1>3. Bounded'
    BY <1>1, Dynamics, TwoClamps DEF IInv, Bounded
  <1>4. ASSUME outcome' = "step", NEW noise \in -Uncertainty .. Uncertainty,
               observation' = Noisy(state', noise),
               terminated' = detect_fall(state'.theta),
               spine_observation' = _get_spine_observation
        PROVE  IInv'
    <2>1. spine_observation' = [state |-> state', accel |-> accel']
      BY <1>4 DEF _get_spine_observation
    <2>2. /\ observation' \in State
          /\ \A x \in {"theta", "r", "thetad", "rd"} :
               Distance(observation'[x], state'[x]) <= Uncertainty
      BY <1>2, <1>4, NoiseIsBounded
    <2>3. state'.theta \in Int
      BY <1>2 DEF State
    <2>4. /\ terminated' \in BOOLEAN
          /\ terminated' = (Distance(state'.theta, 0) > fall_pitch)
      BY <2>3, <1>4, Falls, Zenon
    <2>5. TypeOK'
      BY <1>1, <1>2, <1>4, <2>1, <2>2, <2>4 DEF IInv, TypeOK
    <2>6. spine_observation'.state = state'
      BY <2>1
    <2>7. Current'
      BY <2>6 DEF Current
    <2>8. ObservationIsCurrent'
      BY <2>2, <2>4, <2>6, Zenon DEF ObservationIsCurrent
    <2>. QED BY <1>3, <2>5, <2>7, <2>8 DEF IInv
  <1>5. ASSUME outcome' = "raised",
               UNCHANGED <<observation, terminated, spine_observation>>
        PROVE  IInv'
    <2>1. TypeOK'
      BY <1>1, <1>2, <1>5 DEF IInv, TypeOK
    <2>2. Current' /\ ObservationIsCurrent'
      BY <1>5 DEF Current, ObservationIsCurrent
    <2>. QED BY <1>3, <2>1, <2>2 DEF IInv
  <1>. QED BY <1>4, <1>5 DEF Step

(* Actions of the agent, within bounds or not, are integers.               *)
LEMMA ActionsAreIntegers == Action \subseteq Int
  BY Numbers DEF Action

(* Every call preserves the invariant.                                     *)
LEMMA Inductive == IInv /\ [Next]_vars => IInv'
  <1>. SUFFICES ASSUME IInv, [Next]_vars PROVE IInv'
    OBVIOUS
  <1>1. CASE Reset
    BY <1>1, ResetPreserves
  <1>2. CASE render
    BY <1>2 DEF render, IInv, TypeOK, Bounded, Current, ObservationIsCurrent
  <1>3. CASE \E action \in Action : Step(action)
    BY <1>3, StepPreserves, ActionsAreIntegers
  <1>4. CASE UNCHANGED vars
    BY <1>4 DEF vars, IInv, TypeOK, Bounded, Current, ObservationIsCurrent
  <1>. QED BY <1>1, <1>2, <1>3, <1>4 DEF Next

(* The invariant holds for every pendulum.                                 *)
THEOREM Invariance == Spec => []IInv
  BY Initially, Inductive, PTL DEF Spec

-----------------------------------------------------------------------------
(* What it is for. *)

(* State and observations keep their types, also over calls that raise.    *)
THEOREM TypeCorrect == Spec => []TypeOK
  <1>1. IInv => TypeOK
    BY DEF IInv
  <1>. QED BY <1>1, Invariance, PTL

(* A call that returns gives the observation of the current state, with    *)
(* the fall it reports, after any calls that raised.                       *)
THEOREM ObservationsAreCurrent == Spec => []ObservationIsCurrent
  <1>1. IInv => ObservationIsCurrent
    BY DEF IInv
  <1>. QED BY <1>1, Invariance, PTL

(* The ground velocity follows the filter with bounded output and          *)
(* derivative for any bounds, over any number of episodes.                 *)
THEOREM GroundIsFiltered == Spec => GroundFollowsBoundedFilter
  <1>1. ASSUME IInv, [Next]_vars, accel' # accel \/ outcome' = "step",
               ~ UNCHANGED vars
        PROVE  state'.rd = abs_bounded_derivative_filter(
                 state.rd, commanded', max_ground_velocity, max_ground_accel)
    <2>1. ~Reset
      BY <1>1 DEF Reset
    <2>2. ~render
      BY <1>1 DEF render
    <2>3. PICK action \in Int : Step(action)
      BY <1>1, <2>1, <2>2, ActionsAreIntegers DEF Next
    <2>4. commanded' = action /\ state' = Integrated(NextAccel(action))
      BY <2>3 DEF Step
    <2>. QED BY <1>1, <2>4, Dynamics, TwoClamps DEF IInv
  <1>2. IInv /\ [Next]_vars =>
          [accel' # accel \/ outcome' = "step" =>
             state'.rd = abs_bounded_derivative_filter(
                state.rd, commanded', max_ground_velocity, max_ground_accel)]_vars
    BY <1>1
  <1>. QED BY <1>2, Invariance, PTL DEF Spec, GroundFollowsBoundedFilter

(* The acceleration of the IMU is the change of wheel odometry between two *)
(* calls that return, for any bounds.                                      *)
THEOREM ImuFollowsOdometry == Spec => ImuAgreesWithOdometry
  <1>1. ASSUME IInv, [Next]_vars, outcome # "raised", outcome' = "step", ~ UNCHANGED vars
        PROVE  spine_observation'.accel.rdd
                 = spine_observation'.state.rd - spine_observation.state.rd
    <2>1. ~Reset
      BY <1>1 DEF Reset
    <2>2. ~render
      BY <1>1 DEF render
    <2>3. PICK action \in Int : Step(action)
      BY <1>1, <2>1, <2>2, ActionsAreIntegers DEF Next
    <2>4. /\ accel' = NextAccel(action) /\ state' = Integrated(NextAccel(action))
          /\ spine_observation' = [state |-> state', accel |-> accel']
      BY <1>1, <2>3 DEF Step, _get_spine_observation
    <2>5. state'.rd = state.rd + accel'.rdd /\ accel'.rdd \in Int /\ state.rd \in Int
      BY <1>1, <2>4, Dynamics, TwoClamps DEF IInv, TypeOK, State
    <2>6. spine_observation.state = state
      BY <1>1 DEF IInv, Current
    <2>. QED BY <2>4, <2>5, <2>6
  <1>2. IInv /\ [Next]_vars =>
          [(outcome # "raised" /\ outcome' = "step") =>
             spine_observation'.accel.rdd
                = spine_observation'.state.rd - spine_observation.state.rd]_vars
    BY <1>1
  <1>. QED BY <1>2, Invariance, PTL DEF Spec, ImuAgreesWithOdometry

=============================================================================
