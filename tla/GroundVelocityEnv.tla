-------------------------- MODULE GroundVelocityEnv --------------------------
(***************************************************************************)
(* UpkieGroundVelocity (upkie/envs/upkie_ground_velocity.py) in simulation *)
(* under a stack of wrappers (upkie/envs/wrappers), which are, from the    *)
(* outside: DifferentiateAction, AddLagToAction, NoisifyAction; RandomPush *)
(* replaces get_spine_action of the environment itself.                    *)
(*                                                                         *)
(* Velocities are integers, one per lattice point; derivatives are given   *)
(* per period and periods of filters in multiples of the sampling period.  *)
(* A call goes down the stack, which updates the wrappers it goes through, *)
(* and comes back as an answer or as an exception that none of them        *)
(* catches: what it has updated by then stays.                             *)
(***************************************************************************)
EXTENDS BaseEnv, BulletForces, Filters

CONSTANTS
    env,                  \* the environment, alone in Envs
    Wrappers,
    torso,                \* the link that RandomPush pushes
    ExtraLinks,           \* the links that each of the user's extras names
    MaxGroundVelocity,    \* action space of the environment
    MaxDerivative,        \* action space of DifferentiateAction
    MaxNoise,
    TimeConstants,        \* time_constant_box of AddLagToAction
    LegCutoff,            \* cutoff period of the leg positions
    MaxLegPosition,       \* bound: leg positions the spine may observe
    LeftWheeled,
    NoPosition            \* leg position before the first reset

ASSUME GroundVelocityAssumption ==
    /\ Envs = {env}
    /\ Wrappers \subseteq {"DifferentiateAction", "AddLagToAction", "NoisifyAction", "RandomPush"}
    /\ torso \in Links
    /\ ExtraLinks \in [1 .. MaxEntries -> SUBSET Links]
    /\ MaxGroundVelocity \in Nat /\ MaxDerivative \in Nat /\ MaxNoise \in Nat
    /\ TimeConstants \subseteq Nat \ {0} /\ TimeConstants # {}
    /\ LegCutoff \in Nat /\ 2 < LegCutoff
    /\ MaxLegPosition \in Nat /\ LeftWheeled \in BOOLEAN
    /\ NoPosition \notin Int

VARIABLES
    integral,         \* _integral of DifferentiateAction
    filtered_action, time_constant,    \* of AddLagToAction
    asserted,         \* whether the assertions of the filters have held
    leg_position,     \* __leg_servo_action: position of the upper leg joints
    measured,         \* history: leg position in the last initial observation
    command           \* what get_spine_action made of the last action

wrapper_vars == <<integral, filtered_action, time_constant, asserted>>
servo_vars == <<leg_position, measured, command>>
vars == <<base_vars, bullet_vars, wrapper_vars, servo_vars>>

Velocity == -MaxGroundVelocity .. MaxGroundVelocity
Derivative == -MaxDerivative .. MaxDerivative
LegPosition == -MaxLegPosition .. MaxLegPosition

\* Forces of RandomPush.
ZeroForce == -1
Push == -2

\* The forces in the key "bullet" of an action, numbered by BaseEnv.  The key
\* of a user may have no external forces at all.
NamedLinks(bullet) ==
    IF bullet \in DOMAIN ExtraLinks THEN ExtraLinks[bullet] ELSE {torso}

Forces(bullet) ==
    [link \in Links |-> IF link \in NamedLinks(bullet) THEN bullet ELSE 0]

TypeOK ==
    /\ BaseTypeOK /\ BulletTypeOK
    /\ integral \in Velocity /\ filtered_action \in Velocity
    /\ time_constant \in TimeConstants /\ asserted \in BOOLEAN
    /\ leg_position \in LegPosition \cup {NoPosition}
    /\ measured \in LegPosition \cup {NoPosition}
    /\ command \in [left : Velocity, right : Velocity, warned : BOOLEAN]

Init ==
    /\ BaseInit /\ BulletInit
    /\ integral = 0 /\ filtered_action = 0 /\ time_constant \in TimeConstants
    /\ asserted = TRUE
    /\ leg_position = NoPosition /\ measured = NoPosition
    /\ command = [left |-> 0, right |-> 0, warned |-> FALSE]

-----------------------------------------------------------------------------
(* Wrappers: what each passes to the next. *)

\* Action space of the stack.
ActionSpace == IF "DifferentiateAction" \in Wrappers THEN Derivative ELSE Velocity

clip(action) == clamp(action, -MaxGroundVelocity, MaxGroundVelocity)

DifferentiateAction_step(action) ==
    IF "DifferentiateAction" \in Wrappers THEN clip(integral + action) ELSE action

\* Up to two sampling periods, the filter is skipped.
SkipsFilter == "AddLagToAction" \notin Wrappers \/ time_constant <= 2

AddLagToAction_step(action) ==
    IF SkipsFilter THEN {action}
    ELSE low_pass_filter(filtered_action, time_constant, action)

NoisifyAction_action_not_clipped(action) ==
    IF "NoisifyAction" \in Wrappers
    THEN {action + noise : noise \in -MaxNoise .. MaxNoise}
    ELSE {action}

NoisifyAction_action(action) ==
    IF "NoisifyAction" \in Wrappers
    THEN {clip(action + noise) : noise \in -MaxNoise .. MaxNoise}
    ELSE {action}

RandomPush_bullet_only_when_pushing == IF "RandomPush" \in Wrappers THEN {0, Push} ELSE {0}

RandomPush_bullet == IF "RandomPush" \in Wrappers THEN {ZeroForce, Push} ELSE {0}

DifferentiateAction_reset_nothing == integral

DifferentiateAction_reset == 0

AddLagToAction_reset ==
    /\ filtered_action' = 0
    /\ time_constant' \in TimeConstants

-----------------------------------------------------------------------------
(* The environment. *)

get_upper_leg_servo_action == low_pass_filter(leg_position, LegCutoff, 0)

get_wheel_servo_action(left_wheel_velocity, warned) ==
    [left |-> left_wheel_velocity, right |-> -left_wheel_velocity, warned |-> warned]

get_spine_action(action) ==
    LET ground_velocity == clamp(action, -MaxGroundVelocity, MaxGroundVelocity)
        warned == Warns(action, -MaxGroundVelocity, MaxGroundVelocity)
    IN  get_wheel_servo_action(IF LeftWheeled THEN ground_velocity ELSE -ground_velocity,
                               warned)

initial_leg_position_once(observed) ==
    IF leg_position = NoPosition THEN observed ELSE leg_position

initial_leg_position(observed) == observed

\* The legs start from the first observation of the session.
Reset ==
    /\ integral' = DifferentiateAction_reset
    /\ AddLagToAction_reset
    /\ BaseReset(env)
    /\ IF served' # served THEN ServeReset ELSE UNCHANGED bullet_vars
    /\ \E position \in LegPosition :
         IF outcome'.is = "reset"
         THEN leg_position' = initial_leg_position(position) /\ measured' = position
         ELSE UNCHANGED <<leg_position, measured>>
    /\ UNCHANGED <<asserted, command>>

\* Without leg positions, low_pass_filter raises an exception.
EnvStep(action) ==
    \/ /\ leg_position # NoPosition
       /\ leg_position' \in get_upper_leg_servo_action
       /\ command' = get_spine_action(action)
       /\ \E bullet \in RandomPush_bullet : BaseStep(env, bullet)
       /\ \/ spine[env] = "idle" /\ \E sent_action \in sent' : ServeStep(Forces(sent_action.bullet))
          \/ outcome'.is = "raised" /\ UNCHANGED bullet_vars
       /\ UNCHANGED measured
    \/ /\ \/ leg_position = NoPosition /\ BaseStepRefused(env)
          \/ BaseStepUnready(env)
       /\ UNCHANGED <<bullet_vars, servo_vars>>

Step(action) ==
    LET differentiated == DifferentiateAction_step(action)
    IN  /\ integral' = IF "DifferentiateAction" \in Wrappers THEN differentiated ELSE integral
        /\ \E lagged \in AddLagToAction_step(differentiated) :
             /\ filtered_action' = IF SkipsFilter THEN filtered_action ELSE lagged
             /\ \E noisy \in NoisifyAction_action(lagged) : EnvStep(noisy)
        /\ asserted' = (asserted /\ (SkipsFilter \/ Nyquist(time_constant)))
        /\ UNCHANGED time_constant

OtherCalls == UserCalls(env) /\ UNCHANGED <<bullet_vars, wrapper_vars, servo_vars>>

Next == Reset \/ OtherCalls \/ \E action \in ActionSpace : Step(action)

Spec == Init /\ [][Next]_vars

-----------------------------------------------------------------------------
(***************************************************************************)
(* As long as the policy stays in the action space of the stack, the       *)
(* environment never has to clamp what reaches it: no sum of derivatives,  *)
(* lag and noise leaves its action space, over any number of episodes.     *)
(***************************************************************************)
NeverClamped == ~command.warned

(***************************************************************************)
(* The first step of an episode does not depend on the previous one: the   *)
(* wheels start from rest, within one period of the largest derivative and *)
(* the noise, whatever the integral and the filter had reached, and even   *)
(* if calls have failed in between.                                        *)
(***************************************************************************)
SoftStart ==
    [][(/\ "DifferentiateAction" \in Wrappers
        /\ outcome.is = "reset" /\ sent' # {})
         => command'.left \in -(MaxDerivative + MaxNoise) .. (MaxDerivative + MaxNoise)]_vars

(***************************************************************************)
(* The position commanded to the legs stays between where they were        *)
(* observed at the last reset that returned and zero, where it goes,       *)
(* however many sessions and failed calls came before.                     *)
(***************************************************************************)
LegsGoToNeutral ==
    /\ (leg_position = NoPosition) = (measured = NoPosition)
    /\ measured # NoPosition =>
         leg_position \in Lowest(measured, 0) .. Highest(measured, 0)

(***************************************************************************)
(* The filter of the lag wrapper never stops a step with its assertion     *)
(* that alpha < 0.5, whatever time constant a reset draws.                 *)
(***************************************************************************)
FilterAssertionsHold == asserted

(***************************************************************************)
(* In a stack with RandomPush, the force on the torso during a step is the *)
(* one drawn for this step, or that of the user's extra if it names the    *)
(* torso: no push goes on in a later step because of the merged dictionary *)
(* or of the forces Bullet's interface keeps.  There is one exception: an  *)
(* extra that does not name the torso takes the place of what RandomPush   *)
(* has drawn, and the force of the step before, whatever episode it is     *)
(* from, goes on during that step.                                         *)
(***************************************************************************)
TakesThePlaceOfPush(bullet) == torso \notin NamedLinks(bullet)

PushIsThatOfTheStep ==
    [][("RandomPush" \in Wrappers /\ outcome'.is = "step") =>
         \A sent_action \in sent' :
            external_forces'[torso] =
                IF TakesThePlaceOfPush(sent_action.bullet)
                THEN external_forces[torso]
                ELSE sent_action.bullet]_vars

=============================================================================
