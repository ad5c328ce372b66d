------------------------ MODULE GroundVelocityProofs ------------------------
(***************************************************************************)
(* Proofs about UpkieGroundVelocity for any stack of action wrappers, any  *)
(* bounds of the actions, any noise and time constants, any number of      *)
(* episodes and calls that raise.                                          *)
(*                                                                         *)
(* The argument: what goes from one wrapper to the next stays in the       *)
(* action space of the environment (lemma Stack); wrappers that have just  *)
(* been reset hold zeros (AtRest), which makes an episode start softly;    *)
(* the extras are what the user asked for (ExtrasAsAsked), so step sends   *)
(* them; and a stack with RandomPush always has a force to send, on the    *)
(* torso unless an extra takes its place, where the merged dictionary has  *)
(* no other force for a link than the simulator (ForcesAgree).             *)
(***************************************************************************)
EXTENDS GroundVelocityEnv, TLAPS

WrapperTypes ==
    /\ integral \in Velocity /\ filtered_action \in Velocity
    /\ time_constant \in TimeConstants

AtRest == outcome.is = "reset" => integral = 0 /\ filtered_action = 0

LegTypes ==
    /\ leg_position \in LegPosition \cup {NoPosition}
    /\ measured \in LegPosition \cup {NoPosition}

ExtrasAsAsked ==
    /\ entries \in Entry
    /\ extras \in [Envs -> Extras]
    /\ asked \in [Envs -> [bullet : Entry, user : Entry]]
    /\ \A e \in Envs : extras[e].bullet = asked[e].bullet /\ extras[e].user = asked[e].user

ForcesAgree ==
    /\ working_bullet \in [Links -> Int]
    /\ \A link \in Links : working_bullet[link] \in {0, external_forces[link]}

IInv ==
    /\ WrapperTypes /\ AtRest /\ FilterAssertionsHold
    /\ LegTypes /\ LegsGoToNeutral
    /\ ExtrasAsAsked
    /\ NeverClamped
    /\ ForcesAgree

-----------------------------------------------------------------------------
(* Filters and wrappers. *)

(* The low-pass filter of upkie.utils.filters stays between its last       *)
(* output and its input.                                                   *)
LEMMA LowPass ==
    ASSUME NEW a \in Int, NEW b \in Int, NEW c, NEW x \in low_pass_filter(a, c, b)
    PROVE  x \in Int /\ Lowest(a, b) <= x /\ x <= Highest(a, b)
  BY DEF low_pass_filter, Lowest, Highest

(* The numbers an environment is made with. *)
LEMMA Numbers ==
    /\ MaxGroundVelocity \in Nat /\ MaxDerivative \in Nat /\ MaxNoise \in Nat
    /\ MaxLegPosition \in Nat /\ MaxEntries \in Nat
    /\ TimeConstants \subseteq Nat /\ NoPosition \notin Int /\ Envs = {env}
    /\ torso \in Links
  BY GroundVelocityAssumption, BaseEnvAssumption
  DEF GroundVelocityAssumption, BaseEnvAssumption

(* clip gives an action of the environment. *)
LEMMA Clip == ASSUME NEW a \in Int PROVE clip(a) \in Velocity
  BY Numbers DEF clip, clamp, Velocity

(* Each wrapper hands an action of the environment to the next.            *)
LEMMA Stack ==
    ASSUME WrapperTypes, NEW action \in ActionSpace,
           NEW lagged \in AddLagToAction_step(DifferentiateAction_step(action)),
           NEW noisy \in NoisifyAction_action(lagged)
    PROVE  /\ DifferentiateAction_step(action) \in Velocity
           /\ lagged \in Velocity /\ noisy \in Velocity
  <1>. DEFINE differentiated == DifferentiateAction_step(action)
  <1>1. differentiated \in Velocity
    <2>1. CASE "DifferentiateAction" \in Wrappers
      <3>1. integral \in Int /\ action \in Int
        BY <2>1, Numbers DEF WrapperTypes, ActionSpace, Velocity, Derivative
      <3>. QED BY <2>1, <3>1, Clip DEF DifferentiateAction_step
    <2>2. CASE "DifferentiateAction" \notin Wrappers
      BY <2>2 DEF DifferentiateAction_step, ActionSpace
    <2>. QED BY <2>1, <2>2
  <1>2. lagged \in Velocity
    <2>1. CASE SkipsFilter
      BY <2>1, <1>1 DEF AddLagToAction_step
    <2>2. CASE ~SkipsFilter
      <3>1. lagged \in low_pass_filter(filtered_action, time_constant, differentiated)
        BY <2>2 DEF AddLagToAction_step
      <3>2. filtered_action \in Int /\ differentiated \in Int
        BY <1>1, Numbers DEF WrapperTypes, Velocity
      <3>3. /\ lagged \in Int
            /\ Lowest(filtered_action, differentiated) <= lagged
            /\ lagged <= Highest(filtered_action, differentiated)
        BY <3>1, <3>2, LowPass
      <3>. HIDE DEF differentiated
      <3>. QED BY <3>2, <3>3, <1>1, Numbers DEF WrapperTypes, Velocity, Lowest, Highest
    <2>. QED BY <2>1, <2>2
  <1>3. noisy \in Velocity
    <2>1. CASE "NoisifyAction" \in Wrappers
      <3>1. PICK noise \in -MaxNoise .. MaxNoise : noisy = clip(lagged + noise)
        BY <2>1 DEF NoisifyAction_action
      <3>2. lagged + noise \in Int
        BY <1>2, Numbers DEF Velocity
      <3>. QED BY <3>1, <3>2, Clip
    <2>2. CASE "NoisifyAction" \notin Wrappers
      BY <2>2, <1>2 DEF NoisifyAction_action
    <2>. QED BY <2>1, <2>2
  <1>. QED BY <1>1, <1>2, <1>3

(* From rest, no wrapper goes further than one derivative and the noise.   *)
LEMMA StackFromRest ==
    ASSUME "DifferentiateAction" \in Wrappers,
           integral = 0, filtered_action = 0, NEW action \in ActionSpace,
           NEW lagged \in AddLagToAction_step(DifferentiateAction_step(action)),
           NEW noisy \in NoisifyAction_action(lagged)
    PROVE  noisy \in -(MaxDerivative + MaxNoise) .. MaxDerivative + MaxNoise
  <1>. DEFINE differentiated == DifferentiateAction_step(action)
  <1>1. differentiated \in Derivative
    BY Numbers DEF DifferentiateAction_step, clip, clamp, ActionSpace, Derivative
  <1>2. lagged \in Derivative
    <2>1. CASE SkipsFilter
      BY <2>1, <1>1 DEF AddLagToAction_step
    <2>2. CASE ~SkipsFilter
      <3>1. lagged \in low_pass_filter(0, time_constant, differentiated)
        BY <2>2 DEF AddLagToAction_step
      <3>2. differentiated \in Int
        BY <1>1, Numbers DEF Derivative
      <3>3. /\ lagged \in Int
            /\ Lowest(0, differentiated) <= lagged
            /\ lagged <= Highest(0, differentiated)
        BY <3>1, <3>2, LowPass
      <3>. HIDE DEF differentiated
      <3>. QED BY <3>2, <3>3, <1>1, Numbers DEF Derivative, Lowest, Highest
    <2>. QED BY <2>1, <2>2
  <1>3. CASE "NoisifyAction" \in Wrappers
    <2>1. PICK noise \in -MaxNoise .. MaxNoise : noisy = clip(lagged + noise)
      BY <1>3 DEF NoisifyAction_action
    <2>. QED BY <2>1, <1>2, Numbers DEF clip, clamp, Derivative
  <1>4. CASE "NoisifyAction" \notin Wrappers
    BY <1>4, <1>2, Numbers DEF NoisifyAction_action, Derivative
  <1>. QED BY <1>3, <1>4

-----------------------------------------------------------------------------
(* Parts of a step. *)

(* The filter of the legs keeps them between where they were and zero.     *)
LEMMA LegsStep ==
    ASSUME LegTypes, LegsGoToNeutral, leg_position # NoPosition,
           leg_position' \in get_upper_leg_servo_action, UNCHANGED measured
    PROVE  LegTypes' /\ LegsGoToNeutral'
  <1>1. leg_position \in Int /\ measured \in Int /\ measured # NoPosition
    BY Numbers DEF LegTypes, LegsGoToNeutral, LegPosition
  <1>2. /\ leg_position' \in Int
        /\ Lowest(leg_position, 0) <= leg_position'
        /\ leg_position' <= Highest(leg_position, 0)
    BY <1>1, LowPass DEF get_upper_leg_servo_action
  <1>3. leg_position \in Lowest(measured, 0) .. Highest(measured, 0)
    BY <1>1 DEF LegsGoToNeutral
  <1>4. leg_position' \in LegPosition
    BY <1>1, <1>2, Numbers DEF LegTypes, LegPosition, Lowest, Highest
  <1>5. leg_position' \in Lowest(measured, 0) .. Highest(measured, 0)
    BY <1>1, <1>2, <1>3 DEF Lowest, Highest
  <1>6. leg_position' # NoPosition
    BY <1>2, Numbers
  <1>. QED BY <1>1, <1>4, <1>5, <1>6 DEF LegTypes, LegsGoToNeutral

(* The environment does not warn about an action of its action space, and  *)
(* commands the left wheel either way at that velocity.                    *)
LEMMA Command ==
    ASSUME NEW action \in Velocity
    PROVE  /\ ~get_spine_action(action).warned
           /\ get_spine_action(action).left \in {action, -action}
  <1>. DEFINE warned == Warns(action, -MaxGroundVelocity, MaxGroundVelocity)
              ground_velocity == clamp(action, -MaxGroundVelocity, MaxGroundVelocity)
              left == IF LeftWheeled THEN ground_velocity ELSE -ground_velocity
  <1>1. ~warned
    BY Numbers DEF Warns, Velocity
  <1>2. left \in {action, -action}
    BY Numbers DEF clamp, Velocity
  <1>3. get_spine_action(action) = [left |-> left, right |-> -left, warned |-> warned]
    BY DEF get_spine_action, get_wheel_servo_action
  <1>. HIDE DEF warned, left
  <1>4. get_spine_action(action).warned = warned /\ get_spine_action(action).left = left
    BY <1>3
  <1>. QED BY <1>1, <1>2, <1>4

(* A call of step either does not send, or sends the extras as asked.      *)
LEMMA ExtrasStep ==
    ASSUME ExtrasAsAsked, NEW bullet \in {0, ZeroForce, Push}, BaseStep(env, bullet)
    PROVE  /\ ExtrasAsAsked'
           /\ sent' = {WithExtras(env, bullet)}
           /\ outcome'.is \in {"step", "raised"}
  <1>1. env \in Envs
    BY Numbers
  <1>2. ExtrasAsAsked'
    <2>1. extras' \in [Envs -> Extras]
      BY <1>1, Numbers DEF ExtrasAsAsked, BaseStep, ClearExtras, NoExtras, Extras, Entry
    <2>2. asked' \in [Envs -> [bullet : Entry, user : Entry]]
      BY <1>1, Numbers DEF ExtrasAsAsked, BaseStep, NothingAsked, Entry
    <2>3. entries' \in Entry
      BY DEF ExtrasAsAsked, BaseStep
    <2>4. \A e \in Envs : /\ extras'[e].bullet = asked'[e].bullet
                          /\ extras'[e].user = asked'[e].user
      BY <1>1 DEF ExtrasAsAsked, BaseStep, ClearExtras, NoExtras, NothingAsked
    <2>. QED BY <2>1, <2>2, <2>3, <2>4 DEF ExtrasAsAsked
  <1>3. sent' = {WithExtras(env, bullet)}
    BY DEF BaseStep
  <1>4. outcome'.is \in {"step", "raised"}
    BY DEF BaseStep
  <1>. QED BY <1>2, <1>3, <1>4

(* A call of step that ends before it sends.                               *)
LEMMA ExtrasKept ==
    ASSUME ExtrasAsAsked, BaseStepRefused(env) \/ BaseStepUnready(env)
    PROVE  ExtrasAsAsked' /\ sent' = {} /\ outcome'.is = "raised"
  <1>1. env \in Envs
    BY Numbers
  <1>2. CASE BaseStepRefused(env)
    <2>1. sent' = {} /\ outcome'.is = "raised" /\ UNCHANGED <<entries, asked>>
      BY <1>2 DEF BaseStepRefused
    <2>2. (env \in Regulated) \in BOOLEAN
      OBVIOUS
    <2>3. extras' \in [Envs -> Extras]
      BY <1>1, <1>2, <2>2 DEF BaseStepRefused, ExtrasAsAsked, Extras
    <2>4. \A e \in Envs : extras'[e].bullet = extras[e].bullet
                          /\ extras'[e].user = extras[e].user
      BY <1>1, <1>2 DEF BaseStepRefused, ExtrasAsAsked, Extras
    <2>. QED BY <2>1, <2>3, <2>4 DEF ExtrasAsAsked
  <1>3. CASE BaseStepUnready(env)
    BY <1>3 DEF BaseStepUnready, ExtrasAsAsked, extras_vars
  <1>. QED BY <1>2, <1>3

(* Users' other calls, reset included, send nothing and keep the extras    *)
(* what was asked.                                                         *)
LEMMA ExtrasOtherCalls ==
    ASSUME ExtrasAsAsked, BaseReset(env) \/ UserCalls(env)
    PROVE  ExtrasAsAsked' /\ sent' = {}
  <1>1. env \in Envs
    BY Numbers
  <1>2. CASE BaseReset(env)
    BY <1>2 DEF BaseReset, ExtrasAsAsked, extras_vars
  <1>3. CASE Construct(env)
    BY <1>3 DEF Construct, ExtrasAsAsked, extras_vars
  <1>4. CASE Close(env)
    BY <1>4 DEF Close, ExtrasAsAsked, extras_vars
  <1>5. CASE Log(env)
    <2>1. entries' \in Entry
      BY <1>5, Numbers DEF Log, ExtrasAsAsked, Entry
    <2>. QED BY <1>1, <1>5, <2>1 DEF Log, ExtrasAsAsked, Extras
  <1>6. CASE BulletExtra(env)
    <2>1. entries' \in Entry
      BY <1>6, Numbers DEF BulletExtra, ExtrasAsAsked, Entry
    <2>. QED BY <1>1, <1>6, <2>1 DEF BulletExtra, ExtrasAsAsked, Extras
  <1>7. CASE \E field \in Fields, value \in 0 .. MaxAmplitude : UpdateInitRand(env, field, value)
    BY <1>7 DEF UpdateInitRand, ExtrasAsAsked, extras_vars
  <1>. QED BY <1>2, <1>3, <1>4, <1>5, <1>6, <1>7 DEF UserCalls

(* Users' calls other than step and reset do not end in a reset.           *)
LEMMA OutcomeOfOtherCalls ==
    ASSUME UserCalls(env) PROVE outcome'.is = "reset" => outcome.is = "reset"
  <1>1. CASE Construct(env)
    BY <1>1 DEF Construct, session_vars
  <1>2. CASE Close(env)
    BY <1>2 DEF Close
  <1>3. CASE Log(env)
    BY <1>3 DEF Log, session_vars
  <1>4. CASE BulletExtra(env)
    BY <1>4 DEF BulletExtra, session_vars
  <1>5. CASE \E field \in Fields, value \in 0 .. MaxAmplitude : UpdateInitRand(env, field, value)
    BY <1>5 DEF UpdateInitRand, session_vars
  <1>. QED BY <1>1, <1>2, <1>3, <1>4, <1>5 DEF UserCalls

(* A step leaves the dictionary and the simulator in agreement.            *)
LEMMA ForcesStep ==
    ASSUME ForcesAgree, NEW bullet \in Int, ServeStep(Forces(bullet))
    PROVE  ForcesAgree'
  <1>1. Forces(bullet) \in [Links -> Int]
    BY DEF Forces
  <1>2. working_bullet' \in [Links -> Int]
    BY <1>1 DEF ServeStep, update, ForcesAgree
  <1>3. \A link \in Links : working_bullet'[link] \in {0, external_forces'[link]}
    BY <1>2 DEF ServeStep, process_forces
  <1>. QED BY <1>2, <1>3 DEF ForcesAgree

(* With RandomPush there is always a force to send, which replaces any     *)
(* other on the torso in the dictionary and in the simulator, unless an    *)
(* extra that names other links is sent.                                   *)
LEMMA PushStep ==
    ASSUME ForcesAgree, NEW bullet \in Int \ {0}, ServeStep(Forces(bullet))
    PROVE  external_forces'[torso] =
             IF TakesThePlaceOfPush(bullet) THEN external_forces[torso] ELSE bullet
  <1>. DEFINE forces == Forces(bullet)
  <1>1. /\ forces[torso] = IF TakesThePlaceOfPush(bullet) THEN 0 ELSE bullet
        /\ torso \in Links
    BY Numbers DEF Forces, TakesThePlaceOfPush
  <1>. HIDE DEF forces
  <1>2. /\ working_bullet'[torso] =
               IF forces[torso] # 0 THEN forces[torso] ELSE working_bullet[torso]
        /\ external_forces'[torso] =
               IF working_bullet'[torso] # 0 THEN working_bullet'[torso]
                                            ELSE external_forces[torso]
    BY <1>1 DEF ServeStep, update, process_forces, forces
  <1>3. working_bullet[torso] \in {0, external_forces[torso]}
    BY <1>1 DEF ForcesAgree
  <1>. QED BY <1>1, <1>2, <1>3

-----------------------------------------------------------------------------
(* The invariant. *)

(* A new environment, and wrappers that were never reset.                  *)
LEMMA Initially == Init => IInv
  <1>. SUFFICES ASSUME Init PROVE IInv
    OBVIOUS
  <1>1. WrapperTypes
    BY Numbers DEF Init, WrapperTypes, Velocity
  <1>2. AtRest /\ FilterAssertionsHold
    BY DEF Init, AtRest, FilterAssertionsHold
  <1>3. LegTypes /\ LegsGoToNeutral
    BY DEF Init, LegTypes, LegsGoToNeutral
  <1>4. ExtrasAsAsked
    <2>1. 0 \in Entry
      BY Numbers DEF Entry
    <2>2. NoExtras \in Extras
      BY <2>1 DEF NoExtras, Extras
    <2>3. NothingAsked \in [bullet : Entry, user : Entry]
      BY <2>1 DEF NothingAsked
    <2>4. \A e \in Envs : extras[e] = NoExtras /\ asked[e] = NothingAsked
      BY DEF Init, BaseInit
    <2>. QED BY <2>1, <2>2, <2>3, <2>4 DEF Init, BaseInit, ExtrasAsAsked, NoExtras, NothingAsked
  <1>5. NeverClamped
    <2>1. command.warned = FALSE
      BY DEF Init
    <2>. QED BY <2>1, Zenon DEF NeverClamped
  <1>6. ForcesAgree
    BY DEF Init, BulletInit, NoForces, ForcesAgree
  <1>. QED BY <1>1, <1>2, <1>3, <1>4, <1>5, <1>6 DEF IInv

(* reset: wrappers forget what they had, then the environment is reset,    *)
(* which may raise.                                                        *)
LEMMA ResetPreserves == ASSUME IInv, Reset PROVE IInv'
  <1>1. BaseReset(env) /\ UNCHANGED <<asserted, command>>
    BY DEF Reset
  <1>2. integral' = 0 /\ filtered_action' = 0 /\ time_constant' \in TimeConstants
    BY DEF Reset, DifferentiateAction_reset, AddLagToAction_reset
  <1>3. WrapperTypes'
    BY <1>2, Numbers DEF WrapperTypes, Velocity
  <1>4. AtRest' /\ FilterAssertionsHold'
    BY <1>1, <1>2 DEF AtRest, FilterAssertionsHold, IInv
  <1>5. LegTypes' /\ LegsGoToNeutral'
    <2>1. PICK position \in LegPosition :
            IF outcome'.is = "reset"
            THEN leg_position' = initial_leg_position(position) /\ measured' = position
            ELSE UNCHANGED <<leg_position, measured>>
      BY DEF Reset
    <2>2. CASE outcome'.is = "reset"
      <3>1. leg_position' = position /\ measured' = position
        BY <2>1, <2>2 DEF initial_leg_position
      <3>2. position \in Int /\ position # NoPosition
        BY Numbers DEF LegPosition
      <3>. QED BY <3>1, <3>2 DEF LegTypes, LegsGoToNeutral, Lowest, Highest
    <2>3. CASE outcome'.is # "reset"
      BY <2>1, <2>3 DEF IInv, LegTypes, LegsGoToNeutral
    <2>. QED BY <2>2, <2>3
  <1>6. ExtrasAsAsked' /\ sent' = {}
    BY <1>1, ExtrasOtherCalls DEF IInv
  <1>7. NeverClamped'
    BY <1>1 DEF IInv, NeverClamped
  <1>8. ForcesAgree'
    <2>1. CASE ServeReset
      BY <2>1 DEF ServeReset, NoForces, ForcesAgree
    <2>2. CASE UNCHANGED bullet_vars
      BY <2>2 DEF IInv, ForcesAgree, bullet_vars
    <2>. QED BY <2>1, <2>2 DEF Reset
  <1>. QED BY <1>3, <1>4, <1>5, <1>6, <1>7, <1>8 DEF IInv

(* Users' other calls leave the wrappers alone.                            *)
LEMMA OtherCallsPreserve == ASSUME IInv, OtherCalls PROVE IInv'
  <1>1. UserCalls(env) /\ UNCHANGED <<bullet_vars, wrapper_vars, servo_vars>>
    BY DEF OtherCalls
  <1>2. WrapperTypes' /\ FilterAssertionsHold'
    BY <1>1 DEF IInv, WrapperTypes, FilterAssertionsHold, wrapper_vars
  <1>3. AtRest'
    BY <1>1, OutcomeOfOtherCalls DEF IInv, AtRest, wrapper_vars
  <1>4. LegTypes' /\ LegsGoToNeutral' /\ NeverClamped'
    BY <1>1 DEF IInv, LegTypes, LegsGoToNeutral, NeverClamped, servo_vars
  <1>5. ExtrasAsAsked' /\ sent' = {}
    BY <1>1, ExtrasOtherCalls DEF IInv
  <1>6. ForcesAgree'
    BY <1>1 DEF IInv, ForcesAgree, bullet_vars
  <1>. QED BY <1>2, <1>3, <1>4, <1>5, <1>6 DEF IInv

(* The environment's own step, for an action of its action space: either   *)
(* the action is sent, or the call raises before.                          *)
LEMMA EnvStepPreserves ==
    ASSUME IInv, NEW action \in Velocity, EnvStep(action)
    PROVE  /\ LegTypes' /\ LegsGoToNeutral' /\ NeverClamped'
           /\ ExtrasAsAsked' /\ ForcesAgree'
           /\ outcome'.is \in {"step", "raised"}
           /\ sent' # {} => command'.left \in {action, -action}
           /\ ("RandomPush" \in Wrappers /\ outcome'.is = "step") =>
                 \A sent_action \in sent' :
                    external_forces'[torso] =
                      IF TakesThePlaceOfPush(sent_action.bullet)
                      THEN external_forces[torso] ELSE sent_action.bullet
  <1>1. CASE /\ \/ leg_position = NoPosition /\ BaseStepRefused(env)
                \/ BaseStepUnready(env)
             /\ UNCHANGED <<bullet_vars, servo_vars>>
    <2>1. ExtrasAsAsked' /\ sent' = {} /\ outcome'.is = "raised"
      BY <1>1, ExtrasKept DEF IInv
    <2>2. LegTypes' /\ LegsGoToNeutral' /\ NeverClamped' /\ ForcesAgree'
      BY <1>1 DEF IInv, LegTypes, LegsGoToNeutral, NeverClamped, ForcesAgree,
                  servo_vars, bullet_vars
    <2>. QED BY <2>1, <2>2
  <1>2. ASSUME leg_position # NoPosition,
               leg_position' \in get_upper_leg_servo_action,
               command' = get_spine_action(action),
               NEW bullet \in RandomPush_bullet, BaseStep(env, bullet),
               \/ /\ spine[env] = "idle"
                  /\ \E sent_action \in sent' : ServeStep(Forces(sent_action.bullet))
               \/ outcome'.is = "raised" /\ UNCHANGED bullet_vars,
               UNCHANGED measured
        PROVE  /\ LegTypes' /\ LegsGoToNeutral' /\ NeverClamped'
               /\ ExtrasAsAsked' /\ ForcesAgree'
               /\ outcome'.is \in {"step", "raised"}
               /\ command'.left \in {action, -action}
               /\ ("RandomPush" \in Wrappers /\ outcome'.is = "step") =>
                     \A sent_action \in sent' :
                        external_forces'[torso] =
                          IF TakesThePlaceOfPush(sent_action.bullet)
                          THEN external_forces[torso] ELSE sent_action.bullet
    <2>. DEFINE sent_bullet == WithExtras(env, bullet).bullet
    <2>1. LegTypes' /\ LegsGoToNeutral'
      BY <1>2, LegsStep DEF IInv
    <2>2. NeverClamped' /\ command'.left \in {action, -action}
      BY <1>2, Command DEF NeverClamped
    <2>3. /\ ExtrasAsAsked' /\ outcome'.is \in {"step", "raised"}
          /\ sent' = {WithExtras(env, bullet)}
      <3>1. bullet \in {0, ZeroForce, Push}
        BY DEF RandomPush_bullet
      <3>. QED BY <1>2, <3>1, ExtrasStep DEF IInv
    <2>4. /\ sent_bullet \in Int
          /\ "RandomPush" \in Wrappers => sent_bullet # 0
      <3>1. extras[env].bullet \in Int
        BY Numbers DEF IInv, ExtrasAsAsked, Extras, Entry
      <3>2. bullet \in Int /\ ("RandomPush" \in Wrappers => bullet # 0)
        BY DEF RandomPush_bullet, ZeroForce, Push
      <3>. QED BY <3>1, <3>2 DEF WithExtras
    <2>. HIDE DEF sent_bullet
    <2>5. \A sent_action \in sent' : sent_action.bullet = sent_bullet
      BY <2>3 DEF sent_bullet
    <2>6. ServeStep(Forces(sent_bullet)) \/ (outcome'.is = "raised" /\ UNCHANGED bullet_vars)
      BY <1>2, <2>5
    <2>7. ForcesAgree'
      BY <2>4, <2>6, ForcesStep DEF IInv, ForcesAgree, bullet_vars
    <2>8. ("RandomPush" \in Wrappers /\ outcome'.is = "step") =>
            external_forces'[torso] =
              IF TakesThePlaceOfPush(sent_bullet) THEN external_forces[torso] ELSE sent_bullet
      BY <2>4, <2>6, PushStep DEF IInv
    <2>. QED BY <2>1, <2>2, <2>3, <2>5, <2>7, <2>8
  <1>. QED BY <1>1, <1>2 DEF EnvStep

(* What goes down the stack, and comes back.                               *)
LEMMA StepPreserves ==
    ASSUME IInv, NEW action \in ActionSpace, Step(action)
    PROVE  IInv'
  <1>. DEFINE differentiated == DifferentiateAction_step(action)
  <1>0. PICK lagged \in AddLagToAction_step(differentiated) :
          /\ filtered_action' = IF SkipsFilter THEN filtered_action ELSE lagged
          /\ \E noisy \in NoisifyAction_action(lagged) : EnvStep(noisy)
    BY DEF Step
  <1>1. PICK noisy \in NoisifyAction_action(lagged) : EnvStep(noisy)
    BY <1>0
  <1>2. /\ integral' = IF "DifferentiateAction" \in Wrappers THEN differentiated ELSE integral
        /\ asserted' = (asserted /\ (SkipsFilter \/ Nyquist(time_constant)))
        /\ UNCHANGED time_constant
    BY DEF Step
  <1>3. differentiated \in Velocity /\ lagged \in Velocity /\ noisy \in Velocity
    BY <1>1, Stack DEF IInv
  <1>4. WrapperTypes'
    BY <1>0, <1>2, <1>3 DEF IInv, WrapperTypes
  <1>5. FilterAssertionsHold'
    <2>1. SkipsFilter \/ Nyquist(time_constant)
      BY Numbers DEF IInv, WrapperTypes, SkipsFilter, Nyquist
    <2>. QED BY <1>2, <2>1, Zenon DEF IInv, FilterAssertionsHold
  <1>6. /\ LegTypes' /\ LegsGoToNeutral' /\ NeverClamped'
        /\ ExtrasAsAsked' /\ ForcesAgree'
        /\ outcome'.is \in {"step", "raised"}
    BY <1>1, <1>3, EnvStepPreserves
  <1>7. AtRest'
    BY <1>6 DEF AtRest
  <1>. QED BY <1>4, <1>5, <1>6, <1>7 DEF IInv

(* Every call preserves the invariant.                                     *)
LEMMA Inductive == IInv /\ [Next]_vars => IInv'
  <1>. SUFFICES ASSUME IInv, [Next]_vars PROVE IInv'
    OBVIOUS
  <1>1. CASE Reset
    BY <1>1, ResetPreserves
  <1>2. CASE OtherCalls
    BY <1>2, OtherCallsPreserve
  <1>3. CASE \E action \in ActionSpace : Step(action)
    BY <1>3, StepPreserves
  <1>4. CASE UNCHANGED vars
    BY <1>4 DEF IInv, WrapperTypes, AtRest, FilterAssertionsHold, LegTypes, LegsGoToNeutral,
                ExtrasAsAsked, NeverClamped, ForcesAgree, vars, base_vars,
                extras_vars, session_vars, bullet_vars, wrapper_vars, servo_vars
  <1>. QED BY <1>1, <1>2, <1>3, <1>4 DEF Next

(* The invariant holds in every environment under any stack of wrappers.   *)
THEOREM Invariance == Spec => []IInv
  BY Initially, Inductive, PTL DEF Spec

-----------------------------------------------------------------------------
(* What it is for. *)

(* No stack of the three action wrappers asks the environment for more     *)
(* than its action space, whatever their numbers.                          *)
THEOREM StackStaysInActionSpace == Spec => []NeverClamped
  <1>1. IInv => NeverClamped
    BY DEF IInv
  <1>. QED BY <1>1, Invariance, PTL

(* Leg positions go from the one observed at the last reset towards zero,  *)
(* for any cutoff period.                                                  *)
THEOREM LegsStayOnTheWay == Spec => []LegsGoToNeutral
  <1>1. IInv => LegsGoToNeutral
    BY DEF IInv
  <1>. QED BY <1>1, Invariance, PTL

(* No time constant makes the lag wrapper fail its assertion.              *)
THEOREM LagNeverAsserts == Spec => []FilterAssertionsHold
  <1>1. IInv => FilterAssertionsHold
    BY DEF IInv
  <1>. QED BY <1>1, Invariance, PTL

(* A push lasts the step it was drawn for and those in which an extra that *)
(* does not name the torso takes the place of the next one, over any       *)
(* number of episodes, extras and calls that raise.                        *)
THEOREM PushesLastOneStep == Spec => PushIsThatOfTheStep
  <1>1. ASSUME IInv, [Next]_vars, ~ UNCHANGED vars,
               "RandomPush" \in Wrappers, outcome'.is = "step",
               NEW sent_action \in sent'
        PROVE  external_forces'[torso] =
                 IF TakesThePlaceOfPush(sent_action.bullet)
                 THEN external_forces[torso] ELSE sent_action.bullet
    <2>1. ~Reset
      BY <1>1, ExtrasOtherCalls DEF Reset, IInv
    <2>2. ~OtherCalls
      BY <1>1, ExtrasOtherCalls DEF OtherCalls, IInv
    <2>3. PICK action \in ActionSpace : Step(action)
      BY <1>1, <2>1, <2>2 DEF Next
    <2>4. PICK lagged \in AddLagToAction_step(DifferentiateAction_step(action)) :
            \E noisy \in NoisifyAction_action(lagged) : EnvStep(noisy)
      BY <2>3 DEF Step
    <2>5. PICK noisy \in NoisifyAction_action(lagged) : EnvStep(noisy)
      BY <2>4
    <2>6. noisy \in Velocity
      BY <1>1, <2>5, Stack DEF IInv
    <2>. QED BY <1>1, <2>5, <2>6, EnvStepPreserves
  <1>2. IInv /\ [Next]_vars =>
          [("RandomPush" \in Wrappers /\ outcome'.is = "step") =>
             \A sent_action \in sent' :
                external_forces'[torso] =
                  IF TakesThePlaceOfPush(sent_action.bullet)
                  THEN external_forces[torso] ELSE sent_action.bullet]_vars
    BY <1>1
  <1>. QED BY <1>2, Invariance, PTL DEF Spec, PushIsThatOfTheStep

(* The first command of an episode is within one derivative and the noise, *)
(* for any numbers.                                                        *)
THEOREM EpisodesStartSoftly == Spec => SoftStart
  <1>1. ASSUME IInv, [Next]_vars,
               "DifferentiateAction" \in Wrappers, outcome.is = "reset", sent' # {},
               ~ UNCHANGED vars
        PROVE  command'.left \in -(MaxDerivative + MaxNoise) .. MaxDerivative + MaxNoise
    <2>1. ~Reset
      BY <1>1, ExtrasOtherCalls DEF Reset, IInv
    <2>2. ~OtherCalls
      BY <1>1, ExtrasOtherCalls DEF OtherCalls, IInv
    <2>3. PICK action \in ActionSpace : Step(action)
      BY <1>1, <2>1, <2>2 DEF Next
    <2>. DEFINE differentiated == DifferentiateAction_step(action)
    <2>0. PICK lagged \in AddLagToAction_step(differentiated) :
            \E noisy \in NoisifyAction_action(lagged) : EnvStep(noisy)
      BY <2>3 DEF Step
    <2>4. PICK noisy \in NoisifyAction_action(lagged) : EnvStep(noisy)
      BY <2>0
    <2>5. noisy \in Velocity
      BY <1>1, <2>4, Stack DEF IInv
    <2>6. integral = 0 /\ filtered_action = 0
      BY <1>1 DEF IInv, AtRest
    <2>7. noisy \in -(MaxDerivative + MaxNoise) .. MaxDerivative + MaxNoise
      BY <1>1, <2>4, <2>6, StackFromRest
    <2>8. command'.left \in {noisy, -noisy}
      BY <1>1, <2>4, <2>5, EnvStepPreserves
    <2>. QED BY <2>7, <2>8, Numbers
  <1>2. IInv /\ [Next]_vars =>
          [("DifferentiateAction" \in Wrappers /\ outcome.is = "reset" /\ sent' # {})
           => command'.left \in -(MaxDerivative + MaxNoise) .. MaxDerivative + MaxNoise]_vars
    BY <1>1
  <1>. QED BY <1>2, Invariance, PTL DEF Spec, SoftStart

(* What a user logs or prepends between two steps reaches the next action  *)
(* that is sent, for any number of extras and under any stack.             *)
THEOREM ExtrasAreSentOnce == Spec => ExtrasReachTheNextStep
  <1>1. ASSUME IInv, [Next]_vars, ~ UNCHANGED base_vars, NEW sent_action \in sent'
        PROVE  LET e == sent_action.of
               IN  /\ sent_action.user = asked[e].user
                   /\ sent_action.slack = (e \in Regulated)
                   /\ IF asked[e].bullet # 0 THEN sent_action.bullet = asked[e].bullet
                                             ELSE sent_action.bullet <= 0
    <2>1. ~Reset
      BY <1>1, ExtrasOtherCalls DEF Reset, IInv
    <2>2. ~OtherCalls
      BY <1>1, ExtrasOtherCalls DEF OtherCalls, IInv
    <2>3. PICK action : EnvStep(action)
      BY <1>1, <2>1, <2>2 DEF Next, Step, vars
    <2>4. ~ (BaseStepRefused(env) \/ BaseStepUnready(env))
      BY <1>1, ExtrasKept DEF IInv
    <2>5. PICK bullet \in RandomPush_bullet : BaseStep(env, bullet)
      BY <2>3, <2>4 DEF EnvStep
    <2>6. sent_action = WithExtras(env, bullet)
      BY <1>1, <2>5 DEF BaseStep
    <2>7. bullet <= 0
      BY DEF RandomPush_bullet, ZeroForce, Push
    <2>8. env \in Envs /\ extras[env].bullet = asked[env].bullet
          /\ extras[env].user = asked[env].user
      BY <1>1, Numbers DEF IInv, ExtrasAsAsked
    <2>. QED BY <2>6, <2>7, <2>8 DEF WithExtras
  <1>2. IInv /\ [Next]_vars =>
          [\A action \in sent' :
             LET e == action.of
             IN  /\ action.user = asked[e].user
                 /\ action.slack = (e \in Regulated)
                 /\ IF asked[e].bullet # 0 THEN action.bullet = asked[e].bullet
                                           ELSE action.bullet <= 0]_base_vars
    BY <1>1
  <1>. QED BY <1>2, Invariance, PTL DEF Spec, ExtrasReachTheNextStep

=============================================================================
