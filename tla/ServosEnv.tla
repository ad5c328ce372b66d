------------------------------ MODULE ServosEnv ------------------------------
(***************************************************************************)
(* UpkieServos, UpkieServoPositions and UpkieServoTorques (upkie/envs):    *)
(* environments that command each joint by its servo.  The three differ by *)
(* ACTION_MASK, the keys of the action that an environment listens to.     *)
(*                                                                         *)
(* All limits of a joint are 1, so that clamping is seen from the values   *)
(* -2 and 2.  An action is a dictionary from joints to dictionaries of     *)
(* keys, where anything may be missing.                                    *)
(***************************************************************************)
EXTENDS BaseEnv, Filters

CONSTANTS
    Joints,
    Keys,                       \* those of ACTION_KEYS that we look at
    PositionEnvs, TorqueEnvs,   \* the others listen to all keys
    NaN

ACTION_KEYS == {"position", "velocity", "feedforward_torque",
                "kp_scale", "kd_scale", "maximum_torque"}

PositionKeys == {"position", "kp_scale", "kd_scale"}
TorqueKeys == {"feedforward_torque"}

\* The empty mask, that of UpkieServos, masks nothing.
ACTION_MASK(e) ==
    CASE e \in PositionEnvs -> PositionKeys
      [] e \in TorqueEnvs -> TorqueKeys
      [] OTHER -> {}

IsListenedTo_always(e, key) == TRUE

IsListenedTo(e, key) == ACTION_MASK(e) = {} \/ key \in ACTION_MASK(e)

ASSUME ServosAssumption ==
    /\ Joints # {} /\ Keys \subseteq ACTION_KEYS
    /\ PositionEnvs \subseteq Envs /\ TorqueEnvs \subseteq Envs \ PositionEnvs
    /\ NaN \notin Int

VARIABLES
    neutral,    \* __neutral_action
    command     \* what the last call sent, as a set of at most one: the
                \* action of the policy and the servo action made of it

vars == <<base_vars, neutral, command>>

Value == -2 .. 2
max_action(key) == 1
min_action(key) == IF key \in {"kp_scale", "kd_scale", "maximum_torque"} THEN 0 ELSE -1

neutral_action ==
    [joint \in Joints |-> [key \in Keys |->
        CASE key = "position" -> NaN
          [] key \in {"velocity", "feedforward_torque"} -> 0
          [] OTHER -> 1]]

ServoAction == [Joints -> [Keys -> Value \cup {NaN}]]

\* Values a policy may give.  NaN for a position disables position control;
\* nothing in the environments refuses it for the other keys.
Given == {-2, 0, 2, NaN}

\* Actions that set one key, everywhere or in one joint, or that lack a joint.
EnvAction ==
    UNION {{[joint \in given |-> [k \in {key} |-> value]] :
               given \in SUBSET Joints, value \in Given} : key \in Keys}

TypeOK ==
    /\ BaseTypeOK
    /\ neutral \in [Envs -> ServoAction]
    /\ command \subseteq [env : Envs, action : EnvAction, servo : ServoAction]

Init ==
    /\ BaseInit
    /\ neutral = [e \in Envs |-> neutral_action]
    /\ command = {}

-----------------------------------------------------------------------------
(* Servo actions and where their values come from. *)

\* Comparisons with NaN are false.
clamp_and_warn(value, key) ==
    IF value = NaN THEN NaN ELSE clamp(value, min_action(key), max_action(key))

get_spine_action_neutral_not_clamped(e, env_action) ==
    [joint \in Joints |-> [key \in Keys |->
        IF key \in DOMAIN env_action[joint] /\ IsListenedTo(e, key)
        THEN clamp_and_warn(env_action[joint][key], key)
        ELSE neutral[e][joint][key]]]

get_spine_action(e, env_action) ==
    [joint \in Joints |-> [key \in Keys |->
        clamp_and_warn(IF key \in DOMAIN env_action[joint] /\ IsListenedTo(e, key)
                       THEN env_action[joint][key] ELSE neutral[e][joint][key],
                       key)]]

-----------------------------------------------------------------------------

Step(e, env_action) ==
    \/ /\ Joints \subseteq DOMAIN env_action
       /\ BaseStep(e, 0)
       /\ command' = {[env |-> e, action |-> env_action,
                        servo |-> get_spine_action(e, env_action)]}
       /\ UNCHANGED neutral
    \/ /\ \/ ~(Joints \subseteq DOMAIN env_action) /\ BaseStepRefused(e)
          \/ BaseStepUnready(e)
       /\ command' = {}
       /\ UNCHANGED neutral

(***************************************************************************)
(* The copy that get_neutral_action returns is shallow: a caller who edits *)
(* the dictionary of a joint in it edits the one of the environment.       *)
(* Bound: one edit in all.                                                 *)
(***************************************************************************)
EditNeutralAction(e) ==
    /\ constructed[e] = "yes" /\ \A other \in Envs : neutral[other] = neutral_action
    /\ \E joint \in Joints, key \in Keys, value \in {-2, 2, NaN} :
         neutral' = [neutral EXCEPT ![e][joint][key] = value]
    /\ command' = {}
    /\ UNCHANGED base_vars

OtherCalls(e) == (BaseReset(e) \/ UserCalls(e)) /\ command' = {} /\ UNCHANGED neutral

Next ==
    \E e \in Envs :
        \/ OtherCalls(e) \/ EditNeutralAction(e)
        \/ \E env_action \in EnvAction : Step(e, env_action)

Spec == Init /\ [][Next]_vars

-----------------------------------------------------------------------------
(***************************************************************************)
(* Whatever the policy sends and whatever was made of the neutral action,  *)
(* the servos are only commanded within the limits of the robot model,     *)
(* except for NaN, which no limit stops: it is sent under any key where    *)
(* the policy gives it and the environment listens to it, or where the     *)
(* neutral action has it, which by itself is for positions.  No other NaN  *)
(* is sent: none comes from the neutral action of another environment, nor *)
(* from what a policy gives under a key that is masked.                    *)
(***************************************************************************)
GivesNaN(e, env_action, joint, key) ==
    /\ IsListenedTo(e, key) /\ key \in DOMAIN env_action[joint]
    /\ env_action[joint][key] = NaN

CommandsWithinLimits ==
    \A sent_action \in command, joint \in Joints, key \in Keys :
        LET value == sent_action.servo[joint][key]
            e == sent_action.env
        IN  IF value = NaN
            THEN \/ neutral[e][joint][key] = NaN
                 \/ GivesNaN(e, sent_action.action, joint, key)
            ELSE min_action(key) <= value /\ value <= max_action(key)

(***************************************************************************)
(* An environment that commands torques commands no position, over any     *)
(* actions of policies that give some, unless its own neutral action was   *)
(* edited; that of another environment does not matter.                    *)
(***************************************************************************)
NoPositionFeedbackUnlessAsked ==
    \A sent_action \in command, joint \in Joints :
        LET e == sent_action.env
        IN  (/\ e \in TorqueEnvs /\ "position" \in Keys
             /\ neutral[e] = neutral_action)
            => sent_action.servo[joint]["position"] = NaN

=============================================================================
