---------------------------- MODULE ServosProofs ----------------------------
(***************************************************************************)
(* Proofs about the servo environments, for any number of environments of  *)
(* any of the three kinds in one process, any joints and keys, any number  *)
(* of calls of any of them.                                                *)
(*                                                                         *)
(* The argument: neutral actions are clamped like those of policies,       *)
(* whoever has edited them (NeutralTypes), and what no clamp stops keeps   *)
(* its source in sight (Sources); a reset stops the spine before it draws  *)
(* and starts, so that the start is served and with what was just drawn    *)
(* (SessionTypes gives the dictionaries their fields).                     *)
(***************************************************************************)
EXTENDS ServosEnv, TLAPS

NeutralTypes == neutral \in [Envs -> [Joints -> [Keys -> Int \cup {NaN}]]]

SessionTypes ==
    /\ shared_config \in Config
    /\ served \in [Envs -> Config]
    /\ spine \in [Envs -> {"stopped", "idle"}]
    /\ resets \in [Envs -> 0 .. MaxResets]
    /\ amplitude \in [Envs -> Amplitude]
    /\ outcome.of \in Envs

CommandTypes == \A sent_action \in command : sent_action.env \in Envs

IInv ==
    /\ NeutralTypes /\ SessionTypes /\ CommandTypes
    /\ CommandsWithinLimits
    /\ NoPositionFeedbackUnlessAsked
    /\ EveryResetIsServed

-----------------------------------------------------------------------------
(* Actions. *)

(* Policies give numbers and NaN.                                          *)
LEMMA PolicyValues ==
    ASSUME NEW env_action \in EnvAction,
           NEW joint \in DOMAIN env_action, NEW key \in DOMAIN env_action[joint]
    PROVE  env_action[joint][key] \in Int \cup {NaN}
  <1>0. PICK k \in Keys : \E given \in SUBSET Joints, value \in Given :
          env_action = [j \in given |-> [x \in {k} |-> value]]
    <2>. DEFINE Setting(k) == {[j \in given |-> [x \in {k} |-> value]] :
                                 given \in SUBSET Joints, value \in Given}
    <2>1. EnvAction = UNION {Setting(k) : k \in Keys}
      BY DEF EnvAction
    <2>2. PICK k \in Keys : env_action \in Setting(k)
      <3>. HIDE DEF Setting
      <3>. QED BY <2>1
    <2>. QED BY <2>2
  <1>1. PICK given \in SUBSET Joints, value \in Given :
          env_action = [j \in given |-> [x \in {k} |-> value]]
    BY <1>0
  <1>2. env_action[joint] = [x \in {k} |-> value]
    BY <1>1
  <1>3. key = k /\ env_action[joint][key] = value
    BY <1>2
  <1>. QED BY <1>1, <1>3 DEF Given

(* Clamping gives a value within limits, but for NaN, which it leaves.     *)
LEMMA Clamped ==
    ASSUME NEW key, NEW value \in Int \cup {NaN}
    PROVE  LET v == clamp_and_warn(value, key)
           IN  IF v = NaN THEN value = NaN
               ELSE min_action(key) <= v /\ v <= max_action(key)
  <1>1. NaN \notin Int
    BY ServosAssumption DEF ServosAssumption
  <1>2. min_action(key) \in Int /\ max_action(key) \in Int
        /\ min_action(key) <= max_action(key)
    BY DEF min_action, max_action
  <1>3. CASE value = NaN
    BY <1>3 DEF clamp_and_warn
  <1>4. CASE value # NaN
    <2>1. value \in Int
      BY <1>4
    <2>2. clamp_and_warn(value, key) = clamp(value, min_action(key), max_action(key))
      BY <1>4 DEF clamp_and_warn
    <2>3. /\ clamp_and_warn(value, key) \in Int
          /\ min_action(key) <= clamp_and_warn(value, key)
          /\ clamp_and_warn(value, key) <= max_action(key)
      BY <1>2, <2>1, <2>2 DEF clamp
    <2>4. clamp_and_warn(value, key) # NaN
      BY <1>1, <2>3
    <2>. QED BY <2>3, <2>4
  <1>. QED BY <1>3, <1>4

(* The value of a joint and key is within limits, or NaN where its source  *)
(* has it: the policy, if the environment listens, or its neutral action.  *)
LEMMA Sources ==
    ASSUME NeutralTypes, NEW e \in Envs, NEW env_action \in EnvAction,
           Joints \subseteq DOMAIN env_action, NEW joint \in Joints, NEW key \in Keys
    PROVE  LET v == get_spine_action(e, env_action)[joint][key]
           IN  IF v = NaN
               THEN neutral[e][joint][key] = NaN \/ GivesNaN(e, env_action, joint, key)
               ELSE min_action(key) <= v /\ v <= max_action(key)
  <1>. DEFINE value == IF key \in DOMAIN env_action[joint] /\ IsListenedTo(e, key)
                       THEN env_action[joint][key] ELSE neutral[e][joint][key]
  <1>1. /\ value \in Int \cup {NaN}
        /\ value = NaN =>
             neutral[e][joint][key] = NaN \/ GivesNaN(e, env_action, joint, key)
    <2>1. CASE key \in DOMAIN env_action[joint] /\ IsListenedTo(e, key)
      BY <2>1, PolicyValues DEF GivesNaN
    <2>2. CASE ~(key \in DOMAIN env_action[joint] /\ IsListenedTo(e, key))
      BY <2>2 DEF NeutralTypes
    <2>. QED BY <2>1, <2>2
  <1>2. get_spine_action(e, env_action)[joint][key] = clamp_and_warn(value, key)
    BY DEF get_spine_action
  <1>. HIDE DEF value
  <1>. QED BY <1>1, <1>2, Clamped

(* An environment of torques takes its positions from its neutral action.  *)
LEMMA TorqueOnly ==
    ASSUME NEW e \in TorqueEnvs, NEW env_action, NEW joint \in Joints,
           "position" \in Keys, neutral[e] = neutral_action
    PROVE  get_spine_action(e, env_action)[joint]["position"] = NaN
  <1>1. e \notin PositionEnvs
    BY ServosAssumption DEF ServosAssumption
  <1>2. ACTION_MASK(e) = TorqueKeys
    BY <1>1 DEF ACTION_MASK
  <1>3. ~IsListenedTo(e, "position")
    BY <1>2 DEF IsListenedTo, TorqueKeys
  <1>4. neutral[e][joint]["position"] = NaN
    BY DEF neutral_action
  <1>. QED BY <1>3, <1>4 DEF get_spine_action, clamp_and_warn

(* Neutral actions as constructed.                                         *)
LEMMA NeutralAction == neutral_action \in [Joints -> [Keys -> Int \cup {NaN}]]
  BY DEF neutral_action

-----------------------------------------------------------------------------
(* Sessions. *)

(* A reset state that may be drawn is one of the type of reset states.     *)
LEMMA Drawn ==
    ASSUME SessionTypes, NEW e \in Envs, resets[e] < MaxResets,
           resets' = [resets EXCEPT ![e] = @ + 1], NEW offset \in Sample(e)
    PROVE  /\ resets' \in [Envs -> 0 .. MaxResets]
           /\ reset_init_state(e, offset) \in Config
           /\ reset_init_state(e, offset).reset
                = [by |-> e, call |-> resets'[e], offset |-> offset]
  <1>1. MaxResets \in Nat
    BY BaseEnvAssumption DEF BaseEnvAssumption
  <1>2. resets'[e] \in 0 .. MaxResets /\ resets' \in [Envs -> 0 .. MaxResets]
    BY <1>1 DEF SessionTypes
  <1>3. offset \in Offset
    BY DEF Sample
  <1>4. [by |-> e, call |-> resets'[e], offset |-> offset] \in ResetState
    BY <1>2, <1>3 DEF ResetState
  <1>. DEFINE drawn == [by |-> e, call |-> resets'[e], offset |-> offset]
  <1>5. reset_init_state(e, offset) = [shared_config EXCEPT !.reset = drawn]
    BY DEF reset_init_state
  <1>6. drawn \in ResetState /\ shared_config \in Config
    BY <1>4 DEF SessionTypes
  <1>. HIDE DEF drawn
  <1>7. reset_init_state(e, offset) \in Config /\ reset_init_state(e, offset).reset = drawn
    BY <1>5, <1>6 DEF Config
  <1>. QED BY <1>2, <1>7, Zenon DEF drawn

(* reset, whatever it ends with.                                           *)
LEMMA ResetServes ==
    ASSUME SessionTypes, NEW e \in Envs, BaseReset(e)
    PROVE  SessionTypes' /\ EveryResetIsServed'
  <1>1. /\ resets[e] < MaxResets /\ resets' = [resets EXCEPT ![e] = @ + 1]
        /\ amplitude' = amplitude
    BY DEF BaseReset
  <1>2. CASE ResetReturns(e)
    <2>1. PICK offset \in Sample(e) : shared_config' = reset_init_state(e, offset)
      BY <1>2 DEF ResetReturns
    <2>2. /\ served' = [served EXCEPT ![e] = shared_config']
          /\ spine' = [spine EXCEPT ![e] = "idle"]
          /\ outcome' = [of |-> e, is |-> "reset"]
      BY <1>2 DEF ResetReturns, Start, AfterStop
    <2>3. /\ resets' \in [Envs -> 0 .. MaxResets] /\ shared_config' \in Config
          /\ shared_config'.reset.by = e /\ shared_config'.reset.call = resets'[e]
      <3>1. /\ resets' \in [Envs -> 0 .. MaxResets] /\ shared_config' \in Config
            /\ shared_config'.reset = [by |-> e, call |-> resets'[e], offset |-> offset]
        BY <1>1, <2>1, Drawn
      <3>. QED BY <3>1
    <2>4. SessionTypes'
      BY <1>1, <2>2, <2>3 DEF SessionTypes
    <2>5. EveryResetIsServed'
      BY <2>2, <2>3 DEF EveryResetIsServed, SessionTypes
    <2>. QED BY <2>4, <2>5
  <1>3. CASE StartRaises(e)
    <2>1. PICK offset \in Sample(e) : shared_config' = reset_init_state(e, offset)
      BY <1>3 DEF StartRaises
    <2>2. /\ served' \in {[served EXCEPT ![e] = shared_config'], served}
          /\ spine' \in {[spine EXCEPT ![e] = "idle"], [spine EXCEPT ![e] = "stopped"]}
          /\ outcome' = [of |-> e, is |-> "raised"]
      BY <1>3 DEF StartRaises, Start, AfterStop
    <2>3. resets' \in [Envs -> 0 .. MaxResets] /\ shared_config' \in Config
      BY <1>1, <2>1, Drawn
    <2>4. served' \in [Envs -> Config]
      BY <2>2, <2>3 DEF SessionTypes
    <2>5. spine' \in [Envs -> {"stopped", "idle"}]
      BY <2>2 DEF SessionTypes
    <2>. QED BY <1>1, <2>2, <2>3, <2>4, <2>5 DEF SessionTypes, EveryResetIsServed
  <1>4. CASE StopRaises(e)
    <2>1. PICK after \in {spine[e], "stopped"} : spine' = [spine EXCEPT ![e] = after]
      BY <1>4 DEF StopRaises
    <2>2. outcome' = [of |-> e, is |-> "raised"] /\ UNCHANGED <<shared_config, served>>
      BY <1>4 DEF StopRaises
    <2>3. spine' \in [Envs -> {"stopped", "idle"}]
      BY <2>1 DEF SessionTypes
    <2>4. resets' \in [Envs -> 0 .. MaxResets]
      <3>1. MaxResets \in Nat
        BY BaseEnvAssumption DEF BaseEnvAssumption
      <3>. QED BY <1>1, <3>1 DEF SessionTypes
    <2>. QED BY <1>1, <2>2, <2>3, <2>4 DEF SessionTypes, EveryResetIsServed
  <1>. QED BY <1>2, <1>3, <1>4 DEF BaseReset

(* Other calls do not start a session, and forget the reset before them    *)
(* when they touch the spine.                                              *)
LEMMA OtherCallsKeepSessions ==
    ASSUME SessionTypes, EveryResetIsServed, NEW e \in Envs, UserCalls(e)
    PROVE  SessionTypes' /\ EveryResetIsServed' /\ UNCHANGED served
  <1>1. CASE Construct(e)
    <2>1. nested_update(e) \in Config
      BY DEF nested_update, SessionTypes, Config
    <2>. QED BY <1>1, <2>1 DEF Construct, session_vars, SessionTypes, EveryResetIsServed
  <1>2. CASE Close(e)
    <2>1. PICK after \in {spine[e], "stopped"} : spine' = [spine EXCEPT ![e] = after]
      BY <1>2 DEF Close
    <2>2. spine' \in [Envs -> {"stopped", "idle"}]
      BY <2>1 DEF SessionTypes
    <2>3. outcome'.of = e /\ outcome'.is # "reset"
          /\ UNCHANGED <<config_vars, served, resets>>
      BY <1>2 DEF Close
    <2>. QED BY <2>2, <2>3 DEF config_vars, SessionTypes, EveryResetIsServed
  <1>3. CASE Log(e)
    BY <1>3 DEF Log, config_vars, session_vars, SessionTypes, EveryResetIsServed
  <1>4. CASE BulletExtra(e)
    BY <1>4 DEF BulletExtra, config_vars, session_vars, SessionTypes, EveryResetIsServed
  <1>5. ASSUME NEW field \in Fields, NEW value \in 0 .. MaxAmplitude,
               UpdateInitRand(e, field, value)
        PROVE  SessionTypes' /\ EveryResetIsServed' /\ UNCHANGED served
    <2>1. amplitude' \in [Envs -> Amplitude]
      BY <1>5 DEF UpdateInitRand, SessionTypes, Amplitude
    <2>. QED BY <1>5, <2>1 DEF UpdateInitRand, session_vars, SessionTypes, EveryResetIsServed
  <1>. QED BY <1>1, <1>2, <1>3, <1>4, <1>5 DEF UserCalls

(* Steps do not start a session either.                                    *)
LEMMA StepsKeepSessions ==
    ASSUME SessionTypes, NEW e \in Envs,
           BaseStep(e, 0) \/ BaseStepRefused(e) \/ BaseStepUnready(e)
    PROVE  SessionTypes' /\ EveryResetIsServed' /\ UNCHANGED served
  <1>1. outcome'.of = e /\ outcome'.is # "reset"
    BY DEF BaseStep, BaseStepRefused, BaseStepUnready
  <1>2. UNCHANGED <<config_vars, spine, served, resets>>
    BY DEF BaseStep, BaseStepRefused, BaseStepUnready
  <1>. QED BY <1>1, <1>2 DEF config_vars, SessionTypes, EveryResetIsServed

-----------------------------------------------------------------------------
(* The invariant. *)

(* New environments, next to spines in any state.                          *)
LEMMA Initially == Init => IInv
  <1>. SUFFICES ASSUME Init PROVE IInv
    OBVIOUS
  <1>1. NeutralTypes
    BY NeutralAction DEF Init, NeutralTypes
  <1>2. SessionTypes
    <2>1. MaxResets \in Nat /\ MaxAmplitude \in Nat
      BY BaseEnvAssumption DEF BaseEnvAssumption
    <2>2. [f \in Fields |-> 0] \in Offset /\ [f \in Fields |-> 0] \in Amplitude
      BY <2>1 DEF Offset, Amplitude
    <2>3. SPINE_CONFIG.reset \in ResetState
      BY <2>1, <2>2 DEF SPINE_CONFIG, ResetState
    <2>4. SPINE_CONFIG \in Config
      BY <2>3 DEF SPINE_CONFIG, Config
    <2>5. /\ shared_config = SPINE_CONFIG /\ served = [e \in Envs |-> SPINE_CONFIG]
          /\ spine \in [Envs -> {"stopped", "idle"}] /\ resets = [e \in Envs |-> 0]
          /\ amplitude = [e \in Envs |-> [f \in Fields |-> 0]]
          /\ outcome \in [of : Envs, is : {"none"}]
      BY DEF Init, BaseInit
    <2>. QED BY <2>1, <2>2, <2>4, <2>5 DEF SessionTypes
  <1>3. CommandTypes /\ CommandsWithinLimits /\ NoPositionFeedbackUnlessAsked
    BY DEF Init, CommandTypes, CommandsWithinLimits, NoPositionFeedbackUnlessAsked
  <1>4. EveryResetIsServed
    BY DEF Init, BaseInit, EveryResetIsServed
  <1>. QED BY <1>1, <1>2, <1>3, <1>4 DEF IInv

(* step: clamps what it sends, or sends nothing.                           *)
LEMMA StepPreserves ==
    ASSUME IInv, NEW e \in Envs, NEW env_action \in EnvAction, Step(e, env_action)
    PROVE  IInv' /\ UNCHANGED served
  <1>1. UNCHANGED neutral /\ (BaseStep(e, 0) \/ BaseStepRefused(e) \/ BaseStepUnready(e))
    BY DEF Step
  <1>2. SessionTypes' /\ EveryResetIsServed' /\ UNCHANGED served
    BY <1>1, StepsKeepSessions DEF IInv
  <1>3. NeutralTypes'
    BY <1>1 DEF IInv, NeutralTypes
  <1>4. CASE command' = {}
    BY <1>2, <1>3, <1>4
    DEF IInv, CommandTypes, CommandsWithinLimits, NoPositionFeedbackUnlessAsked
  <1>5. CASE /\ Joints \subseteq DOMAIN env_action
             /\ command' = {[env |-> e, action |-> env_action,
                              servo |-> get_spine_action(e, env_action)]}
    <2>1. \A sent_action \in command' :
            /\ sent_action.env = e /\ sent_action.action = env_action
            /\ sent_action.servo = get_spine_action(e, env_action)
      BY <1>5
    <2>2. CommandTypes'
      BY <2>1 DEF CommandTypes
    <2>3. CommandsWithinLimits'
      <3>1. SUFFICES ASSUME NEW sent_action \in command', NEW joint \in Joints, NEW key \in Keys
                     PROVE  LET value == sent_action.servo[joint][key]
                                d == sent_action.env
                            IN  IF value = NaN
                                THEN \/ neutral'[d][joint][key] = NaN
                                     \/ GivesNaN(d, sent_action.action, joint, key)
                                ELSE min_action(key) <= value /\ value <= max_action(key)
        BY DEF CommandsWithinLimits
      <3>. QED BY <1>1, <2>1, <1>5, Sources DEF IInv
    <2>4. NoPositionFeedbackUnlessAsked'
      BY <1>1, <2>1, TorqueOnly DEF NoPositionFeedbackUnlessAsked
    <2>. QED BY <1>2, <1>3, <2>2, <2>3, <2>4 DEF IInv
  <1>. QED BY <1>2, <1>4, <1>5 DEF Step

(* A caller edits what get_neutral_action returned, and commands nothing.  *)
LEMMA EditPreserves ==
    ASSUME IInv, NEW e \in Envs, EditNeutralAction(e)
    PROVE  IInv' /\ UNCHANGED served
  <1>1. PICK joint \in Joints, key \in Keys, value \in {-2, 2, NaN} :
          neutral' = [neutral EXCEPT ![e][joint][key] = value]
    BY DEF EditNeutralAction
  <1>2. command' = {} /\ UNCHANGED <<shared_config, served, spine, resets, amplitude, outcome>>
    BY DEF EditNeutralAction, base_vars, config_vars, session_vars
  <1>3. NeutralTypes'
    BY <1>1 DEF IInv, NeutralTypes
  <1>4. SessionTypes' /\ EveryResetIsServed'
    BY <1>2 DEF IInv, SessionTypes, EveryResetIsServed
  <1>. QED BY <1>2, <1>3, <1>4 DEF IInv, CommandTypes, CommandsWithinLimits,
                                   NoPositionFeedbackUnlessAsked

(* Calls that command nothing.                                             *)
LEMMA OtherCallsPreserve ==
    ASSUME IInv, NEW e \in Envs, OtherCalls(e) PROVE IInv'
  <1>1. command' = {} /\ UNCHANGED neutral
    BY DEF OtherCalls
  <1>2. SessionTypes' /\ EveryResetIsServed'
    BY ResetServes, OtherCallsKeepSessions DEF IInv, OtherCalls
  <1>. QED BY <1>1, <1>2 DEF IInv, NeutralTypes, CommandTypes, CommandsWithinLimits,
                             NoPositionFeedbackUnlessAsked

(* Every call of every environment preserves the invariant.                *)
LEMMA Inductive == IInv /\ [Next]_vars => IInv'
  <1>. SUFFICES ASSUME IInv, [Next]_vars PROVE IInv'
    OBVIOUS
  <1>1. ASSUME NEW e \in Envs, OtherCalls(e) PROVE IInv'
    BY <1>1, OtherCallsPreserve
  <1>2. ASSUME NEW e \in Envs, EditNeutralAction(e) PROVE IInv'
    BY <1>2, EditPreserves
  <1>3. ASSUME NEW e \in Envs, NEW env_action \in EnvAction, Step(e, env_action) PROVE IInv'
    BY <1>3, StepPreserves
  <1>4. CASE UNCHANGED vars
    BY <1>4 DEF vars, base_vars, config_vars, session_vars, IInv, NeutralTypes, SessionTypes,
                CommandTypes, CommandsWithinLimits, NoPositionFeedbackUnlessAsked,
                EveryResetIsServed
  <1>. QED BY <1>1, <1>2, <1>3, <1>4 DEF Next

(* The invariant holds for any environments.                               *)
THEOREM Invariance == Spec => []IInv
  BY Initially, Inductive, PTL DEF Spec

-----------------------------------------------------------------------------
(* What it is for. *)

(* Servos are commanded within limits, whoever edits neutral actions, but  *)
(* for the NaN that these or the policy have where it is listened to, for  *)
(* any joints and keys.                                                    *)
THEOREM CommandsAreWithinLimits == Spec => []CommandsWithinLimits
  <1>1. IInv => CommandsWithinLimits
    BY DEF IInv
  <1>. QED BY <1>1, Invariance, PTL

(* Environments of torques leave position control off.                     *)
THEOREM TorqueEnvsCommandNoPosition == Spec => []NoPositionFeedbackUnlessAsked
  <1>1. IInv => NoPositionFeedbackUnlessAsked
    BY DEF IInv
  <1>. QED BY <1>1, Invariance, PTL

(* A reset that returns has configured its session itself, for any number  *)
(* of environments that share the default configuration.                   *)
THEOREM ResetsAreServed == Spec => []EveryResetIsServed
  <1>1. IInv => EveryResetIsServed
    BY DEF IInv
  <1>. QED BY <1>1, Invariance, PTL

(* Sessions start from a state drawn with the randomization in force, for  *)
(* any amplitudes.                                                         *)
THEOREM SessionsStartAsDrawn == Spec => DrawnFromCurrentRandomization
  <1>1. ASSUME SessionTypes, NEW e \in Envs, BaseReset(e), NEW d \in Envs,
               served'[d] # served[d]
        PROVE  served'[d].reset.offset \in Sample(d)
    <2>1. /\ resets[e] < MaxResets /\ resets' = [resets EXCEPT ![e] = @ + 1]
      BY <1>1 DEF BaseReset
    <2>2. ResetReturns(e) \/ StartRaises(e)
      BY <1>1 DEF BaseReset, StopRaises
    <2>3. PICK offset \in Sample(e) : shared_config' = reset_init_state(e, offset)
      BY <2>2 DEF ResetReturns, StartRaises
    <2>4. served' \in {[served EXCEPT ![e] = shared_config'], served}
      BY <2>2 DEF ResetReturns, StartRaises, Start, AfterStop
    <2>5. d = e /\ served'[d] = shared_config'
      BY <1>1, <2>4 DEF SessionTypes
    <2>6. shared_config'.reset = [by |-> e, call |-> resets'[e], offset |-> offset]
      BY <1>1, <2>1, <2>3, Drawn
    <2>7. shared_config'.reset.offset = offset
      BY <2>6
    <2>. QED BY <2>5, <2>7
  <1>2. ASSUME NEW e \in Envs, NEW offset \in Sample(e), SessionTypes
        PROVE  /\ \A f \in Fields : offset[f] \in -amplitude[e][f] .. amplitude[e][f]
               /\ "height" \in Fields => offset["height"] >= 0
    <2>1. \A f \in Fields : amplitude[e][f] \in Nat
      <3>1. MaxAmplitude \in Nat
        BY BaseEnvAssumption DEF BaseEnvAssumption
      <3>. QED BY <1>2, <3>1 DEF SessionTypes, Amplitude
    <2>. QED BY <2>1 DEF Sample
  <1>3. ASSUME IInv, [Next]_vars, NEW d \in Envs, served'[d] # served[d]
        PROVE  served'[d].reset.offset \in Sample(d)
    <2>1. PICK e \in Envs : OtherCalls(e)
      <3>1. served' # served
        BY <1>3
      <3>. QED BY <1>3, <3>1, StepPreserves, EditPreserves
             DEF Next, vars, base_vars, session_vars
    <2>2. BaseReset(e)
      BY <1>3, <2>1, OtherCallsKeepSessions DEF OtherCalls, IInv
    <2>. QED BY <1>1, <1>3, <2>2 DEF IInv
  <1>4. IInv /\ [Next]_vars =>
          [\A e \in Envs : served'[e] # served[e] =>
             LET offset == served'[e].reset.offset
             IN  /\ \A f \in Fields : offset[f] \in -amplitude[e][f] .. amplitude[e][f]
                 /\ "height" \in Fields => offset["height"] >= 0]_base_vars
    BY <1>2, <1>3 DEF IInv
  <1>. QED BY <1>4, Invariance, PTL DEF Spec, DrawnFromCurrentRandomization

=============================================================================
