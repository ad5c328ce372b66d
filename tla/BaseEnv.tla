------------------------------- MODULE BaseEnv -------------------------------
(***************************************************************************)
(* UpkieBaseEnv (upkie/envs/upkie_base_env.py): the environments of one    *)
(* Python process, each with its spine.  They share one thing, the         *)
(* dictionaries nested in SPINE_CONFIG, which the constructor copies only  *)
(* at its first level.  A call of the spine is one step here, that answers *)
(* or raises an exception: SpineSystem has the details.  An earlier agent  *)
(* may have left the spine in a session.                                   *)
(*                                                                         *)
(* Derived environments add their own reset and get_spine_action to        *)
(* BaseReset and BaseStep, which leave free what they do not know of.      *)
(***************************************************************************)
EXTENDS Integers

CONSTANTS
    Envs,
    Overriding,    \* those whose spine_config overrides a nested key
    Regulated,     \* those with regulate_frequency
    Fields,        \* randomized fields of the reset state
    MaxEntries,    \* bound: dictionaries that users log or prepend
    MaxResets,     \* bound: calls of reset
    MaxAmplitude   \* bound: amplitude of a randomization

ASSUME BaseEnvAssumption ==
    /\ Overriding \subseteq Envs /\ Regulated \subseteq Envs
    /\ Fields \subseteq {"angle", "height"}
    /\ MaxEntries \in Nat /\ MaxResets \in Nat /\ MaxAmplitude \in Nat

VARIABLES
    constructed,     \* "no", "yes", or "failed": the constructor raised
    shared_config,   \* dictionaries nested in SPINE_CONFIG
    amplitude,       \* init_state.randomization
    rate,            \* whether there is a rate limiter
    extras,          \* __extras
    spine,           \* the state machine of the spine
    served,          \* configuration of the spine's session
    outcome,         \* what the last call to the spine did, and whose
    sent,            \* action dictionary sent by the last call, if it sent one
    resets,          \* calls of reset
    entries,         \* calls of log and bullet_extra
    asked            \* history: what the user wants in the next action

config_vars == <<constructed, shared_config, amplitude>>
extras_vars == <<extras, entries, asked>>
session_vars == <<rate, spine, served, outcome, resets>>
base_vars == <<config_vars, extras_vars, session_vars, sent>>

(***************************************************************************)
(* Dictionaries to send are numbered; 0 is for none.  What a derived       *)
(* environment puts at the key "bullet" of its action is negative.  The    *)
(* slack, which step logs by itself, is TRUE when there is one.  Of a      *)
(* configuration we keep who set the nested key that users override, who   *)
(* drew the reset state and when, and what was drawn around the nominal    *)
(* state: an angle or a velocity on both sides, a height upward only.      *)
(***************************************************************************)
Entry == 0 .. MaxEntries
Extras == [bullet : Entry, user : Entry, slack : BOOLEAN]
NoExtras == [bullet |-> 0, user |-> 0, slack |-> FALSE]
NothingAsked == [bullet |-> 0, user |-> 0]

Amplitude == [Fields -> 0 .. MaxAmplitude]
Offset == [Fields -> -MaxAmplitude .. MaxAmplitude]
ResetState == [by : Envs \cup {"default"}, call : 0 .. MaxResets, offset : Offset]
Config == [nested : Envs \cup {"default"}, reset : ResetState]
SPINE_CONFIG == [nested |-> "default",
                 reset |-> [by |-> "default", call |-> 0, offset |-> [f \in Fields |-> 0]]]

BaseTypeOK ==
    /\ constructed \in [Envs -> {"no", "yes", "failed"}]
    /\ shared_config \in Config
    /\ amplitude \in [Envs -> Amplitude]
    /\ rate \in [Envs -> BOOLEAN]
    /\ extras \in [Envs -> Extras]
    /\ spine \in [Envs -> {"stopped", "idle"}]
    /\ served \in [Envs -> Config]
    /\ outcome \in [of : Envs, is : {"none", "closed", "reset", "step", "raised"}]
    /\ sent \subseteq [of : Envs, bullet : Int, user : Entry, slack : BOOLEAN]
    /\ resets \in [Envs -> 0 .. MaxResets]
    /\ entries \in Entry
    /\ asked \in [Envs -> [bullet : Entry, user : Entry]]

BaseInit ==
    /\ constructed = [e \in Envs |-> "no"]
    /\ shared_config = SPINE_CONFIG
    /\ amplitude = [e \in Envs |-> [f \in Fields |-> 0]]
    /\ rate = [e \in Envs |-> FALSE]
    /\ extras = [e \in Envs |-> NoExtras]
    /\ spine \in [Envs -> {"stopped", "idle"}]
    /\ served = [e \in Envs |-> SPINE_CONFIG]
    /\ outcome \in [of : Envs, is : {"none"}]
    /\ sent = {}
    /\ resets = [e \in Envs |-> 0]
    /\ entries = 0
    /\ asked = [e \in Envs |-> NothingAsked]

-----------------------------------------------------------------------------
(***************************************************************************)
(* The constructor updates the nested dictionaries before anything in it   *)
(* may raise an exception: no frequency to regulate, no spine to connect   *)
(* to.  Without a _spine attribute, close does nothing.                    *)
(***************************************************************************)
nested_update(e) ==
    IF e \in Overriding THEN [shared_config EXCEPT !.nested = e] ELSE shared_config

Construct(e) ==
    /\ constructed[e] = "no"
    /\ \E result \in {"yes", "failed"} : constructed' = [constructed EXCEPT ![e] = result]
    /\ shared_config' = nested_update(e)
    /\ sent' = {}
    /\ UNCHANGED <<amplitude, extras_vars, session_vars>>

UpdateInitRand(e, field, value) ==
    /\ constructed[e] = "yes"
    /\ amplitude' = [amplitude EXCEPT ![e][field] = value]
    /\ sent' = {}
    /\ UNCHANGED <<constructed, shared_config, extras_vars, session_vars>>

\* A call of the spine that raises an exception may have been served or not.
Close(e) ==
    /\ constructed[e] = "yes"
    /\ \/ /\ spine' = [spine EXCEPT ![e] = "stopped"]
          /\ outcome' = [of |-> e, is |-> "closed"]
       \/ /\ \E after \in {spine[e], "stopped"} : spine' = [spine EXCEPT ![e] = after]
          /\ outcome' = [of |-> e, is |-> "raised"]
    /\ sent' = {}
    /\ UNCHANGED <<config_vars, extras_vars, rate, served, resets>>

-----------------------------------------------------------------------------
(* reset: stop, a new rate limiter, a new reset state, start. *)

Sample_on_both_sides(e) ==
    {offset \in Offset : \A f \in Fields : offset[f] \in -amplitude[e][f] .. amplitude[e][f]}

Sample(e) ==
    {offset \in Offset : \A f \in Fields :
        offset[f] \in (IF f = "height" THEN 0 ELSE -amplitude[e][f]) .. amplitude[e][f]}

reset_rate(e) == [rate EXCEPT ![e] = @ \/ e \in Regulated]

\* The reset state of the environment replaces the one in the shared dictionary.
reset_init_state(e, offset) ==
    [shared_config EXCEPT !.reset = [by |-> e, call |-> resets'[e], offset |-> offset]]

\* A start is served from the stopped state, and acknowledged in the other.
Start(e, before) ==
    served' = IF before = "stopped" THEN [served EXCEPT ![e] = shared_config'] ELSE served

\* Where the call of stop that comes first leaves the spine.
AfterStop_without_stop(e) == spine[e]

AfterStop(e) == "stopped"

ResetReturns(e) ==
    /\ rate' = reset_rate(e)
    /\ \E offset \in Sample(e) : shared_config' = reset_init_state(e, offset)
    /\ Start(e, AfterStop(e))
    /\ spine' = [spine EXCEPT ![e] = "idle"]
    /\ outcome' = [of |-> e, is |-> "reset"]

StartRaises(e) ==
    /\ rate' = reset_rate(e)
    /\ \E offset \in Sample(e) : shared_config' = reset_init_state(e, offset)
    /\ \/ /\ Start(e, AfterStop(e))
          /\ spine' = [spine EXCEPT ![e] = "idle"]
       \/ /\ spine' = [spine EXCEPT ![e] = AfterStop(e)]
          /\ UNCHANGED served
    /\ outcome' = [of |-> e, is |-> "raised"]

StopRaises(e) ==
    /\ \E after \in {spine[e], "stopped"} : spine' = [spine EXCEPT ![e] = after]
    /\ outcome' = [of |-> e, is |-> "raised"]
    /\ UNCHANGED <<rate, shared_config, served>>

BaseReset(e) ==
    /\ constructed[e] = "yes" /\ resets[e] < MaxResets
    /\ resets' = [resets EXCEPT ![e] = @ + 1]
    /\ ResetReturns(e) \/ StartRaises(e) \/ StopRaises(e)
    /\ sent' = {}
    /\ UNCHANGED <<constructed, amplitude, extras_vars>>

-----------------------------------------------------------------------------
(* Dictionaries to send along with the next action. *)

Log(e) ==
    /\ constructed[e] = "yes" /\ entries < MaxEntries
    /\ entries' = entries + 1
    /\ extras' = [extras EXCEPT ![e].user = entries']
    /\ asked' = [asked EXCEPT ![e].user = entries']
    /\ sent' = {}
    /\ UNCHANGED <<config_vars, session_vars>>

BulletExtra(e) ==
    /\ constructed[e] = "yes" /\ entries < MaxEntries
    /\ entries' = entries + 1
    /\ extras' = [extras EXCEPT ![e].bullet = entries']
    /\ asked' = [asked EXCEPT ![e].bullet = entries']
    /\ sent' = {}
    /\ UNCHANGED <<config_vars, session_vars>>

-----------------------------------------------------------------------------
(* step, for an action dictionary where get_spine_action put "bullet". *)

HasRate(e) == e \in Regulated => rate[e]

WithExtras(e, bullet) ==
    [of |-> e, bullet |-> IF extras[e].bullet # 0 THEN extras[e].bullet ELSE bullet,
     user |-> extras[e].user, slack |-> e \in Regulated]

ClearExtras_but_log(e) == [extras EXCEPT ![e] = [NoExtras EXCEPT !.user = extras[e].user]]

ClearExtras(e) == [extras EXCEPT ![e] = NoExtras]

\* Past get_spine_action: the extras are gone, whether the spine answers or not.
BaseStep(e, bullet) ==
    /\ constructed[e] = "yes" /\ HasRate(e)
    /\ sent' = {WithExtras(e, bullet)}
    /\ extras' = ClearExtras(e)
    /\ asked' = [asked EXCEPT ![e] = NothingAsked]
    /\ \E result \in (IF spine[e] = "idle" THEN {"step", "raised"} ELSE {"raised"}) :
         outcome' = [of |-> e, is |-> result]
    /\ UNCHANGED <<config_vars, entries, rate, spine, served, resets>>

\* get_spine_action raises: only the slack has been logged.
BaseStepRefused(e) ==
    /\ constructed[e] = "yes" /\ HasRate(e)
    /\ extras' = [extras EXCEPT ![e].slack = e \in Regulated]
    /\ outcome' = [of |-> e, is |-> "raised"]
    /\ sent' = {}
    /\ UNCHANGED <<config_vars, entries, asked, rate, spine, served, resets>>

\* No rate limiter before the first reset.
BaseStepUnready(e) ==
    /\ constructed[e] = "yes" /\ ~HasRate(e)
    /\ outcome' = [of |-> e, is |-> "raised"]
    /\ sent' = {}
    /\ UNCHANGED <<config_vars, extras_vars, rate, spine, served, resets>>

UserCalls(e) ==
    \/ Construct(e) \/ Close(e) \/ Log(e) \/ BulletExtra(e)
    \/ \E field \in Fields, value \in 0 .. MaxAmplitude : UpdateInitRand(e, field, value)

-----------------------------------------------------------------------------
(***************************************************************************)
(* What users log and prepend between two steps goes with the next action  *)
(* the environment sends, once, the last one of each kind, and overrides   *)
(* what get_spine_action put there; without any, nothing old is sent.      *)
(***************************************************************************)
ExtrasReachTheNextStep ==
    [][\A action \in sent' :
         LET e == action.of
         IN  /\ action.user = asked[e].user
             /\ action.slack = (e \in Regulated)
             /\ IF asked[e].bullet # 0 THEN action.bullet = asked[e].bullet
                                       ELSE action.bullet <= 0]_base_vars

(***************************************************************************)
(* When reset returns, the spine is in a session configured by this very   *)
(* call, with the reset state that this environment drew in it, whatever   *)
(* was done to the dictionary it shares with other environments, and even  *)
(* if the spine was already started.                                       *)
(***************************************************************************)
EveryResetIsServed ==
    outcome.is = "reset" =>
        LET e == outcome.of
        IN  /\ spine[e] = "idle"
            /\ served[e].reset.by = e /\ served[e].reset.call = resets[e]

(***************************************************************************)
(* A session starts from a state within the randomization in force at that *)
(* time, and never below the nominal height, where the robot would be in   *)
(* the floor.                                                              *)
(***************************************************************************)
DrawnFromCurrentRandomization ==
    [][\A e \in Envs : served'[e] # served[e] =>
         LET offset == served'[e].reset.offset
         IN  /\ \A f \in Fields : offset[f] \in -amplitude[e][f] .. amplitude[e][f]
             /\ "height" \in Fields => offset["height"] >= 0]_base_vars

=============================================================================
