---------------------------- MODULE CallContract ----------------------------
(***************************************************************************)
(* What a spine promises to its agents, without the shared memory: remote  *)
(* calls, one at a time, that carry a dictionary.  The spine takes each at *)
(* most once and in order.  A call that returns has the observation of its *)
(* own dictionary, with two exceptions that get the dictionary back: a     *)
(* configuration that the spine has refused, and any call to a spine that  *)
(* shuts down.  A caller may give up at any time, its request does not.    *)
(***************************************************************************)
EXTENDS Naturals

CONSTANTS
    MaxCalls,
    NoDictionary

VARIABLES
    call,        \* dictionaries that callers have prepared so far
    waiting,     \* the dictionary whose caller waits for its observation
    pending,     \* the dictionary of the raised request
    taken,       \* the last dictionary that was served
    answered,    \* whether the observation of the current call is there
    returned,    \* what the last call returned
    over         \* whether the spine shuts down

vars == <<call, waiting, pending, taken, answered, returned, over>>

Nothing == [call |-> 0, message |-> NoDictionary]

Init ==
    /\ call = 0
    /\ waiting = NoDictionary
    /\ pending = NoDictionary
    /\ taken = NoDictionary
    /\ answered = FALSE
    /\ returned = Nothing
    /\ over = FALSE

-----------------------------------------------------------------------------

Begin ==
    /\ waiting = NoDictionary
    /\ returned' = Nothing
    /\ UNCHANGED <<call, waiting, pending, taken, answered, over>>

Prepare ==
    /\ waiting = NoDictionary /\ pending = NoDictionary
    /\ call < MaxCalls
    /\ call' = call + 1
    /\ answered' = FALSE
    /\ UNCHANGED <<waiting, pending, taken, returned, over>>

Raise ==
    /\ waiting = NoDictionary /\ pending = NoDictionary
    /\ taken.call < call
    /\ \E kind \in {"config", "action"} : waiting' = [kind |-> kind, call |-> call]
    /\ pending' = waiting'
    /\ UNCHANGED <<call, taken, answered, returned, over>>

GiveUp ==
    /\ waiting # NoDictionary
    /\ waiting' = NoDictionary
    /\ UNCHANGED <<call, pending, taken, answered, returned, over>>

GetsItBack ==
    \/ over
    \/ waiting.kind = "config" /\ taken.call < waiting.call

Return ==
    /\ waiting # NoDictionary /\ pending = NoDictionary
    /\ ~answered => GetsItBack
    /\ returned' = [call |-> waiting.call,
                    message |-> IF answered
                                THEN [kind |-> "observation", call |-> waiting.call]
                                ELSE waiting]
    /\ waiting' = NoDictionary
    /\ UNCHANGED <<call, pending, taken, answered, over>>

-----------------------------------------------------------------------------

\* The spine may start its shutdown in the step that takes a dictionary.
Take ==
    /\ pending # NoDictionary
    /\ taken.call < pending.call
    /\ taken' = pending
    /\ \/ UNCHANGED <<pending, over>>
       \/ pending' = NoDictionary /\ over' = TRUE
    /\ UNCHANGED <<call, waiting, answered, returned>>

Answer ==
    /\ pending # NoDictionary /\ taken = pending
    /\ answered' = TRUE
    /\ UNCHANGED <<call, waiting, pending, taken, returned, over>>

\* A request falls once it was answered, or without having been taken.
Settle ==
    /\ pending # NoDictionary
    /\ IF taken = pending THEN answered ELSE taken.call < pending.call
    /\ pending' = NoDictionary
    /\ UNCHANGED <<call, waiting, taken, answered, returned, over>>

\* A spine that shuts down takes nothing any more, and may drop a request.
ShutDown ==
    /\ over' = TRUE
    /\ pending' = NoDictionary
    /\ UNCHANGED <<call, waiting, taken, answered, returned>>

Next ==
    \/ Begin \/ Prepare \/ Raise \/ GiveUp \/ Return
    \/ Take \/ Answer \/ Settle \/ ShutDown

Spec == Init /\ [][Next]_vars

=============================================================================
