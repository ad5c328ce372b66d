---------------------------- MODULE SharedMemory ----------------------------
(***************************************************************************)
(* The life of the shared-memory objects behind one name ("/upkie"): how   *)
(* spines create and remove them, how agents find them.                    *)
(*                                                                         *)
(* A spine program clears the name (bullet_spine only), creates the object *)
(* and maps it (AgentInterface::AgentInterface), finishes its constructor, *)
(* runs, and unlinks the name (AgentInterface::~AgentInterface).  An agent *)
(* opens the name, again and again, maps what it finds, and raises its     *)
(* requests there.  A name is what unlinking removes: processes that have  *)
(* mapped an object keep it.  Any process may die between two steps.       *)
(*                                                                         *)
(* A request is abstracted to a raised flag, and a pass of the spine's     *)
(* loop that serves it to one step: SpineSystem has the details, and       *)
(* starts where both processes have mapped the object of a running spine.  *)
(***************************************************************************)
EXTENDS Naturals

CONSTANTS
    Spines,        \* programs that may be started on the name
    Clearing,      \* those that clear the name first
    Agents,
    MaxObjects,    \* bound: objects created
    Retries,       \* argument of wait_for_shared_memory
    OneAtATime,    \* whether a spine is only started when no other is alive
    Faults         \* what may go wrong

(***************************************************************************)
(* "crash":      a spine or an agent is killed                             *)
(* "allocation": ftruncate or mmap fails in the spine                      *)
(* "leak":       an agent is killed while the resource tracker of its      *)
(*               Python process has the object registered                  *)
(***************************************************************************)
ASSUME SharedMemoryAssumption ==
    /\ Clearing \subseteq Spines
    /\ MaxObjects \in Nat /\ Retries \in Nat \ {0}
    /\ OneAtATime \in BOOLEAN
    /\ Faults \subseteq {"crash", "allocation", "leak"}

VARIABLES
    name,           \* the object the name refers to
    nb_objects,     \* objects created so far
    allocated,      \* objects whose file has its size
    raised,         \* objects whose request word is not kNone
    spine_pc, spine_object,
    agent_pc, agent_object, trial,
    leaked,         \* whether a resource tracker has an object to unlink
    orphaned,       \* history: objects whose spine died without unlinking
    tracker_unlinked    \* history: whether a tracker has unlinked the name

object_vars == <<name, nb_objects, allocated, raised>>
all_spine_vars == <<spine_pc, spine_object>>
all_agent_vars == <<agent_pc, agent_object, trial, leaked>>

history_vars == <<orphaned, tracker_unlinked>>

vars == <<object_vars, all_spine_vars, all_agent_vars, history_vars>>

None == 0

Object == 1..MaxObjects

SpinePc == {"off", "clear", "unlink", "create", "allocate", "construct",
            "initialize", "running", "refused", "failed"}

NotStarted == {"off", "refused", "failed"}

AgentPc == {"off", "open", "map", "unregister", "connected", "calling",
            "spine_error", "value_error"}

TypeOK ==
    /\ name \in Object \cup {None}
    /\ nb_objects \in 0..MaxObjects
    /\ allocated \subseteq Object /\ raised \subseteq Object
    /\ spine_pc \in [Spines -> SpinePc]
    /\ spine_object \in [Spines -> Object \cup {None}]
    /\ agent_pc \in [Agents -> AgentPc]
    /\ agent_object \in [Agents -> Object \cup {None}]
    /\ trial \in [Agents -> 0..Retries]
    /\ leaked \in BOOLEAN /\ tracker_unlinked \in BOOLEAN
    /\ orphaned \subseteq Object

Init ==
    /\ name = None
    /\ nb_objects = 0
    /\ allocated = {} /\ raised = {}
    /\ spine_pc = [s \in Spines |-> "off"]
    /\ spine_object = [s \in Spines |-> None]
    /\ agent_pc = [a \in Agents |-> "off"]
    /\ agent_object = [a \in Agents |-> None]
    /\ trial = [a \in Agents |-> 0]
    /\ leaked = FALSE /\ tracker_unlinked = FALSE
    /\ orphaned = {}

-----------------------------------------------------------------------------
(***************************************************************************)
(* Spine programs                                                          *)
(***************************************************************************)

spine_goto(s, from, to) ==
    /\ spine_pc[s] = from
    /\ spine_pc' = [spine_pc EXCEPT ![s] = to]

orphan(s) ==
    /\ spine_object' = [spine_object EXCEPT ![s] = None]
    /\ orphaned' = orphaned \cup ({spine_object[s]} \ {None})

StartSpine(s) ==
    /\ spine_pc[s] \in NotStarted
    /\ OneAtATime => \A t \in Spines : spine_pc[t] \in NotStarted
    /\ spine_pc' = [spine_pc EXCEPT
                       ![s] = IF s \in Clearing THEN "clear" ELSE "create"]
    /\ UNCHANGED <<object_vars, spine_object, all_agent_vars>>

\* clear_shared_memory: open the name, and unlink it if there is one.
ClearOpen(s) ==
    /\ spine_goto(s, "clear", IF name = None THEN "create" ELSE "unlink")
    /\ UNCHANGED <<object_vars, spine_object, all_agent_vars>>

\* Mistaken: the name is not unlinked.
ClearUnlink_not_unlinking(s) ==
    /\ spine_goto(s, "unlink", "create")
    /\ UNCHANGED <<object_vars, spine_object, all_agent_vars>>

ClearUnlink(s) ==
    /\ spine_goto(s, "unlink", IF name = None THEN "refused" ELSE "create")
    /\ name' = None
    /\ UNCHANGED <<nb_objects, allocated, raised, spine_object,
                   all_agent_vars>>

\* Mistaken: O_CREAT without O_EXCL.
Create_not_exclusive(s) ==
    /\ spine_goto(s, "create", "allocate")
    /\ nb_objects < MaxObjects
    /\ nb_objects' = IF name = None THEN nb_objects + 1 ELSE nb_objects
    /\ name' = IF name = None THEN nb_objects' ELSE name
    /\ spine_object' = [spine_object EXCEPT ![s] = name']
    /\ UNCHANGED <<allocated, raised, all_agent_vars>>

\* shm_open(O_CREAT | O_EXCL).
Create(s) ==
    \/ /\ name # None
       /\ spine_goto(s, "create", "refused")
       /\ UNCHANGED <<object_vars, spine_object, all_agent_vars>>
    \/ /\ name = None
       /\ nb_objects < MaxObjects
       /\ spine_goto(s, "create", "allocate")
       /\ nb_objects' = nb_objects + 1
       /\ name' = nb_objects'
       /\ spine_object' = [spine_object EXCEPT ![s] = nb_objects']
       /\ UNCHANGED <<allocated, raised, all_agent_vars>>

\* ftruncate, which fills with zeros, and mmap.  When one fails the exception
\* leaves the constructor, so that the destructor does not unlink the name.
Allocate(s) ==
    /\ \/ /\ spine_goto(s, "allocate", "construct")
          /\ allocated' = allocated \cup {spine_object[s]}
          /\ UNCHANGED <<spine_object, orphaned>>
       \/ /\ "allocation" \in Faults
          /\ spine_goto(s, "allocate", "failed")
          /\ orphan(s)
          /\ UNCHANGED allocated
    /\ UNCHANGED <<name, nb_objects, raised, all_agent_vars,
                   tracker_unlinked>>

\* The state machine sets the request to kNone when it enters kSendStops...
ConstructStateMachine(s) ==
    /\ spine_goto(s, "construct", "initialize")
    /\ raised' = raised \ {spine_object[s]}
    /\ UNCHANGED <<name, nb_objects, allocated, spine_object, all_agent_vars>>

\* ... and the body of Spine::Spine does it again, after its real-time setup.
ConstructSpine(s) ==
    /\ spine_goto(s, "initialize", "running")
    /\ raised' = raised \ {spine_object[s]}
    /\ UNCHANGED <<name, nb_objects, allocated, spine_object, all_agent_vars>>

Serve(s) ==
    /\ spine_pc[s] = "running"
    /\ spine_object[s] \in raised
    /\ raised' = raised \ {spine_object[s]}
    /\ UNCHANGED <<name, nb_objects, allocated, all_spine_vars,
                   all_agent_vars>>

\* Mistaken: the destructor leaves the name.
Exit_not_unlinking(s) ==
    /\ spine_goto(s, "running", "off")
    /\ spine_object' = [spine_object EXCEPT ![s] = None]
    /\ UNCHANGED <<object_vars, all_agent_vars>>

\* The destructor unlinks the name, whatever the name refers to by then.
Exit(s) ==
    /\ spine_goto(s, "running", "off")
    /\ name' = None
    /\ spine_object' = [spine_object EXCEPT ![s] = None]
    /\ UNCHANGED <<nb_objects, allocated, raised, all_agent_vars>>

CrashSpine(s) ==
    /\ "crash" \in Faults
    /\ spine_pc[s] \notin NotStarted
    /\ spine_pc' = [spine_pc EXCEPT ![s] = "off"]
    /\ orphan(s)
    /\ UNCHANGED <<object_vars, all_agent_vars, tracker_unlinked>>

-----------------------------------------------------------------------------
(***************************************************************************)
(* Agents                                                                  *)
(***************************************************************************)

agent_goto(a, from, to) ==
    /\ agent_pc[a] = from
    /\ agent_pc' = [agent_pc EXCEPT ![a] = to]

StartAgent(a) ==
    /\ agent_pc[a] \in {"off", "spine_error", "value_error"}
    /\ agent_pc' = [agent_pc EXCEPT ![a] = "open"]
    /\ trial' = [trial EXCEPT ![a] = 0]
    /\ UNCHANGED <<object_vars, all_spine_vars, agent_object, leaked>>

\* wait_for_shared_memory: one trial.
Open(a) ==
    /\ IF name # None
       THEN /\ agent_goto(a, "open", "map")
            /\ agent_object' = [agent_object EXCEPT ![a] = name]
            /\ UNCHANGED trial
       ELSE /\ agent_goto(a, "open", IF trial[a] + 1 < Retries
                                     THEN "open" ELSE "spine_error")
            /\ trial' = [trial EXCEPT ![a] = trial[a] + 1]
            /\ UNCHANGED agent_object
    /\ UNCHANGED <<object_vars, all_spine_vars, leaked>>

\* Mapping a file that has no size yet is a ValueError, which is not the
\* FileNotFoundError that the retries handle.
Map(a) ==
    /\ agent_goto(a, "map", IF agent_object[a] \in allocated
                            THEN "unregister" ELSE "value_error")
    /\ agent_object' = [agent_object EXCEPT
          ![a] = IF @ \in allocated THEN @ ELSE None]
    /\ UNCHANGED <<object_vars, all_spine_vars, trial, leaked>>

\* resource_tracker.unregister
Unregister(a) ==
    /\ agent_goto(a, "unregister", "connected")
    /\ UNCHANGED <<object_vars, all_spine_vars, agent_object, trial, leaked>>

RaiseRequest(a) ==
    /\ agent_object[a] \notin raised
    /\ agent_goto(a, "connected", "calling")
    /\ raised' = raised \cup {agent_object[a]}
    /\ UNCHANGED <<name, nb_objects, allocated, all_spine_vars, agent_object,
                   trial, leaked>>

\* The call returns, because its request is down or after its deadline.
Return(a) ==
    /\ agent_goto(a, "calling", "connected")
    /\ UNCHANGED <<object_vars, all_spine_vars, agent_object, trial, leaked>>

\* Mistaken: the agent unlinks the name as well.
Close_unlinking(a) ==
    /\ agent_goto(a, "connected", "off")
    /\ agent_object' = [agent_object EXCEPT ![a] = None]
    /\ name' = None
    /\ UNCHANGED <<nb_objects, allocated, raised, all_spine_vars, trial,
                   leaked>>

\* SpineInterface.__del__ closes its mapping without unlinking the name.
Close(a) ==
    /\ agent_goto(a, "connected", "off")
    /\ agent_object' = [agent_object EXCEPT ![a] = None]
    /\ UNCHANGED <<object_vars, all_spine_vars, trial, leaked>>

\* An agent that dies leaves its tracker to unlink what is registered.
CrashAgent(a) ==
    /\ "crash" \in Faults
    /\ agent_pc[a] \in {"map", "unregister", "connected", "calling"}
    /\ "leak" \in Faults \/ agent_pc[a] # "unregister"
    /\ leaked' = (leaked \/ agent_pc[a] = "unregister")
    /\ agent_pc' = [agent_pc EXCEPT ![a] = "off"]
    /\ agent_object' = [agent_object EXCEPT ![a] = None]
    /\ UNCHANGED <<object_vars, all_spine_vars, trial>>

TrackerUnlink ==
    /\ leaked
    /\ leaked' = FALSE
    /\ name' = None
    /\ tracker_unlinked' = TRUE
    /\ UNCHANGED <<nb_objects, allocated, raised, all_spine_vars, agent_pc,
                   agent_object, trial, orphaned>>

-----------------------------------------------------------------------------
SpineNext(s) ==
    \/ /\ \/ StartSpine(s)
          \/ ClearOpen(s)
          \/ ClearUnlink(s)
          \/ Create(s)
          \/ ConstructStateMachine(s)
          \/ ConstructSpine(s)
          \/ Serve(s)
          \/ Exit(s)
       /\ UNCHANGED history_vars
    \/ Allocate(s)
    \/ CrashSpine(s)

AgentNext(a) ==
    \/ StartAgent(a)
    \/ Open(a)
    \/ Map(a)
    \/ Unregister(a)
    \/ RaiseRequest(a)
    \/ Return(a)
    \/ Close(a)
    \/ CrashAgent(a)

Next ==
    \/ \E s \in Spines : SpineNext(s)
    \/ \E a \in Agents : AgentNext(a) /\ UNCHANGED history_vars
    \/ TrackerUnlink

Spec == Init /\ [][Next]_vars

-----------------------------------------------------------------------------
\* An agent that waits for a spine to start finds the running one: clearing
\* the name before a start, removing it after a run, crashes and failures in
\* between never take it from the spine that runs now.
LiveSpineIsReachable ==
    \A s \in Spines :
        spine_pc[s] = "running" => name = spine_object[s] \/ tracker_unlinked

\* An object that a previous spine left behind, because it crashed or failed
\* in its constructor, does not keep bullet_spine from starting ("Is a spine
\* already running?" is never its answer when none is).  A resource tracker
\* that unlinks the name between its two steps does.
ClearingSpineStarts ==
    \A s \in Clearing : spine_pc[s] # "refused" \/ tracker_unlinked

\* A spine that starts never gets an object that an earlier agent has mapped,
\* in which a request could have been raised to its predecessor.
StartsOnFreshObject ==
    [][ \A s \in Spines, a \in Agents :
           spine_object'[s] # spine_object[s] /\ spine_object'[s] # None =>
               agent_object[a] # spine_object'[s] ]_vars

\* A name that no spine holds was left by one that died or failed in its
\* constructor: a spine that runs to its end removes it ("the spine process
\* will unlink the shared memory object", SpineInterface.__del__).
NothingLeftBehind ==
    name # None =>
        name \in orphaned \/ \E s \in Spines : spine_object[s] = name

\* "Cannot open shared memory: file already exists.  Is a spine already
\* running?": a spine does not start on the name of another one that runs.
OneSpinePerName ==
    \A s, t \in Spines :
        spine_pc[s] = "running" /\ spine_pc[t] = "running" => s = t

\* A request that an agent raised is taken by a spine that serves it: kNone is
\* the "Flag set when there is no active request" (Request.h).
OnlyServedRequestsAreCleared ==
    [][ \A o \in raised \ raised' :
           \E s \in Spines : spine_pc[s] = "running" /\ spine_object[s] = o ]_vars

-----------------------------------------------------------------------------
\* Where a spine has created its object and not unlinked it yet.
Holding == {"allocate", "construct", "initialize", "running"}

\* What a process holds agrees with its place: past its creation or its opening
\* it has an object, and before its opening it has a trial left.
PlacesAgree ==
    /\ \A s \in Spines : spine_pc[s] \in Holding => spine_object[s] # None
    /\ \A a \in Agents :
          agent_pc[a] \in {"map", "unregister", "connected", "calling"} =>
              agent_object[a] # None
    /\ \A a \in Agents : agent_pc[a] = "open" => trial[a] < Retries

\* For spines started one at a time: at most one of them is alive, the name is
\* its own from the creation of the object on, and free when it gets there by
\* clearing the name.  (A resource tracker only ever frees the name.)
NameIsHeld ==
    /\ \A s, t \in Spines :
          spine_pc[s] \notin NotStarted /\ spine_pc[t] \notin NotStarted => s = t
    /\ \A s \in Spines :
          spine_pc[s] \in Holding => name = spine_object[s] \/ tracker_unlinked
    /\ \A s \in Clearing :
          /\ spine_pc[s] = "unlink" => name # None \/ tracker_unlinked
          /\ spine_pc[s] = "create" => name = None

=============================================================================
