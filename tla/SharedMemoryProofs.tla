------------------------- MODULE SharedMemoryProofs -------------------------
(***************************************************************************)
(* Spines that are started one at a time keep their name, and those that   *)
(* clear it first always start, whatever crashes in between, for any       *)
(* programs, agents and number of objects.                                 *)
(***************************************************************************)
EXTENDS SharedMemory, TLAPS

IInv ==
    /\ TypeOK
    /\ PlacesAgree
    /\ NameIsHeld
    /\ ClearingSpineStarts
    /\ NothingLeftBehind

\* The steps of a spine keep the types of the variables.
LEMMA SpineTypeStep ==
    ASSUME TypeOK, PlacesAgree,
           NEW s \in Spines, SpineNext(s)
    PROVE  TypeOK' /\ PlacesAgree'
<1> USE SharedMemoryAssumption
    DEF TypeOK, PlacesAgree, Holding, SpinePc, Object, None
<1>1. CASE StartSpine(s) /\ UNCHANGED history_vars
    BY <1>1 DEF StartSpine, NotStarted, object_vars, all_agent_vars,
                history_vars
<1>2. CASE ClearOpen(s) /\ UNCHANGED history_vars
    BY <1>2 DEF ClearOpen, spine_goto, object_vars, all_agent_vars,
                history_vars
<1>3. CASE ClearUnlink(s) /\ UNCHANGED history_vars
    BY <1>3 DEF ClearUnlink, spine_goto, all_agent_vars, history_vars
<1>4. CASE Create(s) /\ UNCHANGED history_vars
  <2>1. CASE name # None
      BY <1>4, <2>1 DEF Create, spine_goto, object_vars, all_agent_vars,
                        history_vars
  <2>2. CASE name = None
    <3>1. nb_objects' \in 0..MaxObjects /\ nb_objects' \in 1..MaxObjects
        BY <1>4, <2>2 DEF Create
    <3>2. spine_object' = [spine_object EXCEPT ![s] = nb_objects']
        BY <1>4, <2>2 DEF Create
    <3>3. spine_object' \in [Spines -> Object \cup {None}]
        BY <3>1, <3>2
    <3>4. spine_pc' = [spine_pc EXCEPT ![s] = "allocate"]
        BY <1>4, <2>2 DEF Create, spine_goto
    <3>5. name' = nb_objects' /\ UNCHANGED <<allocated, raised,
                                             all_agent_vars, history_vars>>
        BY <1>4, <2>2 DEF Create
    <3>6. TypeOK'
        BY <3>1, <3>3, <3>4, <3>5 DEF all_agent_vars, history_vars
    <3>7. PlacesAgree'
        BY <3>1, <3>2, <3>4, <3>5 DEF all_agent_vars
    <3>. QED BY <3>6, <3>7
  <2>. QED BY <2>1, <2>2
<1>5. CASE Allocate(s)
  <2>1. spine_object[s] \in Object
      BY <1>5 DEF Allocate, spine_goto
  <2>2. /\ spine_pc' \in [Spines -> SpinePc]
        /\ spine_object' \in [Spines -> Object \cup {None}]
        /\ allocated' \subseteq Object
        /\ orphaned' \subseteq Object
      BY <1>5, <2>1 DEF Allocate, orphan, spine_goto
  <2>3. UNCHANGED <<name, nb_objects, raised, all_agent_vars,
                    tracker_unlinked>>
      BY <1>5 DEF Allocate
  <2>4. TypeOK'
      BY <2>2, <2>3 DEF all_agent_vars
  <2>5. PlacesAgree'
      BY <1>5, <2>3 DEF Allocate, orphan, spine_goto, all_agent_vars
  <2>. QED BY <2>4, <2>5
<1>6. CASE ConstructStateMachine(s) /\ UNCHANGED history_vars
    BY <1>6 DEF ConstructStateMachine, spine_goto, all_agent_vars,
                history_vars
<1>7. CASE ConstructSpine(s) /\ UNCHANGED history_vars
    BY <1>7 DEF ConstructSpine, spine_goto, all_agent_vars, history_vars
<1>8. CASE Serve(s) /\ UNCHANGED history_vars
    BY <1>8 DEF Serve, all_spine_vars, all_agent_vars, history_vars
<1>9. CASE Exit(s) /\ UNCHANGED history_vars
    BY <1>9 DEF Exit, spine_goto, all_agent_vars, history_vars
<1>10. CASE CrashSpine(s)
    BY <1>10 DEF CrashSpine, orphan, object_vars, all_agent_vars
<1>. QED
    BY <1>1, <1>2, <1>3, <1>4, <1>5, <1>6, <1>7, <1>8, <1>9, <1>10
    DEF SpineNext

\* So do the steps of an agent, and those of a resource tracker.
LEMMA AgentTypeStep ==
    ASSUME TypeOK, PlacesAgree, UNCHANGED history_vars,
           NEW a \in Agents, AgentNext(a)
    PROVE  TypeOK' /\ PlacesAgree'
<1> USE SharedMemoryAssumption
    DEF TypeOK, PlacesAgree, AgentPc, Object, None, history_vars
<1>1. CASE StartAgent(a)
    BY <1>1 DEF StartAgent, object_vars, all_spine_vars
<1>2. CASE Open(a)
    BY <1>2 DEF Open, agent_goto, object_vars, all_spine_vars
<1>3. CASE Map(a)
    BY <1>3 DEF Map, agent_goto, object_vars, all_spine_vars
<1>4. CASE Unregister(a)
    BY <1>4 DEF Unregister, agent_goto, object_vars, all_spine_vars
<1>5. CASE RaiseRequest(a)
    BY <1>5 DEF RaiseRequest, agent_goto, all_spine_vars
<1>6. CASE Return(a)
    BY <1>6 DEF Return, agent_goto, object_vars, all_spine_vars
<1>7. CASE Close(a)
    BY <1>7 DEF Close, agent_goto, object_vars, all_spine_vars
<1>8. CASE CrashAgent(a)
    BY <1>8 DEF CrashAgent, object_vars, all_spine_vars
<1>. QED
    BY <1>1, <1>2, <1>3, <1>4, <1>5, <1>6, <1>7, <1>8 DEF AgentNext

LEMMA TypeStep ==
    TypeOK /\ PlacesAgree /\ [Next]_vars
        => TypeOK' /\ PlacesAgree'
<1> SUFFICES ASSUME TypeOK, PlacesAgree, [Next]_vars
             PROVE  TypeOK' /\ PlacesAgree'
    OBVIOUS
<1>1. CASE TrackerUnlink
    BY <1>1 DEF TrackerUnlink, TypeOK, PlacesAgree, all_spine_vars
<1>2. CASE UNCHANGED vars
    BY <1>2 DEF TypeOK, PlacesAgree, vars, object_vars,
                all_spine_vars, all_agent_vars, history_vars
<1>. QED
    BY <1>1, <1>2, SpineTypeStep, AgentTypeStep DEF Next

LEMMA InitType == Init => TypeOK /\ PlacesAgree
<1> SUFFICES ASSUME Init PROVE TypeOK /\ PlacesAgree
    OBVIOUS
<1>1. TypeOK
  <2>1. 0 \in 0..MaxObjects /\ 0 \in 0..Retries
      BY SharedMemoryAssumption
  <2>2. /\ name \in Object \cup {None} /\ nb_objects \in 0..MaxObjects
        /\ allocated \subseteq Object /\ raised \subseteq Object
        /\ orphaned \subseteq Object
        /\ leaked \in BOOLEAN /\ tracker_unlinked \in BOOLEAN
      BY <2>1 DEF Init
  <2>3. /\ spine_pc \in [Spines -> SpinePc]
        /\ agent_pc \in [Agents -> AgentPc]
      BY DEF Init, SpinePc, AgentPc
  <2>4. /\ spine_object \in [Spines -> Object \cup {None}]
        /\ agent_object \in [Agents -> Object \cup {None}]
        /\ trial \in [Agents -> 0..Retries]
      BY <2>1 DEF Init, None
  <2>. QED BY <2>2, <2>3, <2>4 DEF TypeOK
<1>2. PlacesAgree
    BY SharedMemoryAssumption DEF Init, PlacesAgree, Holding
<1>. QED BY <1>1, <1>2

\* Whatever is started, killed and connected to, however many spines run,
\* processes are in the places of their programs and refer to created objects.
THEOREM TypeCorrect == Spec => []TypeOK
<1>1. TypeOK /\ PlacesAgree /\ [Next]_vars => (TypeOK /\ PlacesAgree)'
    BY TypeStep
<1>. QED
    BY <1>1, InitType, PTL DEF Spec

-----------------------------------------------------------------------------
\* Neither the name nor a mapping is ahead of the objects created so far.
NothingAhead ==
    /\ name <= nb_objects
    /\ \A a \in Agents : agent_object[a] <= nb_objects

LEMMA CreatedIsFresh ==
    ASSUME TypeOK, NothingAhead, Next
    PROVE  /\ NothingAhead'
           /\ \A s \in Spines, a \in Agents :
                 spine_object'[s] # spine_object[s] /\ spine_object'[s] # None =>
                     agent_object[a] # spine_object'[s]
<1> USE DEF TypeOK, NothingAhead, Object, None
<1>0. /\ name \in Nat /\ nb_objects \in Nat
      /\ \A a \in Agents : agent_object[a] \in Nat
    BY SharedMemoryAssumption
<1>1. ASSUME NEW s \in Spines, SpineNext(s)
      PROVE  /\ UNCHANGED agent_object
             /\ \/ /\ name' \in {name, None}
                   /\ UNCHANGED nb_objects
                   /\ spine_object' \in {spine_object,
                                        [spine_object EXCEPT ![s] = None]}
                \/ /\ nb_objects' = nb_objects + 1
                   /\ name' = nb_objects'
                   /\ spine_object' = [spine_object EXCEPT ![s] = nb_objects']
  <2> USE DEF object_vars, all_spine_vars, all_agent_vars
  <2>1. CASE StartSpine(s) \/ ClearOpen(s) \/ ClearUnlink(s)
      BY <2>1 DEF StartSpine, ClearOpen, ClearUnlink
  <2>2. CASE Create(s)
      BY <2>2 DEF Create
  <2>3. CASE Allocate(s) \/ CrashSpine(s)
      BY <2>3 DEF Allocate, CrashSpine, orphan
  <2>4. CASE ConstructStateMachine(s) \/ ConstructSpine(s) \/ Serve(s)
      BY <2>4 DEF ConstructStateMachine, ConstructSpine, Serve
  <2>5. CASE Exit(s)
      BY <2>5 DEF Exit
  <2>. QED BY <1>1, <2>1, <2>2, <2>3, <2>4, <2>5 DEF SpineNext
<1>2. ASSUME NEW a \in Agents, AgentNext(a)
      PROVE  /\ UNCHANGED <<name, nb_objects, spine_object>>
             /\ \A b \in Agents :
                   agent_object'[b] \in {agent_object[b], name, None}
  <2> USE DEF object_vars, all_spine_vars, all_agent_vars
  <2>1. CASE StartAgent(a) \/ Unregister(a) \/ RaiseRequest(a) \/ Return(a)
      BY <2>1 DEF StartAgent, Unregister, RaiseRequest, Return
  <2>2. CASE Open(a)
      BY <2>2 DEF Open
  <2>3. CASE Map(a)
      BY <2>3 DEF Map
  <2>4. CASE Close(a) \/ CrashAgent(a)
      BY <2>4 DEF Close, CrashAgent
  <2>. QED BY <1>2, <2>1, <2>2, <2>3, <2>4 DEF AgentNext
<1>3. ASSUME NEW s \in Spines, SpineNext(s)
      PROVE  /\ NothingAhead'
             /\ \A t \in Spines, a \in Agents :
                   spine_object'[t] # spine_object[t] /\ spine_object'[t] # None =>
                       agent_object[a] # spine_object'[t]
    BY <1>0, <1>1, <1>3
<1>4. CASE TrackerUnlink
    BY <1>0, <1>4 DEF TrackerUnlink, all_spine_vars
<1>. QED BY <1>0, <1>2, <1>3, <1>4 DEF Next

\* A spine never gets an object that an agent has mapped before, however many
\* spines and agents start and die: no request of an earlier session is in it.
THEOREM FreshObjects == Spec => StartsOnFreshObject
<1>1. Init => NothingAhead
    BY DEF Init, NothingAhead, None
<1>2. TypeOK /\ NothingAhead /\ [Next]_vars => NothingAhead'
  <2>1. CASE UNCHANGED vars
      BY <2>1 DEF NothingAhead, vars, object_vars, all_agent_vars
  <2>. QED BY <2>1, CreatedIsFresh
<1>3. TypeOK /\ NothingAhead /\ [Next]_vars =>
        [ \A s \in Spines, a \in Agents :
             spine_object'[s] # spine_object[s] /\ spine_object'[s] # None =>
                 agent_object[a] # spine_object'[s] ]_vars
    BY CreatedIsFresh
<1>. QED
    BY <1>1, <1>2, <1>3, TypeCorrect, PTL DEF Spec, StartsOnFreshObject

-----------------------------------------------------------------------------
\* Every step of a spine that is started alone keeps the name its own.
LEMMA SpineNameStep ==
    ASSUME OneAtATime, TypeOK, PlacesAgree, NameIsHeld, ClearingSpineStarts,
           NothingLeftBehind,
           NEW s \in Spines, SpineNext(s)
    PROVE  NameIsHeld' /\ ClearingSpineStarts' /\ NothingLeftBehind'
<1> USE SharedMemoryAssumption
    DEF TypeOK, PlacesAgree, NameIsHeld, ClearingSpineStarts,
        NothingLeftBehind, Holding, NotStarted, SpinePc, Object, None
<1>1. CASE StartSpine(s) /\ UNCHANGED history_vars
    BY <1>1 DEF StartSpine, object_vars, history_vars
<1>2. CASE ClearOpen(s) /\ UNCHANGED history_vars
    BY <1>2 DEF ClearOpen, spine_goto, object_vars, history_vars
<1>3. CASE ClearUnlink(s) /\ UNCHANGED history_vars
    BY <1>3 DEF ClearUnlink, spine_goto, history_vars
<1>4. CASE Create(s) /\ UNCHANGED history_vars
  <2>1. CASE name # None
    <3>1. /\ spine_pc[s] = "create"
          /\ spine_pc' = [spine_pc EXCEPT ![s] = "refused"]
          /\ UNCHANGED <<name, spine_object, history_vars>>
        BY <1>4, <2>1 DEF Create, spine_goto, object_vars
    <3>2. s \notin Clearing
        BY <2>1, <3>1
    <3>. QED
        BY <3>1, <3>2 DEF history_vars
  <2>2. CASE name = None
    <3>1. /\ spine_pc[s] = "create"
          /\ spine_pc' = [spine_pc EXCEPT ![s] = "allocate"]
          /\ spine_object' = [spine_object EXCEPT ![s] = name']
          /\ UNCHANGED history_vars
        BY <1>4, <2>2 DEF Create, spine_goto
    <3>2. \A t \in Spines : t # s => spine_pc[t] \in {"off", "refused", "failed"}
        BY <3>1
    <3>3. NameIsHeld'
        BY <3>1, <3>2
    <3>4. ClearingSpineStarts' /\ NothingLeftBehind'
        BY <3>1 DEF history_vars
    <3>. QED BY <3>3, <3>4
  <2>. QED BY <2>1, <2>2
<1>5. CASE Allocate(s)
  <2>1. /\ spine_pc[s] = "allocate"
        /\ UNCHANGED <<name, tracker_unlinked>>
      BY <1>5 DEF Allocate, spine_goto
  <2>2. /\ spine_object[s] \in Object
        /\ \A t \in Spines : t # s => spine_pc[t] \in NotStarted
      BY <2>1
  <2>3. CASE /\ spine_pc' = [spine_pc EXCEPT ![s] = "construct"]
             /\ UNCHANGED <<spine_object, orphaned>>
    <3>1. NameIsHeld'
        BY <2>1, <2>2, <2>3
    <3>2. ClearingSpineStarts' /\ NothingLeftBehind'
        BY <2>1, <2>3
    <3>. QED BY <3>1, <3>2
  <2>4. CASE spine_pc' = [spine_pc EXCEPT ![s] = "failed"] /\ orphan(s)
    <3>1. /\ spine_object' = [spine_object EXCEPT ![s] = None]
          /\ orphaned' = orphaned \cup {spine_object[s]}
        BY <2>2, <2>4 DEF orphan
    <3>2. NameIsHeld'
        BY <2>1, <2>2, <2>4
    <3>3. ClearingSpineStarts'
        BY <2>1, <2>4
    <3>4. ASSUME name # None, name \notin orphaned'
          PROVE  \E t \in Spines : spine_object'[t] = name
      <4>1. PICK t \in Spines : spine_object[t] = name
          BY <3>1, <3>4
      <4>2. t # s
          BY <3>1, <3>4, <4>1
      <4>. QED BY <3>1, <4>1, <4>2
    <3>5. NothingLeftBehind'
        BY <2>1, <3>4
    <3>. QED BY <3>2, <3>3, <3>5
  <2>. QED BY <1>5, <2>3, <2>4 DEF Allocate, spine_goto
<1>6. CASE ConstructStateMachine(s) /\ UNCHANGED history_vars
    BY <1>6 DEF ConstructStateMachine, spine_goto, history_vars
<1>7. CASE ConstructSpine(s) /\ UNCHANGED history_vars
    BY <1>7 DEF ConstructSpine, spine_goto, history_vars
<1>8. CASE Serve(s) /\ UNCHANGED history_vars
    BY <1>8 DEF Serve, all_spine_vars, history_vars
<1>9. CASE Exit(s) /\ UNCHANGED history_vars
    BY <1>9 DEF Exit, spine_goto, history_vars
<1>10. CASE CrashSpine(s)
    BY <1>10 DEF CrashSpine, orphan, object_vars
<1>. QED
    BY <1>1, <1>2, <1>3, <1>4, <1>5, <1>6, <1>7, <1>8, <1>9, <1>10
    DEF SpineNext

\* Agents leave the name alone; a resource tracker says that it did not.
LEMMA NameStep ==
    ASSUME OneAtATime, IInv, [Next]_vars
    PROVE  IInv'
<1>1. TypeOK' /\ PlacesAgree'
    BY TypeStep DEF IInv
<1>2. ASSUME NEW s \in Spines, SpineNext(s)
      PROVE  NameIsHeld' /\ ClearingSpineStarts' /\ NothingLeftBehind'
    BY <1>2, SpineNameStep DEF IInv
<1>3. ASSUME NEW a \in Agents, AgentNext(a), UNCHANGED history_vars
      PROVE  UNCHANGED <<name, all_spine_vars, history_vars>>
    BY <1>3 DEF AgentNext, StartAgent, Open, Map, Unregister, RaiseRequest,
                Return, Close, CrashAgent, object_vars
<1>4. CASE UNCHANGED <<name, all_spine_vars, history_vars>>
    BY <1>1, <1>4 DEF IInv, NameIsHeld, ClearingSpineStarts,
                      NothingLeftBehind, all_spine_vars, history_vars
<1>5. CASE TrackerUnlink
    BY <1>1, <1>5 DEF IInv, TrackerUnlink, NameIsHeld, ClearingSpineStarts,
                      NothingLeftBehind, all_spine_vars
<1>6. CASE UNCHANGED vars
    BY <1>4, <1>6 DEF vars, object_vars
<1>. QED
    BY <1>1, <1>2, <1>3, <1>4, <1>5, <1>6 DEF Next, IInv

\* IInv is an invariant of spines that are started one at a time.
THEOREM SharedMemoryInvariance == OneAtATime => (Spec => []IInv)
<1> SUFFICES ASSUME OneAtATime PROVE Spec => []IInv
    OBVIOUS
<1>1. Init => IInv
  <2> SUFFICES ASSUME Init PROVE IInv
      OBVIOUS
  <2>1. \A s \in Spines : spine_pc[s] = "off"
      BY DEF Init
  <2>2. NameIsHeld
      BY <2>1, SharedMemoryAssumption DEF Init, NameIsHeld, Holding, NotStarted
  <2>3. ClearingSpineStarts /\ NothingLeftBehind
      BY <2>1, SharedMemoryAssumption
      DEF Init, ClearingSpineStarts, NothingLeftBehind
  <2>. QED BY <2>2, <2>3, InitType DEF IInv
<1>2. IInv /\ [Next]_vars => IInv'
    BY NameStep
<1>. QED
    BY <1>1, <1>2, PTL DEF Spec

\* A running spine can be connected to by its name, whatever crashed before it
\* started, for any programs and agents.
THEOREM RunningSpineKeepsItsName == OneAtATime => (Spec => []LiveSpineIsReachable)
<1> SUFFICES ASSUME OneAtATime PROVE Spec => []LiveSpineIsReachable
    OBVIOUS
<1>1. IInv => LiveSpineIsReachable
    BY DEF IInv, NameIsHeld, Holding, LiveSpineIsReachable
<1>. QED
    BY <1>1, SharedMemoryInvariance, PTL

\* A program that clears the name first starts, whatever was left behind.
THEOREM ClearedNameIsFree == OneAtATime => (Spec => []ClearingSpineStarts)
<1> SUFFICES ASSUME OneAtATime PROVE Spec => []ClearingSpineStarts
    OBVIOUS
<1>1. IInv => ClearingSpineStarts
    BY DEF IInv
<1>. QED
    BY <1>1, SharedMemoryInvariance, PTL

\* Only spines that died leave an object under the name.
THEOREM ExitedSpinesLeaveNothing == OneAtATime => (Spec => []NothingLeftBehind)
<1> SUFFICES ASSUME OneAtATime PROVE Spec => []NothingLeftBehind
    OBVIOUS
<1>1. IInv => NothingLeftBehind
    BY DEF IInv
<1>. QED
    BY <1>1, SharedMemoryInvariance, PTL

=============================================================================
