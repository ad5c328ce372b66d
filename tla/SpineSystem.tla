---------------------------- MODULE SpineSystem ----------------------------
(***************************************************************************)
(* One spine and its agent, two processes that share an AgentInterface     *)
(* and nothing else.  Their steps interleave freely: the spine runs on a   *)
(* core of its own at a real-time priority, the agent polls.               *)
(***************************************************************************)
EXTENDS Spine, SpineInterface

vars == <<interface_vars, spine_vars, agent_vars>>

TypeOK ==
    /\ InterfaceTypeOK
    /\ SpineTypeOK
    /\ AgentTypeOK

\* The constructor of the spine is over, and the first agent has connected
\* since then: SharedMemory tells how they get there, or fail to.
Init ==
    /\ InterfaceInit
    /\ SpineInit
    /\ AgentInit

Next ==
    \/ SpineStep /\ UNCHANGED agent_vars
    \/ HandleInterrupt /\ UNCHANGED agent_vars
    \/ AgentStep /\ UNCHANGED spine_vars
    \/ CallMethod /\ UNCHANGED spine_vars
    \/ Restart /\ UNCHANGED spine_vars

(***************************************************************************)
(* Fairness: the spine's loop goes on by itself, and an agent inside a     *)
(* call executes the next statement of it.  A call is not helped by its    *)
(* deadline, which may come but need not.  Nothing obliges the agent's     *)
(* user to call a method, nor an interrupt to come.                        *)
(***************************************************************************)
Fairness ==
    /\ WF_vars(SpineStep /\ UNCHANGED agent_vars)
    /\ WF_vars(AgentStep /\ ~WaitTimeout /\ UNCHANGED spine_vars)

Spec == Init /\ [][Next]_vars

FairSpec == Spec /\ Fairness

-----------------------------------------------------------------------------
(***************************************************************************)
(* Safety of the shared memory                                             *)
(***************************************************************************)

AgentUsesBuffer ==
    agent_pc \in {"write_size", "write_data", "write_request",
                  "read_size", "read_data"}

SpineUsesBuffer ==
    spine_pc \in {"read_size", "read_data", "write_size", "write_data"}

\* The agent and the spine are never both in the middle of accessing the size
\* word and the buffer: without a lock, the request word alone keeps the
\* agent's _write_dict/_read_dict apart from the spine's begin_cycle/end_cycle,
\* across timeouts, agent restarts and interrupts.
ExclusiveBuffer == ~(AgentUsesBuffer /\ SpineUsesBuffer)

\* The dictionary that begin_cycle reads is whole, and is of the sort the
\* state expects: a configuration in kReset, an action in kStep.
ServesTheRightDictionary ==
    spine_pc \in {"commands", "cycle", "write_size", "write_data"} =>
        /\ state = "kReset" => served.kind = "config"
        /\ state = "kStep" => served.kind = "action"

\* set_action and start return the observation that follows the dictionary
\* they wrote, as their docstrings say ("return: Observation dictionary");
\* never their own input, nor the answer to a call that had timed out.
AnswersItsCall ==
    returned # Nothing =>
        returned.message = [kind |-> "observation", call |-> returned.call]

\* Whatever the caller does and whatever fails, an operation never returns a
\* dictionary of another call: neither an older observation nor a dictionary
\* that an agent that died had left in the buffer.
NeverAnswersAnotherCall ==
    returned # Nothing => returned.message.call = returned.call

\* The spine takes every dictionary at most once and in the order the agents
\* wrote them: no action is applied again after a timeout or a restart.
ServedOnceInOrder == [][ReadData => served'.call > served.call]_vars

\* AnswersItsCall, for a spine that any fault may send to its shutdown: until
\* that shutdown, the methods of the environment get the observation they ask
\* for, after timeouts and restarts and next to direct calls of start().
AnswersItsCallUntilShutdown ==
    \/ state \in {"kShutdown", "kOver"}
    \/ method = "start"
    \/ AnswersItsCall

-----------------------------------------------------------------------------
(***************************************************************************)
(* Safety of the servos                                                    *)
(***************************************************************************)

\* "Event::kCycleBeginning should not happen from State::kReset", and the same
\* of State::kStep (warnings of process_cycle_beginning): both states last one
\* pass of the loop.
NeverBeginsMidRequest ==
    spine_pc \in {"begin", "dispatch"} => state \notin {"kReset", "kStep"}

\* While the spine stops, shuts down or applies a configuration, no cycle is
\* launched with a position command, whatever was written in the session before
\* ("Stop: do nothing, send stop commands to servos", docs/dev-notes.md).
StopsOnBus ==
    spine_pc = "cycle" /\ state \in {"kSendStops", "kReset", "kShutdown"} =>
        commands = "kStopped"

\* A configuration is applied (the state kReset) after at least kNbStopCycles
\* consecutive cycles of stop commands: StateMachine.h, "When sending stop
\* cycles, send at least that many".
StopsSentBeforeReset == state = "kReset" => stops_cycled >= kNbStopCycles

\* The phase of ActuationContract that each state belongs to.
phase ==
    IF state = "kSendStops" THEN "stopped"
    ELSE IF state = "kShutdown" THEN "shutdown"
    ELSE IF state = "kOver" THEN "over" ELSE "active"

Contract == INSTANCE ActuationContract
                WITH NbStops <- kNbStopCycles, stops <- stops_cycled

\* The run loop keeps the actuation contract: position commands in a session
\* only, a session only after kNbStopCycles cycles of stops, a final shutdown
\* that cycles stops at least kNbStopCycles - 1 times (its last pass of the
\* loop writes stop commands but launches no cycle).
ImplementsContract == Contract!Spec

\* kShutdown and kOver are final: no event, request or exception gets the
\* spine out of its shutdown, and nothing restarts its count of stop cycles.
ShutdownIsFinal ==
    [][ /\ state = "kShutdown" =>
              \/ state' = "kShutdown" /\ stop_cycles' >= stop_cycles
              \/ state' = "kOver"
        /\ state = "kOver" => state' = "kOver" ]_vars

-----------------------------------------------------------------------------
(***************************************************************************)
(* Requests and errors                                                     *)
(***************************************************************************)

\* Request.h: kError is the "Flag set when the last request was invalid".  The
\* state machine has transitions for kStop and kStart wherever the agent may
\* send them, so it never replaces either by kError.
ErrorOnlyForInvalid ==
    [][mmap_request' = "kError" => mmap_request \notin {"kStart", "kStop"}]_vars

Pending == mmap_request \in {"kAction", "kStart", "kStop"}

\* A raised request is the spine's to clear: an agent, even one that gave up
\* waiting or took the place of one that died, never overwrites it.
AgentNeverDropsRequest ==
    [][ Pending /\ mmap_request' # mmap_request => UNCHANGED agent_vars ]_vars

-----------------------------------------------------------------------------
(***************************************************************************)
(* The inductive invariants                                                *)
(***************************************************************************)

\* How the request word hands the buffer from one process to the other: a
\* request stays raised while the spine serves it, is the one the spine is
\* about to dispatch, and is down while the agent is past its wait.
Handshake ==
    /\ state = "kStep" => mmap_request = "kAction"
    /\ state = "kReset" => mmap_request = "kStart"
    /\ agent_pc \notin {"ready", "wait"} => mmap_request \in stop_waiting
    /\ spine_pc = "dispatch" /\ seen \notin stop_waiting => mmap_request = seen
    /\ spine_pc \in {"read_size", "read_data", "write_size", "write_data"} =>
           state \in {"kReset", "kStep"}

\* Where the loop is in its pass, from the two counts of cycles to do.
LoopPosition ==
    /\ spine_pc \in {"write_size", "write_data", "end"} => cycles_before = 0
    /\ spine_pc \in {"commands", "cycle"} =>
           \/ cycles_before > 0
           \/ cycles_after > 0 /\ state \notin {"kReset", "kStep"}

\* The bound on calls: an operation that has yet to number its dictionary was
\* begun with a number left.
CallBudget ==
    /\ agent_pc \in {"assert_write", "write_size", "write_data"} =>
           ~sent /\ op # "stop"
    /\ agent_pc \in {"wait", "check", "assert_write"} /\ ~sent /\ op # "stop" =>
           calls < MaxCalls
    /\ agent_pc \in {"wait", "check", "write_request"}
             /\ op = "stop" /\ method = "reset" =>
           calls < MaxCalls

IInv ==
    /\ TypeOK
    /\ Handshake
    /\ NeverBeginsMidRequest
    /\ LoopPosition
    /\ CallBudget

\* The count of the state machine against the cycles that sent stop commands,
\* in the run loop, whose passes cycle once and before they count (the last
\* one only counts).
StopCount ==
    /\ cycles_after = 0
    /\ spine_pc \notin {"begin", "exit"} => state # "kOver"
    /\ spine_pc # "cycle" /\ stops_cycled > 0 => commands = "kStopped"
    /\ StopsOnBus
    /\ StopsSentBeforeReset
    /\ state \in {"kSendStops", "kShutdown"} =>
          /\ stops_cycled >= stop_cycles \/ stops_cycled = kNbStopCycles
          /\ spine_pc = "end" /\ ~is_over_after_this_cycle =>
                stops_cycled > stop_cycles \/ stops_cycled = kNbStopCycles

\* The count of a shutdown stops short of kNbStopCycles until the state is
\* kOver, which only the end of a pass enters.  When simulating, an exception
\* of a kStep leaves cycles to do after the first count of the shutdown.
ShutdownCount ==
    /\ state = "kShutdown" => stop_cycles < kNbStopCycles
    /\ state = "kOver" => spine_pc \in {"begin", "exit"}
    /\ state = "kShutdown" /\ cycles_after > 0
             /\ (cycles_before > 0 \/ spine_pc = "end") =>
           stop_cycles = 0
    /\ ~Simulating => cycles_after = 0

-----------------------------------------------------------------------------
(***************************************************************************)
(* The inductive invariant of the buffer's contents                        *)
(***************************************************************************)

InRequest == state \in {"kReset", "kStep"}

WithDictionary == mmap_request \in {"kAction", "kStart"}

\* The dictionary that the raised request is about.
requested == [kind |-> IF mmap_request = "kAction" THEN "action" ELSE "config",
              call |-> calls]

\* The observation that answers the last dictionary written.
answer == [kind |-> "observation", call |-> calls]

BufferIs(message) == mmap_size = message /\ mmap_data = message

\* From its request to its observation, the dictionary is in the buffer, then
\* in `served'; neither process meets the other one's half-written message.
Handover ==
    /\ WithDictionary /\ ~(InRequest /\ spine_pc \in {"write_data", "end"}) =>
           BufferIs(requested)
    /\ spine_pc = "read_data" => spine_size = requested
    /\ InRequest /\ spine_pc \in {"commands", "cycle", "write_size",
                                  "write_data", "end"} => served = requested
    /\ spine_pc = "write_data" => mmap_size = answer
    /\ InRequest /\ spine_pc = "end" => BufferIs(answer)
    /\ agent_pc = "write_data" => mmap_size = dictionary
    /\ agent_pc = "write_request" /\ op # "stop" => BufferIs(dictionary)
    /\ agent_pc = "read_data" => agent_size = mmap_size

\* A dictionary that waits to be served is newer than the last one served.
Newer ==
    /\ served.call <= calls
    /\ WithDictionary /\ (InRequest => spine_pc \in {"read_size", "read_data"}) =>
           served.call < calls
    /\ \/ agent_pc \in {"write_size", "write_data"}
       \/ agent_pc = "write_request" /\ op # "stop"
       => served.call < calls

\* Once an operation has raised its request, the buffer belongs to its call.
OwnCall ==
    /\ sent => op # "stop" /\ mmap_size.call = calls /\ mmap_data.call = calls
    /\ agent_pc \in {"assert_read", "read_size", "read_data"} => sent

ShuttingDown == state \in {"kShutdown", "kOver"}

\* reset() writes its configuration to a spine that sends stops: its start()
\* waits for the answer to its stop(), which only an error stands in for.
ResetStopsFirst ==
    op = "start" /\ method # "start" /\ ~ShuttingDown =>
        /\ agent_pc \in {"wait", "check", "assert_write"} /\ ~sent =>
               \/ mmap_request \in {"kStop", "kError"}
               \/ mmap_request = "kNone" /\ state = "kSendStops"
        /\ agent_pc \in {"write_size", "write_data", "write_request"} =>
               state = "kSendStops"
        /\ sent /\ mmap_request = "kStart" => state \in {"kSendStops", "kReset"}

\* An operation that waits finds its request raised, an error or its answer,
\* and only the answer lets it read.
AnswerIsThere ==
    sent /\ method # "start" /\ ~ShuttingDown =>
        /\ agent_pc \in {"wait", "check", "assert_read"} =>
               \/ mmap_request \in {request_of(op), "kError"}
               \/ mmap_request = "kNone" /\ BufferIs(answer)
        /\ agent_pc \in {"read_size", "read_data"} => BufferIs(answer)

DataInv ==
    /\ Handover
    /\ Newer
    /\ OwnCall
    /\ ResetStopsFirst
    /\ AnswerIsThere
    /\ ServesTheRightDictionary
    /\ NeverAnswersAnotherCall
    /\ AnswersItsCallUntilShutdown

-----------------------------------------------------------------------------
(***************************************************************************)
(* Calls, as agents see them                                               *)
(***************************************************************************)

\* What the agent waits for: the dictionary whose request it has raised.
waiting == IF sent /\ agent_pc # "ready" THEN dictionary ELSE Empty

\* The dictionary of the raised request, also when nobody waits for it.
pending == IF WithDictionary THEN requested ELSE Empty

answered == BufferIs(answer)

Calls == INSTANCE CallContract
             WITH NoDictionary <- Empty, call <- calls, taken <- served,
                  over <- ShuttingDown

\* The protocol of the shared memory implements remote calls: each dictionary
\* is taken at most once and in order, and a call returns its observation, or
\* its own dictionary if that was a configuration that start() left unserved,
\* or if the spine shuts down; through timeouts, restarts and exceptions.
ImplementsCalls == Calls!Spec

\* The operation that waits is the one whose request is raised, if any; the
\* buffer has nothing but its dictionary and its answer; and once its request
\* is down, it was answered, or its dictionary was never served.
WaitsForItsOwn ==
    /\ mmap_size.call <= calls
    /\ agent_pc = "write_size" => mmap_size.call < calls
    /\ agent_pc = "write_request" => ~sent
    /\ method = "start" => op = "start"
    /\ sent /\ agent_pc # "ready" =>
        /\ WithDictionary => mmap_request = request_of(op)
        /\ mmap_size \in {dictionary, answer} /\ mmap_data \in {dictionary, answer}
        /\ ~WithDictionary /\ ~ShuttingDown =>
               BufferIs(answer) \/ (served.call < calls /\ BufferIs(dictionary))

-----------------------------------------------------------------------------
(***************************************************************************)
(* Liveness                                                                *)
(***************************************************************************)

SpineEnded == spine_pc \in {"exit", "terminated"}

\* Every operation that waits for the spine is answered before its deadline
\* matters, after any earlier timeout or restart: a call of a method returns,
\* unless the spine's process ends.
CallsReturn == agent_pc # "ready" ~> agent_pc = "ready" \/ SpineEnded

\* A raised request does not stay raised, whatever the agent does after it.
RequestsAreAnswered == Pending ~> ~Pending \/ SpineEnded

\* An interrupt ends the spine's loop, whatever state, request or exception
\* it meets.
InterruptExits == caught_interrupt ~> SpineEnded

=============================================================================
