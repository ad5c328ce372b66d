-------------------------- MODULE SpineSystemProofs --------------------------
(***************************************************************************)
(* Proofs about SpineSystem, for any number of stop cycles, any bound on   *)
(* calls, both loops of the spine and any set of faults.  From a first     *)
(* inductive invariant, IInv: type correctness, and exclusive access to    *)
(* the shared buffer.  From a second one on top of it, DataInv, what is in *)
(* the buffer: calls get their own answers, and are served in order.  From *)
(* the two, that the memory implements the remote calls of CallContract.   *)
(***************************************************************************)
EXTENDS SpineSystem, TLAPS

USE DEF interface_vars, machine_vars, input_vars, servo_vars, loop_vars,
        spine_vars, agent_vars, vars, clears_request, restarts_count,
        enough_stop_cycles, commands_in

-----------------------------------------------------------------------------
(***************************************************************************)
(* The state machine                                                       *)
(***************************************************************************)

\* The counter stop_cycles_ stays in its range, wrap-around included.
LEMMA NextStopCyclesInRange ==
    ASSUME stop_cycles \in 0..(CounterModulus - 1)
    PROVE  next_stop_cycles \in 0..(CounterModulus - 1)
BY StopCyclesAssumption DEF next_stop_cycles

\* Event::kInterrupt ends in kShutdown, and a request it clears is gone.
LEMMA InterruptLemma ==
    ASSUME MachineTypeOK, InterfaceTypeOK, process_interrupt
    PROVE  /\ MachineTypeOK'
           /\ state' = "kShutdown"
           /\ mmap_request' \in {"kNone", mmap_request}
           /\ mmap_request' \in Request
BY StopCyclesAssumption
   DEF MachineTypeOK, InterfaceTypeOK, process_interrupt, enter_state,
       set_request, State, Request

\* Event::kCycleBeginning: the requests that begin kStep and kReset stay
\* raised; the others are answered or left alone.
LEMMA CycleBeginningLemma ==
    ASSUME MachineTypeOK, InterfaceTypeOK, NEW r \in Request,
           process_cycle_beginning(r)
    PROVE  /\ MachineTypeOK'
           /\ mmap_request' \in {"kNone", "kError", mmap_request}
           /\ mmap_request' \in Request
           /\ state \notin {"kStep", "kReset"} =>
                 /\ state' = "kStep" =>
                       r = "kAction" /\ mmap_request' = mmap_request
                 /\ state' = "kReset" =>
                       /\ r = "kStart" /\ mmap_request' = mmap_request
                       /\ state = "kSendStops" /\ stop_cycles >= kNbStopCycles
BY StopCyclesAssumption
   DEF MachineTypeOK, InterfaceTypeOK, process_cycle_beginning, enter_state,
       set_request, State, Request

\* Event::kCycleEnd leaves kStep and kReset.
LEMMA CycleEndLemma ==
    ASSUME MachineTypeOK, InterfaceTypeOK, process_cycle_end
    PROVE  /\ MachineTypeOK'
           /\ mmap_request' \in {"kNone", mmap_request}
           /\ mmap_request' \in Request
           /\ state' \notin {"kStep", "kReset"}
BY StopCyclesAssumption, NextStopCyclesInRange
   DEF MachineTypeOK, InterfaceTypeOK, process_cycle_end, enter_state,
       set_request, State, Request

\* How begin_cycle plans the rest of the pass.
LEMMA BeginCycleReturnsLemma ==
    ASSUME NEW s \in State, begin_cycle_returns(s)
    PROVE  /\ spine_pc' \in {"commands", "write_size", "end"}
           /\ cycles_before' \in 0..3
           /\ cycles_after' \in 0..(NbSubsteps - 1)
           /\ spine_pc' = "commands" <=> cycles_before' > 0
           /\ spine_pc' = "write_size" => s \in {"kReset", "kStep"}
BY SpineAssumption
   DEF begin_cycle_returns, nb_cycles_before, nb_cycles_after, end_cycle_pc,
       State

\* What is parsed from the buffer is a message.
LEMMA ParsedType ==
    ASSUME InterfaceTypeOK, NEW size
    PROVE  parsed(size) \in Message
<1>1. Garbage \in Message
  BY MaxCallsAssumption DEF Garbage, Message, Call
<1>2. QED
  BY <1>1 DEF parsed, InterfaceTypeOK

-----------------------------------------------------------------------------
(***************************************************************************)
(* The invariant holds initially                                           *)
(***************************************************************************)

LEMMA InitIInv == Init => IInv
<1> SUFFICES ASSUME Init PROVE IInv
  OBVIOUS
<1> USE DEF Init, InterfaceInit, SpineInit, MachineInit, AgentInit
<1>1. TypeOK
  <2>1. Empty \in Message /\ 0 \in Call
    BY MaxCallsAssumption DEF Empty, Message, Call
  <2>2. InterfaceTypeOK
    BY <2>1 DEF InterfaceTypeOK, Request
  <2>3. SpineTypeOK
    <3>1. MachineTypeOK /\ stops_cycled \in 0..kNbStopCycles
      BY StopCyclesAssumption DEF MachineTypeOK, State
    <3>2. cycles_before \in 0..3 /\ cycles_after \in 0..(NbSubsteps - 1)
      BY SpineAssumption
    <3>3. caught_interrupt \in BOOLEAN
      BY Zenon
    <3>4. QED
      BY <2>1, <3>1, <3>2, <3>3 DEF SpineTypeOK, SpinePc, Request, Mode
  <2>4. AgentTypeOK
    BY <2>1 DEF AgentTypeOK, AgentPc, Op, Nothing
  <2>5. QED
    BY <2>2, <2>3, <2>4 DEF TypeOK
<1>2. QED
  BY <1>1
     DEF IInv, Handshake, NeverBeginsMidRequest, LoopPosition, CallBudget

-----------------------------------------------------------------------------
(***************************************************************************)
(* Every step of the spine keeps it                                        *)
(***************************************************************************)

LEMMA SpineStepIInv ==
    ASSUME IInv, SpineStep \/ HandleInterrupt, UNCHANGED agent_vars
    PROVE  IInv'
<1> USE DEF IInv, TypeOK, InterfaceTypeOK, SpineTypeOK, MachineTypeOK,
            AgentTypeOK, Handshake, NeverBeginsMidRequest, LoopPosition,
            CallBudget, goto, SpinePc, stop_waiting
<1>1. CASE BeginCycle
  <2>1. CASE caught_interrupt
    <3>1. process_interrupt /\ begin_cycle_returns(state')
      BY <1>1, <2>1 DEF BeginCycle
    <3>2. QED
      BY <1>1, <2>1, <3>1, InterruptLemma, BeginCycleReturnsLemma
         DEF BeginCycle
  <2>2. CASE ~caught_interrupt
    BY <1>1, <2>2 DEF BeginCycle
  <2>3. QED
    BY <2>1, <2>2
<1>2. CASE Exit
  BY <1>2 DEF Exit
<1>3. CASE Dispatch
  <2>1. process_cycle_beginning(seen) /\ spine_pc = "dispatch"
    BY <1>3 DEF Dispatch
  <2>2. CASE state' \in {"kReset", "kStep"}
    BY <1>3, <2>1, <2>2, CycleBeginningLemma DEF Dispatch, Request
  <2>3. CASE state' \notin {"kReset", "kStep"}
    <3>1. begin_cycle_returns(state')
      BY <1>3, <2>3 DEF Dispatch
    <3>2. QED
      BY <1>3, <2>1, <2>3, <3>1, CycleBeginningLemma, BeginCycleReturnsLemma
         DEF Dispatch
  <2>4. QED
    BY <2>2, <2>3
<1>4. CASE ReadSize
  BY <1>4 DEF ReadSize
<1>5. CASE ReadData
  <2>1. served' \in Message
    BY <1>5, ParsedType DEF ReadData
  <2>2. CASE begin_cycle_returns(state) /\ UNCHANGED <<mmap_request, machine_vars>>
    BY <1>5, <2>1, <2>2, BeginCycleReturnsLemma DEF ReadData
  <2>3. CASE process_interrupt /\ begin_cycle_returns(state')
    BY <1>5, <2>1, <2>3, InterruptLemma, BeginCycleReturnsLemma DEF ReadData
  <2>4. CASE goto("terminated") /\ UNCHANGED <<mmap_request, machine_vars>>
    BY <1>5, <2>1, <2>4 DEF ReadData
  <2>5. QED
    BY <1>5, <2>2, <2>3, <2>4 DEF ReadData
<1>6. CASE WriteCommands
  <2>1. CASE UNCHANGED <<mmap_request, machine_vars>>
    BY <1>6, <2>1 DEF WriteCommands, Mode
  <2>2. CASE process_interrupt
    BY <1>6, <2>2, InterruptLemma DEF WriteCommands, Mode
  <2>3. QED
    BY <1>6, <2>1, <2>2 DEF WriteCommands
<1>7. CASE Cycle
  <2>1. stops_cycled' \in 0..kNbStopCycles
    BY <1>7, StopCyclesAssumption DEF Cycle
  <2>2. CASE cycles_before > 0
    BY <1>7, <2>1, <2>2 DEF Cycle, end_cycle_pc
  <2>3. CASE ~(cycles_before > 0)
    BY <1>7, <2>1, <2>3, SpineAssumption DEF Cycle
  <2>4. QED
    BY <2>2, <2>3
<1>8. CASE WriteObservationSize
  <2>1. observation \in Message
    BY DEF observation, Message
  <2>2. QED
    BY <1>8, <2>1 DEF WriteObservationSize, write_size
<1>9. CASE WriteObservation
  <2>1. observation \in Message
    BY DEF observation, Message
  <2>2. QED
    BY <1>9, <2>1 DEF WriteObservation, write_data
<1>10. CASE EndCycle
  <2>1. process_cycle_end /\ spine_pc = "end"
    BY <1>10 DEF EndCycle
  <2>2. QED
    BY <1>10, <2>1, CycleEndLemma DEF EndCycle
<1>11. CASE HandleInterrupt
  BY <1>11 DEF HandleInterrupt
<1>12. QED
  BY <1>1, <1>2, <1>3, <1>4, <1>5, <1>6, <1>7, <1>8, <1>9, <1>10, <1>11
     DEF SpineStep

-----------------------------------------------------------------------------
(***************************************************************************)
(* Every step of the agent keeps it                                        *)
(***************************************************************************)

LEMMA AgentStepIInv ==
    ASSUME IInv, AgentStep \/ CallMethod \/ Restart, UNCHANGED spine_vars
    PROVE  IInv'
<1> USE DEF IInv, TypeOK, InterfaceTypeOK, SpineTypeOK, MachineTypeOK,
            AgentTypeOK, Handshake, NeverBeginsMidRequest, LoopPosition,
            CallBudget, goto_agent, raise, AgentPc, stop_waiting
<1>1. CASE WaitForSpine
  BY <1>1 DEF WaitForSpine
<1>2. CASE WaitTimeout
  BY <1>2 DEF WaitTimeout
<1>3. CASE CheckError
  <2>1. CASE mmap_request = "kError"
    BY <1>3, <2>1 DEF CheckError
  <2>2. CASE mmap_request # "kError" /\ sent
    BY <1>3, <2>2 DEF CheckError
  <2>3. CASE mmap_request # "kError" /\ ~sent /\ op = "stop"
    BY <1>3, <2>3 DEF CheckError
  <2>4. CASE mmap_request # "kError" /\ ~sent /\ op # "stop"
    BY <1>3, <2>4 DEF CheckError
  <2>5. QED
    BY <2>1, <2>2, <2>3, <2>4
<1>4. CASE ClearError
  BY <1>4 DEF ClearError, set_request, Request
<1>5. CASE AssertBeforeWrite
  <2>1. CASE mmap_request = "kNone"
    <3>1. calls' \in Call
      BY <1>5, <2>1, MaxCallsAssumption DEF AssertBeforeWrite, Call
    <3>2. QED
      BY <1>5, <2>1, <3>1 DEF AssertBeforeWrite
  <2>2. CASE mmap_request # "kNone"
    BY <1>5, <2>2 DEF AssertBeforeWrite
  <2>3. QED
    BY <2>1, <2>2
<1>6. dictionary \in Message
  BY DEF dictionary, Message
<1>7. CASE WriteDictSize
  BY <1>6, <1>7 DEF WriteDictSize, write_size
<1>8. CASE WriteDict
  BY <1>6, <1>8 DEF WriteDict, write_data
<1>9. CASE WriteOversizedDict
  BY <1>9 DEF WriteOversizedDict
<1>10. CASE WriteRequest
  <2>1. mmap_request' \in Request
    BY <1>10 DEF WriteRequest, set_request, request_of, Request
  <2>2. QED
    BY <1>10, <2>1 DEF WriteRequest, begin_op, Op
<1>11. CASE AssertBeforeRead
  BY <1>11 DEF AssertBeforeRead
<1>12. CASE ReadDictSize
  BY <1>12 DEF ReadDictSize
<1>13. CASE ReadDict
  <2>1. parsed(agent_size) \in Message
    BY ParsedType
  <2>2. QED
    BY <1>13, <2>1 DEF ReadDict
<1>14. CASE CallMethod
  <2>1. PICK m \in Methods :
           /\ m # "close" => calls < MaxCalls
           /\ method' = m
           /\ begin_op(first_op(m))
    BY <1>14 DEF CallMethod
  <2>2. returned' \in [call: Call, message: Message]
    BY <1>14, MaxCallsAssumption DEF CallMethod, Nothing, Empty, Call, Message
  <2>3. QED
    BY <1>14, <2>1, <2>2, AgentAssumption DEF CallMethod, begin_op, first_op, Op
<1>15. CASE Restart
  BY <1>15 DEF Restart
<1>16. QED
  BY <1>1, <1>2, <1>3, <1>4, <1>5, <1>7, <1>8, <1>9, <1>10, <1>11, <1>12,
     <1>13, <1>14, <1>15
     DEF AgentStep

-----------------------------------------------------------------------------
(***************************************************************************)
(* Theorems                                                                *)
(***************************************************************************)

LEMMA NextIInv == IInv /\ [Next]_vars => IInv'
<1> SUFFICES ASSUME IInv, [Next]_vars PROVE IInv'
  OBVIOUS
<1>1. CASE (SpineStep \/ HandleInterrupt) /\ UNCHANGED agent_vars
  BY <1>1, SpineStepIInv
<1>2. CASE (AgentStep \/ CallMethod \/ Restart) /\ UNCHANGED spine_vars
  BY <1>2, AgentStepIInv
<1>3. CASE UNCHANGED vars
  BY <1>3
     DEF IInv, TypeOK, InterfaceTypeOK, SpineTypeOK, MachineTypeOK,
         AgentTypeOK, Handshake, NeverBeginsMidRequest, LoopPosition, CallBudget
<1>4. QED
  BY <1>1, <1>2, <1>3 DEF Next

THEOREM Invariance == Spec => []IInv
BY InitIInv, NextIInv, PTL DEF Spec

\* Type correctness of the spine, its agent and their shared memory.
THEOREM TypeCorrect == Spec => []TypeOK
<1>1. IInv => TypeOK
  BY DEF IInv
<1>2. QED
  BY <1>1, Invariance, PTL

\* The request word alone keeps the agent's and the spine's accesses to the
\* size word and the buffer apart.
THEOREM BufferIsExclusive == Spec => []ExclusiveBuffer
<1>1. IInv => ExclusiveBuffer
  BY DEF IInv, Handshake, ExclusiveBuffer, AgentUsesBuffer, SpineUsesBuffer,
         stop_waiting
<1>2. QED
  BY <1>1, Invariance, PTL

-----------------------------------------------------------------------------
(***************************************************************************)
(* What the buffer holds: DataInv, next to IInv                            *)
(***************************************************************************)

\* An interrupt answers the request, unless the spine shuts down already.
LEMMA InterruptAnswers ==
    ASSUME process_interrupt
    PROVE  /\ state' = "kShutdown"
           /\ \/ mmap_request' = "kNone"
              \/ state = "kShutdown" /\ mmap_request' = mmap_request
BY DEF process_interrupt, enter_state, set_request

\* Which requests the beginning of a cycle answers at once, and where it goes.
LEMMA CycleBeginningAnswers ==
    ASSUME MachineTypeOK, InterfaceTypeOK, NEW r \in Request,
           process_cycle_beginning(r), state \notin {"kReset", "kStep"},
           r \notin stop_waiting => mmap_request = r
    PROVE  /\ mmap_request' \in {"kNone", "kError", mmap_request}
           /\ mmap_request' = "kNone" /\ mmap_request # "kNone" =>
                 \/ mmap_request = "kStop" /\ state' = "kSendStops"
                 \/ mmap_request = "kStart" /\ state = "kIdle"
           /\ state' = "kStep" => mmap_request = "kAction" /\ UNCHANGED mmap_request
           /\ state' = "kReset" =>
                 /\ mmap_request = "kStart" /\ UNCHANGED mmap_request
                 /\ state = "kSendStops"
           /\ state = "kSendStops" => state' \in {"kSendStops", "kReset"}
           /\ state \in {"kShutdown", "kOver"} =>
                 state' = state /\ UNCHANGED mmap_request
           /\ state' \in {"kShutdown", "kOver"} => state' = state
BY DEF MachineTypeOK, InterfaceTypeOK, process_cycle_beginning, enter_state,
       set_request, State, Request, stop_waiting

\* The end of a cycle answers the request that the spine has served.
LEMMA CycleEndAnswers ==
    ASSUME MachineTypeOK, process_cycle_end
    PROVE  /\ InRequest => state' = "kIdle" /\ mmap_request' = "kNone"
           /\ ~InRequest => UNCHANGED mmap_request
           /\ ~InRequest /\ ~ShuttingDown => UNCHANGED state
           /\ ShuttingDown <=> ShuttingDown'
BY DEF MachineTypeOK, process_cycle_end, enter_state, set_request, State,
       InRequest, ShuttingDown

LEMMA InitData == Init => DataInv
<1> SUFFICES ASSUME Init PROVE DataInv
  OBVIOUS
<1> USE DEF Init, InterfaceInit, SpineInit, MachineInit, AgentInit
<1>1. Handover /\ OwnCall /\ ResetStopsFirst /\ AnswerIsThere
  BY DEF Handover, OwnCall, ResetStopsFirst, AnswerIsThere, WithDictionary,
         InRequest
<1>2. Newer
  BY DEF Newer, WithDictionary, Empty
<1>3. /\ ServesTheRightDictionary
      /\ NeverAnswersAnotherCall
      /\ AnswersItsCallUntilShutdown
  BY DEF ServesTheRightDictionary, NeverAnswersAnotherCall,
         AnswersItsCallUntilShutdown, AnswersItsCall
<1>4. QED
  BY <1>1, <1>2, <1>3 DEF DataInv

\* An interrupt at any point of the pass, the configuration or the action that
\* it met being the last dictionary served or the requested one.
LEMMA InterruptData ==
    ASSUME IInv, DataInv, process_interrupt,
           UNCHANGED <<mmap_size, mmap_data, agent_vars>>,
           \/ served' = served
           \/ spine_pc = "read_data" /\ served' = requested,
           spine_pc' \notin {"read_data", "write_data"}
    PROVE  DataInv'
<1> USE DEF InRequest, WithDictionary
<1>1. /\ state' = "kShutdown"
      /\ \/ mmap_request' = "kNone"
         \/ state = "kShutdown" /\ mmap_request' = mmap_request
  BY InterruptAnswers
<1>2. Handover'
  <2>1. WithDictionary' => BufferIs(requested)'
    BY <1>1 DEF DataInv, Handover, BufferIs, requested
  <2>2. /\ agent_pc = "write_data" => (mmap_size = dictionary)'
        /\ agent_pc = "write_request" /\ op # "stop" => BufferIs(dictionary)'
        /\ agent_pc = "read_data" => (agent_size = mmap_size)'
    BY DEF DataInv, Handover, BufferIs, dictionary
  <2>3. QED
    BY <1>1, <2>1, <2>2 DEF Handover
<1>3. Newer'
  <2>1. CASE served' = served
    BY <1>1, <2>1 DEF DataInv, Newer
  <2>2. CASE spine_pc = "read_data" /\ served' = requested
    <3>1. served'.call = calls /\ calls \in Nat
      BY <2>2 DEF requested, IInv, TypeOK, AgentTypeOK, Call
    <3>2. InRequest /\ mmap_request \notin stop_waiting
      BY <2>2 DEF IInv, Handshake, stop_waiting
    <3>3. agent_pc \in {"ready", "wait"} /\ mmap_request' = "kNone"
      BY <1>1, <3>2 DEF IInv, Handshake
    <3>4. QED
      BY <3>1, <3>3 DEF Newer
  <2>3. QED
    BY <2>1, <2>2
<1>4. OwnCall' /\ NeverAnswersAnotherCall'
  BY DEF DataInv, OwnCall, NeverAnswersAnotherCall
<1>5. QED
  BY <1>1, <1>2, <1>3, <1>4
     DEF DataInv, ResetStopsFirst, AnswerIsThere, ServesTheRightDictionary,
         AnswersItsCallUntilShutdown, ShuttingDown

\* The dispatch of a request: kept while the spine serves it, else answered.
LEMMA DispatchData ==
    ASSUME IInv, DataInv, Dispatch, UNCHANGED agent_vars
    PROVE  DataInv'
<1> USE DEF InRequest, WithDictionary, ShuttingDown
<1>1. /\ spine_pc = "dispatch"
      /\ UNCHANGED <<mmap_size, mmap_data, served>>
      /\ state \notin {"kReset", "kStep"}
      /\ process_cycle_beginning(seen)
      /\ state \in State /\ mmap_request \in Request
  BY DEF Dispatch, IInv, TypeOK, SpineTypeOK, MachineTypeOK, InterfaceTypeOK,
         NeverBeginsMidRequest
<1>2. /\ spine_pc' # "dispatch"
      /\ spine_pc' \notin {"read_data", "write_data"}
      /\ state' \in {"kReset", "kStep"} => spine_pc' = "read_size"
  <2>1. CASE state' \in {"kReset", "kStep"}
    BY <2>1 DEF Dispatch, goto
  <2>2. CASE state' \notin {"kReset", "kStep"}
    BY <2>2 DEF Dispatch, begin_cycle_returns, end_cycle_pc
  <2>3. QED
    BY <2>1, <2>2
<1>3. /\ mmap_request' \in {"kNone", "kError", mmap_request}
      /\ mmap_request' = "kNone" /\ mmap_request # "kNone" =>
            \/ mmap_request = "kStop" /\ state' = "kSendStops"
            \/ mmap_request = "kStart" /\ state = "kIdle"
      /\ state' = "kStep" => mmap_request = "kAction" /\ UNCHANGED mmap_request
      /\ state' = "kReset" =>
            /\ mmap_request = "kStart" /\ UNCHANGED mmap_request
            /\ state = "kSendStops"
      /\ state = "kSendStops" => state' \in {"kSendStops", "kReset"}
      /\ state \in {"kShutdown", "kOver"} =>
            state' = state /\ UNCHANGED mmap_request
      /\ state' \in {"kShutdown", "kOver"} => state' = state
  BY <1>1, CycleBeginningAnswers
     DEF IInv, TypeOK, SpineTypeOK, InterfaceTypeOK, Handshake
<1>4. Handover'
  <2>1. WithDictionary' => BufferIs(requested)'
    BY <1>1, <1>3 DEF DataInv, Handover, BufferIs, requested
  <2>2. /\ agent_pc = "write_data" => (mmap_size = dictionary)'
        /\ agent_pc = "write_request" /\ op # "stop" => BufferIs(dictionary)'
        /\ agent_pc = "read_data" => (agent_size = mmap_size)'
    BY <1>1 DEF DataInv, Handover, BufferIs, dictionary
  <2>3. QED
    BY <1>2, <2>1, <2>2 DEF Handover
<1>5. Newer' /\ OwnCall' /\ NeverAnswersAnotherCall'
  BY <1>1, <1>2, <1>3 DEF DataInv, Newer, OwnCall, NeverAnswersAnotherCall
<1>6. ResetStopsFirst'
  <2> SUFFICES ASSUME op = "start", method # "start", ~ShuttingDown
               PROVE  ResetStopsFirst'
    BY <1>3 DEF ResetStopsFirst
  <2>1. agent_pc \notin {"ready", "wait"} => mmap_request \in stop_waiting
    BY DEF IInv, Handshake
  <2>2. CASE agent_pc \in {"wait", "check", "assert_write"} /\ ~sent
    BY <1>1, <1>3, <2>2 DEF DataInv, ResetStopsFirst
  <2>3. CASE agent_pc \in {"write_size", "write_data", "write_request"}
    BY <1>1, <1>3, <2>1, <2>3 DEF DataInv, ResetStopsFirst, stop_waiting
  <2>4. sent /\ mmap_request' = "kStart" => state' \in {"kSendStops", "kReset"}
    BY <1>1, <1>3 DEF DataInv, ResetStopsFirst
  <2>5. QED
    BY <1>3, <2>2, <2>3, <2>4 DEF ResetStopsFirst, DataInv
<1>7. AnswerIsThere'
  <2> SUFFICES ASSUME sent, method # "start", ~ShuttingDown
               PROVE  AnswerIsThere'
    BY <1>3 DEF AnswerIsThere
  <2>1. BufferIs(answer) => BufferIs(answer)'
    BY <1>1 DEF BufferIs, answer
  <2>2. agent_pc \in {"read_size", "read_data"} => BufferIs(answer)'
    BY <2>1 DEF DataInv, AnswerIsThere
  <2>3. ASSUME agent_pc \in {"wait", "check", "assert_read"}
        PROVE  \/ mmap_request' \in {request_of(op), "kError"}
               \/ mmap_request' = "kNone" /\ BufferIs(answer)'
    <3>1. op # "stop" /\ op \in Op
      BY DEF DataInv, OwnCall, IInv, TypeOK, AgentTypeOK
    <3>2. CASE mmap_request = "kNone" /\ BufferIs(answer)
      BY <1>3, <2>1, <3>2
    <3>3. CASE mmap_request = "kError"
      BY <1>3, <3>3
    <3>4. CASE mmap_request = request_of(op)
      <4>1. mmap_request' # "kNone"
        BY <1>3, <3>1, <3>4 DEF request_of, Op, DataInv, ResetStopsFirst
      <4>2. QED
        BY <1>3, <3>4, <4>1
    <3>5. QED
      BY <2>3, <3>2, <3>3, <3>4 DEF DataInv, AnswerIsThere
  <2>4. QED
    BY <2>2, <2>3 DEF AnswerIsThere, request_of, BufferIs, answer
<1>8. ServesTheRightDictionary'
  BY <1>2 DEF ServesTheRightDictionary
<1>9. AnswersItsCallUntilShutdown'
  BY <1>3 DEF DataInv, AnswersItsCallUntilShutdown, AnswersItsCall
<1>10. QED
  BY <1>4, <1>5, <1>6, <1>7, <1>8, <1>9 DEF DataInv

\* The dictionary read is the one requested, and is served once.
LEMMA ReadIsRequested ==
    ASSUME IInv, DataInv, ReadData
    PROVE  /\ served' = requested
           /\ InRequest /\ WithDictionary
           /\ served.call < calls
<1>1. spine_pc = "read_data" /\ served' = parsed(spine_size)
  BY DEF ReadData
<1>2. InRequest /\ WithDictionary
  BY <1>1 DEF IInv, Handshake, InRequest, WithDictionary
<1>3. mmap_data = requested /\ spine_size = requested
  BY <1>1, <1>2 DEF DataInv, Handover, BufferIs
<1>4. served.call < calls
  BY <1>1, <1>2 DEF DataInv, Newer
<1>5. QED
  BY <1>1, <1>2, <1>3, <1>4 DEF parsed

LEMMA ReadDataData ==
    ASSUME IInv, DataInv, ReadData, UNCHANGED agent_vars
    PROVE  DataInv'
<1>1. /\ served' = requested
      /\ InRequest /\ WithDictionary
  BY ReadIsRequested
<1>2. /\ UNCHANGED <<mmap_size, mmap_data>>
      /\ spine_pc = "read_data"
      /\ spine_pc' \notin {"read_size", "read_data", "write_data"}
  BY DEF ReadData, goto, begin_cycle_returns, end_cycle_pc
<1>3. CASE process_interrupt
  BY <1>1, <1>2, <1>3, InterruptData
<1>4. CASE UNCHANGED <<mmap_request, machine_vars>>
  <2>1. UNCHANGED <<requested, dictionary, answer>>
    BY <1>4 DEF requested, dictionary, answer
  <2>2. agent_pc \in {"ready", "wait"}
    BY <1>1 DEF IInv, Handshake, WithDictionary, stop_waiting
  <2>3. Handover'
    <3>1. BufferIs(requested)'
      BY <1>1, <1>2, <2>1 DEF DataInv, Handover, BufferIs
    <3>2. spine_pc' # "end"
      BY <1>1, <1>4
         DEF ReadData, InRequest, goto, begin_cycle_returns, end_cycle_pc
    <3>3. QED
      BY <1>1, <1>2, <2>1, <2>2, <3>1, <3>2 DEF Handover
  <2>4. Newer'
    <3>1. served'.call = calls' /\ calls' \in Nat
      BY <1>1 DEF requested, IInv, TypeOK, AgentTypeOK, Call
    <3>2. QED
      BY <1>1, <1>2, <1>4, <2>2, <3>1 DEF Newer, InRequest
  <2>5. OwnCall' /\ NeverAnswersAnotherCall'
    BY <1>2 DEF DataInv, OwnCall, NeverAnswersAnotherCall
  <2>6. ResetStopsFirst' /\ AnswerIsThere'
    BY <1>2, <1>4, <2>1
       DEF DataInv, ResetStopsFirst, AnswerIsThere, BufferIs, ShuttingDown
  <2>7. ServesTheRightDictionary'
    BY <1>1, <1>4
       DEF IInv, Handshake, ServesTheRightDictionary, requested
  <2>8. AnswersItsCallUntilShutdown'
    BY <1>4 DEF DataInv, AnswersItsCallUntilShutdown, AnswersItsCall
  <2>9. QED
    BY <2>3, <2>4, <2>5, <2>6, <2>7, <2>8 DEF DataInv
<1>5. QED
  BY <1>3, <1>4 DEF ReadData

\* The end of the cycle: the answer is in the buffer when the request falls.
LEMMA EndCycleData ==
    ASSUME IInv, DataInv, EndCycle, UNCHANGED agent_vars
    PROVE  DataInv'
<1> USE DEF WithDictionary
<1>1. /\ spine_pc = "end" /\ spine_pc' \in {"commands", "begin"}
      /\ UNCHANGED <<mmap_size, mmap_data, served, answer, dictionary>>
      /\ process_cycle_end
  BY DEF EndCycle, goto, answer, dictionary
<1>2. /\ InRequest => state' = "kIdle" /\ mmap_request' = "kNone"
      /\ ~InRequest => UNCHANGED mmap_request
      /\ ~InRequest /\ ~ShuttingDown => UNCHANGED state
      /\ ShuttingDown <=> ShuttingDown'
  BY <1>1, CycleEndAnswers DEF IInv, TypeOK, SpineTypeOK
<1>3. ~InRequest'
  BY <1>2 DEF InRequest, ShuttingDown
<1>4. Handover'
  <2>1. WithDictionary' => BufferIs(requested)'
    BY <1>1, <1>2 DEF DataInv, Handover, BufferIs, requested
  <2>2. QED
    BY <1>1, <1>3, <2>1 DEF DataInv, Handover, BufferIs
<1>5. Newer'
  BY <1>1, <1>2 DEF DataInv, Newer
<1>6. OwnCall' /\ NeverAnswersAnotherCall'
  BY <1>1 DEF DataInv, OwnCall, NeverAnswersAnotherCall
<1>7. ResetStopsFirst'
  BY <1>2 DEF DataInv, ResetStopsFirst, IInv, Handshake, InRequest, stop_waiting
<1>8. AnswerIsThere'
  <2>1. CASE InRequest
    BY <1>1, <1>2, <2>1 DEF DataInv, Handover, AnswerIsThere, BufferIs
  <2>2. CASE ~InRequest
    BY <1>1, <1>2, <2>2 DEF DataInv, AnswerIsThere, BufferIs
  <2>3. QED
    BY <2>1, <2>2
<1>9. ServesTheRightDictionary'
  BY <1>3 DEF ServesTheRightDictionary, InRequest
<1>10. AnswersItsCallUntilShutdown'
  BY <1>2
     DEF DataInv, AnswersItsCallUntilShutdown, AnswersItsCall, ShuttingDown
<1>11. QED
  BY <1>4, <1>5, <1>6, <1>7, <1>8, <1>9, <1>10 DEF DataInv

LEMMA SpineStepData ==
    ASSUME IInv, DataInv, SpineStep \/ HandleInterrupt, UNCHANGED agent_vars
    PROVE  DataInv'
<1> USE DEF DataInv, Handover, Newer, OwnCall, ResetStopsFirst, AnswerIsThere,
            ServesTheRightDictionary, NeverAnswersAnotherCall,
            AnswersItsCallUntilShutdown, AnswersItsCall, WithDictionary,
            InRequest, ShuttingDown, BufferIs, requested, answer, dictionary,
            goto
<1>1. CASE BeginCycle
  <2>1. CASE caught_interrupt
    <3>1. /\ process_interrupt
          /\ UNCHANGED <<mmap_size, mmap_data, served>>
          /\ spine_pc' \notin {"read_data", "write_data"}
      BY <1>1, <2>1 DEF BeginCycle, begin_cycle_returns, end_cycle_pc
    <3>2. QED
      BY <3>1, InterruptData
  <2>2. CASE ~caught_interrupt
    BY <1>1, <2>2 DEF BeginCycle, IInv, NeverBeginsMidRequest
  <2>3. QED
    BY <2>1, <2>2
<1>2. CASE Exit
  BY <1>2 DEF Exit
<1>3. CASE Dispatch
  BY <1>3, DispatchData
<1>4. CASE ReadSize
  BY <1>4 DEF ReadSize, IInv, Handshake
<1>5. CASE ReadData
  BY <1>5, ReadDataData
<1>6. CASE WriteCommands
  <2>1. CASE UNCHANGED <<mmap_request, machine_vars>>
    BY <1>6, <2>1 DEF WriteCommands
  <2>2. CASE process_interrupt
    <3>1. /\ UNCHANGED <<mmap_size, mmap_data, served>>
          /\ spine_pc' \notin {"read_data", "write_data"}
      BY <1>6 DEF WriteCommands
    <3>2. QED
      BY <2>2, <3>1, InterruptData
  <2>3. QED
    BY <1>6, <2>1, <2>2 DEF WriteCommands
<1>7. CASE Cycle
  <2>1. CASE cycles_before > 0
    BY <1>7, <2>1 DEF Cycle, end_cycle_pc
  <2>2. CASE ~(cycles_before > 0)
    BY <1>7, <2>2, SpineAssumption DEF Cycle, IInv, LoopPosition
  <2>3. QED
    BY <2>1, <2>2
<1>8. CASE WriteObservationSize
  BY <1>8
     DEF WriteObservationSize, write_size, observation, IInv, Handshake,
         stop_waiting
<1>9. CASE WriteObservation
  BY <1>9
     DEF WriteObservation, write_data, observation, IInv, Handshake,
         stop_waiting
<1>10. CASE EndCycle
  BY <1>10, EndCycleData
<1>11. CASE HandleInterrupt
  BY <1>11 DEF HandleInterrupt
<1>12. QED
  BY <1>1, <1>2, <1>3, <1>4, <1>5, <1>6, <1>7, <1>8, <1>9, <1>10, <1>11
     DEF SpineStep

\* An agent past its wait has the buffer for itself.
LEMMA BufferIsTheAgents ==
    ASSUME IInv, agent_pc \notin {"ready", "wait"}
    PROVE  /\ ~WithDictionary /\ ~InRequest
           /\ mmap_request \in stop_waiting
           /\ spine_pc \notin {"read_size", "read_data",
                               "write_size", "write_data"}
BY DEF IInv, Handshake, WithDictionary, InRequest, stop_waiting

LEMMA ServedCallInNat == IInv => served.call \in Nat
BY DEF IInv, TypeOK, SpineTypeOK, Message, Call

LEMMA AgentStepData ==
    ASSUME IInv, DataInv, AgentStep \/ CallMethod \/ Restart,
           UNCHANGED spine_vars
    PROVE  DataInv'
<1> USE DEF DataInv, Handover, Newer, OwnCall, ResetStopsFirst, AnswerIsThere,
            ServesTheRightDictionary, NeverAnswersAnotherCall,
            AnswersItsCallUntilShutdown, AnswersItsCall, WithDictionary,
            InRequest, ShuttingDown, BufferIs, goto_agent, raise
<1>1. CASE WaitForSpine
  BY <1>1 DEF WaitForSpine, requested, answer, dictionary
<1>2. CASE WaitTimeout
  BY <1>2 DEF WaitTimeout, requested, answer, dictionary
<1>3. CASE CheckError
  BY <1>3 DEF CheckError, requested, answer, dictionary
<1>4. CASE ClearError
  BY <1>4, BufferIsTheAgents DEF ClearError, set_request, answer, dictionary
<1>5. CASE AssertBeforeWrite
  <2>1. CASE mmap_request = "kNone"
    <3>1. ~sent /\ op # "stop" /\ agent_pc' = "write_size" /\ calls' = calls + 1
      BY <1>5, <2>1 DEF AssertBeforeWrite, IInv, CallBudget
    <3>2. ~WithDictionary /\ ~InRequest /\ spine_pc # "read_data"
                          /\ spine_pc # "write_data"
      BY <1>5, BufferIsTheAgents DEF AssertBeforeWrite
    <3>3. served.call < calls'
      BY <3>1, ServedCallInNat DEF IInv, TypeOK, AgentTypeOK, Call
    <3>4. UNCHANGED <<interface_vars, op, method, sent, returned>>
      BY <1>5, <2>1 DEF AssertBeforeWrite
    <3>5. ResetStopsFirst'
      BY <1>5, <2>1, <3>1, <3>4 DEF AssertBeforeWrite
    <3>6. Handover'
      BY <3>1, <3>2, <3>4
    <3>7. Newer'
      <4>1. served.call \in Nat /\ calls' \in Nat
        BY <3>1, ServedCallInNat DEF IInv, TypeOK, AgentTypeOK, Call
      <4>2. QED
        BY <3>3, <4>1
    <3>8. QED
      BY <3>1, <3>2, <3>4, <3>5, <3>6, <3>7
  <2>2. CASE mmap_request # "kNone"
    BY <1>5, <2>2 DEF AssertBeforeWrite, requested, answer, dictionary
  <2>3. QED
    BY <2>1, <2>2
<1>6. CASE WriteDictSize
  BY <1>6, BufferIsTheAgents
     DEF WriteDictSize, write_size, requested, answer, dictionary
<1>7. CASE WriteDict
  BY <1>7, BufferIsTheAgents
     DEF WriteDict, write_data, requested, answer, dictionary
<1>8. CASE WriteOversizedDict
  BY <1>8 DEF WriteOversizedDict, requested, answer, dictionary
<1>9. CASE WriteRequest
  <2>1. /\ agent_pc = "write_request" /\ mmap_request' = request_of(op)
        /\ UNCHANGED <<mmap_size, mmap_data, method, calls, agent_size,
                        returned, answer>>
    BY <1>9 DEF WriteRequest, set_request, answer
  <2>2. /\ ~InRequest
        /\ spine_pc \notin {"read_data", "write_data"}
    BY <2>1, BufferIsTheAgents
  <2>3. CASE op = "stop"
    <3>1. mmap_request' = "kStop"
      BY <2>1, <2>3 DEF request_of
    <3>2. ~sent
      BY <2>3
    <3>3. ~sent' /\ agent_pc' \in {"wait", "ready"}
      BY <1>9, <2>3, <3>2 DEF WriteRequest, begin_op
    <3>4. QED
      BY <2>1, <2>2, <3>1, <3>3
  <2>4. CASE op # "stop"
    <3>1. sent' /\ agent_pc' = "wait" /\ UNCHANGED op
      BY <1>9, <2>4 DEF WriteRequest
    <3>2. requested' = dictionary /\ BufferIs(dictionary) /\ served.call < calls
      BY <2>1, <2>4, <3>1
         DEF requested, dictionary, request_of, IInv, TypeOK, AgentTypeOK, Op
    <3>3. Handover' /\ Newer'
      BY <2>1, <2>2, <2>4, <3>1, <3>2
    <3>4. dictionary.call = calls
      BY DEF dictionary
    <3>5. OwnCall'
      BY <2>1, <2>4, <3>1, <3>2, <3>4
    <3>6. ResetStopsFirst' /\ AnswerIsThere'
      BY <2>1, <2>4, <3>1 DEF request_of
    <3>7. QED
      BY <2>1, <2>2, <3>1, <3>3, <3>5, <3>6
  <2>5. QED
    BY <2>3, <2>4
<1>10. CASE AssertBeforeRead
  <2>1. CASE mmap_request = "kNone"
    BY <1>10, <2>1
       DEF AssertBeforeRead, requested, answer, dictionary, request_of
  <2>2. CASE mmap_request # "kNone"
    BY <1>10, <2>2 DEF AssertBeforeRead, requested, answer, dictionary
  <2>3. QED
    BY <2>1, <2>2
<1>11. CASE ReadDictSize
  BY <1>11 DEF ReadDictSize, requested, answer, dictionary
<1>12. CASE ReadDict
  BY <1>12 DEF ReadDict, parsed, requested, answer, dictionary
<1>13. CASE CallMethod
  BY <1>13 DEF CallMethod, begin_op, first_op, requested, answer, dictionary
<1>14. CASE Restart
  BY <1>14 DEF Restart, requested, answer, dictionary
<1>15. QED
  BY <1>1, <1>2, <1>3, <1>4, <1>5, <1>6, <1>7, <1>8, <1>9, <1>10, <1>11,
     <1>12, <1>13, <1>14
     DEF AgentStep

LEMMA NextData == IInv /\ DataInv /\ [Next]_vars => DataInv'
<1> SUFFICES ASSUME IInv, DataInv, [Next]_vars PROVE DataInv'
  OBVIOUS
<1>1. CASE (SpineStep \/ HandleInterrupt) /\ UNCHANGED agent_vars
  BY <1>1, SpineStepData
<1>2. CASE (AgentStep \/ CallMethod \/ Restart) /\ UNCHANGED spine_vars
  BY <1>2, AgentStepData
<1>3. CASE UNCHANGED vars
  BY <1>3
     DEF DataInv, Handover, Newer, OwnCall, ResetStopsFirst, AnswerIsThere,
         ServesTheRightDictionary, NeverAnswersAnotherCall,
         AnswersItsCallUntilShutdown, AnswersItsCall, WithDictionary,
         InRequest, ShuttingDown, BufferIs, requested, answer, dictionary
<1>4. QED
  BY <1>1, <1>2, <1>3 DEF Next

THEOREM DataInvariance == Spec => [](IInv /\ DataInv)
<1>1. Init => IInv /\ DataInv
  BY InitIInv, InitData
<1>2. IInv /\ DataInv /\ [Next]_vars => (IInv /\ DataInv)'
  BY NextIInv, NextData
<1>3. QED
  BY <1>1, <1>2, PTL DEF Spec

\* The dictionary that the spine serves is whole and of the sort that the
\* state expects, whatever times out, dies or throws.
THEOREM RightDictionary == Spec => []ServesTheRightDictionary
<1>1. DataInv => ServesTheRightDictionary
  BY DEF DataInv
<1>2. QED
  BY <1>1, DataInvariance, PTL

\* No operation of the agent returns a dictionary of another call.
THEOREM AnswersOwnCall == Spec => []NeverAnswersAnotherCall
<1>1. DataInv => NeverAnswersAnotherCall
  BY DEF DataInv
<1>2. QED
  BY <1>1, DataInvariance, PTL

\* Until the spine shuts down, the methods of the environment return the
\* observation that follows the dictionary they wrote.
THEOREM AnswersUntilShutdown == Spec => []AnswersItsCallUntilShutdown
<1>1. DataInv => AnswersItsCallUntilShutdown
  BY DEF DataInv
<1>2. QED
  BY <1>1, DataInvariance, PTL

\* The spine takes every dictionary at most once, in the order of the calls.
THEOREM ServedInOrder == Spec => ServedOnceInOrder
<1>1. IInv /\ DataInv /\ [Next]_vars => [ReadData => served'.call > served.call]_vars
  <2> SUFFICES ASSUME IInv, DataInv, ReadData
               PROVE  served'.call > served.call
    OBVIOUS
  <2>1. served'.call = calls
    BY ReadIsRequested DEF requested
  <2>2. served.call < calls
    BY ReadIsRequested
  <2>3. served.call \in Nat /\ calls \in Nat
    BY ServedCallInNat DEF IInv, TypeOK, AgentTypeOK, Call
  <2>4. QED
    BY <2>1, <2>2, <2>3
<1>2. QED
  BY <1>1, DataInvariance, PTL DEF Spec, ServedOnceInOrder

\* A raised request changes by a step of the spine only: the agent's writes of
\* the request word come after its wait, which a raised request does not end.
THEOREM RequestIsTheSpines == Spec => AgentNeverDropsRequest
<1>1. IInv /\ [Next]_vars =>
        [Pending /\ mmap_request' # mmap_request => UNCHANGED agent_vars]_vars
  <2> SUFFICES ASSUME IInv, Next, Pending, mmap_request' # mmap_request
               PROVE  UNCHANGED agent_vars
    OBVIOUS
  <2>1. agent_pc \in {"ready", "wait"}
    BY DEF IInv, Handshake, Pending, stop_waiting
  <2>2. ~AgentStep /\ ~CallMethod /\ ~Restart
    BY <2>1
       DEF AgentStep, CallMethod, Restart, WaitForSpine, WaitTimeout,
           CheckError, ClearError, AssertBeforeWrite, WriteDictSize, WriteDict,
           WriteOversizedDict, WriteRequest, AssertBeforeRead, ReadDictSize,
           ReadDict
  <2>3. QED
    BY <2>2 DEF Next
<1>2. QED
  BY <1>1, Invariance, PTL DEF Spec, AgentNeverDropsRequest

-----------------------------------------------------------------------------
(***************************************************************************)
(* Calls, as agents see them: refinement of CallContract                   *)
(***************************************************************************)

LEMMA InitWaits == Init => WaitsForItsOwn
BY DEF Init, InterfaceInit, SpineInit, MachineInit, AgentInit, WaitsForItsOwn,
       Empty

\* Every step of the spine but those that write the observation leaves the
\* buffer, and either keeps the request or the spine shuts down.
LEMMA WaitsQuietly ==
    ASSUME WaitsForItsOwn, UNCHANGED <<mmap_size, mmap_data, agent_vars>>,
           \/ ShuttingDown' /\ mmap_request' \in {"kNone", mmap_request}
           \/ UNCHANGED <<mmap_request, state>>
                /\ (WithDictionary \/ served' = served)
    PROVE  WaitsForItsOwn'
<1>1. dictionary' = dictionary /\ answer' = answer
  BY DEF dictionary, answer
<1>2. QED
  BY <1>1
     DEF WaitsForItsOwn, WithDictionary, ShuttingDown, BufferIs, request_of

\* A request that the spine clears or refuses at once was not served, and its
\* dictionary is still there.
LEMMA DispatchWaits ==
    ASSUME IInv, DataInv, WaitsForItsOwn, Dispatch, UNCHANGED agent_vars
    PROVE  WaitsForItsOwn'
<1>1. /\ spine_pc = "dispatch"
      /\ UNCHANGED <<mmap_size, mmap_data, served>>
      /\ state \notin {"kReset", "kStep"}
      /\ process_cycle_beginning(seen)
  BY DEF Dispatch, IInv, NeverBeginsMidRequest
<1>2. /\ mmap_request' \in {"kNone", "kError", mmap_request}
      /\ state \in {"kShutdown", "kOver"} =>
            state' = state /\ UNCHANGED mmap_request
  BY <1>1, CycleBeginningAnswers
     DEF IInv, TypeOK, SpineTypeOK, InterfaceTypeOK, Handshake
<1>3. /\ dictionary' = dictionary /\ answer' = answer
      /\ request_of(op)' = request_of(op)
  BY DEF dictionary, answer, request_of
<1>4. ASSUME WithDictionary, sent, agent_pc # "ready"
      PROVE  served.call < calls /\ BufferIs(dictionary)
  <2>1. served.call < calls /\ BufferIs(requested)
    BY <1>1, <1>4 DEF DataInv, Newer, Handover, InRequest
  <2>2. mmap_request = request_of(op) /\ op \in Op
    BY <1>4 DEF WaitsForItsOwn, IInv, TypeOK, AgentTypeOK
  <2>3. requested = dictionary
    BY <1>4, <2>2
       DEF requested, dictionary, request_of, Op, WithDictionary
  <2>4. QED
    BY <2>1, <2>3
<1>5. ASSUME sent', agent_pc' # "ready", ~WithDictionary', ~ShuttingDown'
      PROVE  BufferIs(answer)' \/ (served.call < calls /\ BufferIs(dictionary))'
  <2>1. ~ShuttingDown
    BY <1>2, <1>5 DEF ShuttingDown
  <2>2. CASE WithDictionary
    BY <1>1, <1>3, <1>4, <1>5, <2>2 DEF BufferIs
  <2>3. CASE ~WithDictionary
    BY <1>1, <1>3, <1>5, <2>1, <2>3 DEF WaitsForItsOwn, BufferIs
  <2>4. QED
    BY <2>2, <2>3
<1>6. sent' /\ agent_pc' # "ready" /\ WithDictionary' =>
        mmap_request' = request_of(op)'
  BY <1>2, <1>3 DEF WaitsForItsOwn, WithDictionary
<1>7. QED
  BY <1>1, <1>3, <1>5, <1>6 DEF WaitsForItsOwn

\* The observation written belongs to the current call.
LEMMA ObservationIsTheAnswer ==
    ASSUME IInv, DataInv, spine_pc \in {"write_size", "write_data"}
    PROVE  /\ InRequest /\ WithDictionary
           /\ served = requested /\ observation = answer
<1>1. InRequest /\ WithDictionary
  BY DEF IInv, Handshake, InRequest, WithDictionary
<1>2. served = requested
  BY <1>1 DEF DataInv, Handover
<1>3. QED
  BY <1>1, <1>2 DEF requested, observation, answer

LEMMA SpineStepWaits ==
    ASSUME IInv, DataInv, WaitsForItsOwn, SpineStep \/ HandleInterrupt,
           UNCHANGED agent_vars
    PROVE  WaitsForItsOwn'
<1> USE DEF goto
\* Interrupts
<1>0. ASSUME process_interrupt
      PROVE  ShuttingDown' /\ mmap_request' \in {"kNone", mmap_request}
  BY <1>0, InterruptAnswers DEF ShuttingDown
<1>1. CASE BeginCycle
  BY <1>0, <1>1, WaitsQuietly DEF BeginCycle
<1>2. CASE Exit
  BY <1>2, WaitsQuietly DEF Exit
<1>3. CASE Dispatch
  BY <1>3, DispatchWaits
<1>4. CASE ReadSize
  BY <1>4, WaitsQuietly DEF ReadSize
<1>5. CASE ReadData
  <2>1. WithDictionary /\ UNCHANGED <<mmap_size, mmap_data>>
    BY <1>5, ReadIsRequested DEF ReadData
  <2>2. QED
    BY <1>0, <1>5, <2>1, WaitsQuietly DEF ReadData
<1>6. CASE WriteCommands
  BY <1>0, <1>6, WaitsQuietly DEF WriteCommands
<1>7. CASE Cycle
  BY <1>7, WaitsQuietly DEF Cycle
<1>8. CASE WriteObservationSize \/ WriteObservation
  <2>1. /\ spine_pc \in {"write_size", "write_data"}
        /\ UNCHANGED <<mmap_request, state, served>>
        /\ mmap_size' \in {mmap_size, observation}
        /\ mmap_data' \in {mmap_data, observation}
    BY <1>8 DEF WriteObservationSize, WriteObservation, write_size, write_data
  <2>2. WithDictionary /\ observation = answer
    BY <2>1, ObservationIsTheAnswer
  <2>3. agent_pc \in {"ready", "wait"}
    BY <2>2, BufferIsTheAgents
  <2>4. dictionary' = dictionary /\ answer' = answer /\ answer.call = calls
    BY DEF dictionary, answer
  <2>5. calls \in Nat
    BY DEF IInv, TypeOK, AgentTypeOK, Call
  <2>6. QED
    BY <2>1, <2>2, <2>3, <2>4, <2>5
       DEF WaitsForItsOwn, WithDictionary, request_of
<1>9. CASE EndCycle
  <2>1. /\ spine_pc = "end" /\ UNCHANGED <<mmap_size, mmap_data, served>>
        /\ process_cycle_end
    BY <1>9 DEF EndCycle
  <2>2. /\ InRequest => state' = "kIdle" /\ mmap_request' = "kNone"
        /\ ~InRequest => UNCHANGED mmap_request
        /\ ~InRequest /\ ~ShuttingDown => UNCHANGED state
        /\ ShuttingDown <=> ShuttingDown'
    BY <2>1, CycleEndAnswers DEF IInv, TypeOK, SpineTypeOK
  <2>3. CASE InRequest
    <3>1. BufferIs(answer) /\ dictionary' = dictionary /\ answer' = answer
      BY <2>1, <2>3 DEF DataInv, Handover, dictionary, answer
    <3>2. QED
      BY <2>1, <2>2, <2>3, <3>1 DEF WaitsForItsOwn, WithDictionary, BufferIs
  <2>4. CASE ShuttingDown /\ ~InRequest
    BY <2>1, <2>2, <2>4, WaitsQuietly
  <2>5. CASE ~ShuttingDown /\ ~InRequest
    BY <2>1, <2>2, <2>5, WaitsQuietly
  <2>6. QED
    BY <2>3, <2>4, <2>5
<1>10. CASE HandleInterrupt
  BY <1>10, WaitsQuietly DEF HandleInterrupt
<1>11. QED
  BY <1>1, <1>2, <1>3, <1>4, <1>5, <1>6, <1>7, <1>8, <1>9, <1>10
     DEF SpineStep


LEMMA AgentStepWaits ==
    ASSUME IInv, DataInv, WaitsForItsOwn, AgentStep \/ CallMethod \/ Restart,
           UNCHANGED spine_vars
    PROVE  WaitsForItsOwn'
<1> USE DEF WaitsForItsOwn, WithDictionary, ShuttingDown, BufferIs, goto_agent,
            raise
<1>1. CASE WaitForSpine
  BY <1>1 DEF WaitForSpine, dictionary, answer, request_of
<1>2. CASE WaitTimeout
  BY <1>2 DEF WaitTimeout
<1>3. CASE CheckError
  BY <1>3 DEF CheckError, dictionary, answer, request_of
<1>4. CASE ClearError
  BY <1>4 DEF ClearError
<1>5. CASE AssertBeforeWrite
  <2>1. CASE mmap_request = "kNone"
    <3>1. ~sent /\ calls' = calls + 1 /\ UNCHANGED <<mmap_size, method, op, sent>>
      BY <1>5, <2>1 DEF AssertBeforeWrite, IInv, CallBudget
    <3>2. mmap_size.call \in Nat /\ calls \in Nat
      BY DEF IInv, TypeOK, InterfaceTypeOK, AgentTypeOK, Message, Call
    <3>3. mmap_size'.call <= calls' /\ mmap_size'.call < calls'
      BY <3>1, <3>2
    <3>4. QED
      BY <3>1, <3>3
  <2>2. CASE mmap_request # "kNone"
    BY <1>5, <2>2 DEF AssertBeforeWrite
  <2>3. QED
    BY <2>1, <2>2
<1>6. CASE WriteDictSize
  <2>1. /\ mmap_size' = dictionary /\ dictionary.call = calls
        /\ ~sent /\ UNCHANGED <<method, op, sent, calls>>
        /\ agent_pc' = "write_data"
    BY <1>6 DEF WriteDictSize, write_size, dictionary, IInv, CallBudget
  <2>2. calls \in Nat
    BY DEF IInv, TypeOK, AgentTypeOK, Call
  <2>3. QED
    BY <2>1, <2>2
<1>7. CASE WriteDict
  BY <1>7 DEF WriteDict, write_data, IInv, CallBudget
<1>8. CASE WriteOversizedDict
  BY <1>8 DEF WriteOversizedDict
<1>9. CASE WriteRequest
  <2>1. CASE op = "stop"
    <3>1. ~sent'
      BY <1>9, <2>1 DEF WriteRequest, begin_op, DataInv, OwnCall
    <3>2. /\ UNCHANGED <<mmap_size, method, calls>>
          /\ agent_pc' # "write_size"
          /\ method = "start" => op' = "start"
      BY <1>9, <2>1 DEF WriteRequest, begin_op
    <3>3. QED
      BY <3>1, <3>2
  <2>2. CASE op # "stop"
    <3>1. /\ BufferIs(dictionary)
          /\ agent_pc' = "wait" /\ mmap_request' = request_of(op)
          /\ UNCHANGED <<mmap_size, mmap_data, method, op, calls>>
      BY <1>9, <2>2 DEF WriteRequest, set_request, DataInv, Handover
    <3>2. request_of(op) \in {"kAction", "kStart"}
      BY <2>2 DEF request_of, IInv, TypeOK, AgentTypeOK, Op
    <3>3. dictionary' = dictionary /\ request_of(op)' = request_of(op)
      BY <3>1 DEF dictionary, request_of
    <3>4. QED
      BY <3>1, <3>2, <3>3
  <2>3. QED
    BY <2>1, <2>2
<1>10. CASE AssertBeforeRead
  BY <1>10 DEF AssertBeforeRead, dictionary, answer, request_of
<1>11. CASE ReadDictSize
  BY <1>11 DEF ReadDictSize, dictionary, answer, request_of
<1>12. CASE ReadDict
  BY <1>12 DEF ReadDict
<1>13. CASE CallMethod
  BY <1>13 DEF CallMethod, begin_op, first_op
<1>14. CASE Restart
  BY <1>14 DEF Restart
<1>15. QED
  BY <1>1, <1>2, <1>3, <1>4, <1>5, <1>6, <1>7, <1>8, <1>9, <1>10, <1>11,
     <1>12, <1>13, <1>14
     DEF AgentStep

LEMMA NextWaits ==
    IInv /\ DataInv /\ WaitsForItsOwn /\ [Next]_vars => WaitsForItsOwn'
<1> SUFFICES ASSUME IInv, DataInv, WaitsForItsOwn, [Next]_vars
             PROVE  WaitsForItsOwn'
  OBVIOUS
<1>1. CASE (SpineStep \/ HandleInterrupt) /\ UNCHANGED agent_vars
  BY <1>1, SpineStepWaits
<1>2. CASE (AgentStep \/ CallMethod \/ Restart) /\ UNCHANGED spine_vars
  BY <1>2, AgentStepWaits
<1>3. CASE UNCHANGED vars
  BY <1>3
     DEF WaitsForItsOwn, WithDictionary, ShuttingDown, BufferIs, request_of,
         dictionary, answer
<1>4. QED
  BY <1>1, <1>2, <1>3 DEF Next

\* An agent that waits for an answer waits for its own, whatever the spine and
\* the agents before it went through.
THEOREM WaitsInvariance == Spec => []WaitsForItsOwn
<1>1. Init => WaitsForItsOwn
  BY InitWaits
<1>2. IInv /\ DataInv /\ WaitsForItsOwn /\ [Next]_vars => WaitsForItsOwn'
  BY NextWaits
<1>3. QED
  BY <1>1, <1>2, DataInvariance, PTL DEF Spec

-----------------------------------------------------------------------------
\* The initial states are those of CallContract.
LEMMA InitRefinesCalls == Init => Calls!Init
BY DEF Init, InterfaceInit, SpineInit, MachineInit, AgentInit, Calls!Init,
       Calls!Nothing, Nothing, waiting, pending, answered, WithDictionary,
       BufferIs, answer, Empty, ShuttingDown

\* What callers see does not change with a step that leaves the request, the
\* buffer, the last dictionary served and the phase of the spine.
LEMMA SpineStutters ==
    ASSUME UNCHANGED <<agent_vars, served>>, pending' = pending,
           answered' = answered, ShuttingDown' = ShuttingDown
    PROVE  UNCHANGED Calls!vars
<1>1. waiting' = waiting
  BY DEF waiting, dictionary
<1>2. QED
  BY <1>1 DEF Calls!vars

LEMMA BufferKeepsAnswer ==
    ASSUME UNCHANGED <<mmap_size, mmap_data, calls>>
    PROVE  answered' = answered
<1>1. answer' = answer
  BY DEF answer
<1>2. QED
  BY <1>1 DEF answered, BufferIs

LEMMA RequestKeepsPending ==
    ASSUME UNCHANGED calls,
           UNCHANGED mmap_request \/ (~WithDictionary /\ ~WithDictionary')
    PROVE  pending' = pending
BY DEF pending, requested, WithDictionary

\* An interrupt anywhere but in ReadData: ShutDown, if there was none before.
LEMMA InterruptRefines ==
    ASSUME process_interrupt,
           UNCHANGED <<mmap_size, mmap_data, served, agent_vars>>
    PROVE  [Calls!Next]_(Calls!vars)
<1>1. answered' = answered
  BY BufferKeepsAnswer
<1>2. /\ state' = "kShutdown"
      /\ \/ mmap_request' = "kNone"
         \/ state = "kShutdown" /\ mmap_request' = mmap_request
  BY InterruptAnswers
<1>3. CASE mmap_request' = "kNone"
  <2>1. pending' = Empty
    BY <1>3 DEF pending, WithDictionary
  <2>2. waiting' = waiting
    BY DEF waiting, dictionary
  <2>3. ShuttingDown' = TRUE
    BY <1>2 DEF ShuttingDown
  <2>4. Calls!ShutDown
    BY <1>1, <2>1, <2>2, <2>3 DEF Calls!ShutDown
  <2>5. QED
    BY <2>4 DEF Calls!Next
<1>4. CASE state = "kShutdown" /\ mmap_request' = mmap_request
  <2>1. pending' = pending
    BY <1>4, RequestKeepsPending
  <2>2. ShuttingDown' = ShuttingDown
    BY <1>2, <1>4 DEF ShuttingDown
  <2>3. QED
    BY <1>1, <2>1, <2>2, SpineStutters
<1>5. QED
  BY <1>2, <1>3, <1>4

\* A request that is raised is about the current call.
LEMMA PendingIsRequested ==
    ASSUME WithDictionary
    PROVE  /\ pending = requested /\ pending # Empty
           /\ pending.call = calls /\ pending # answer
BY DEF pending, requested, Empty, answer

\* A request that the dispatch clears or refuses falls without being taken.
LEMMA DispatchRefines ==
    ASSUME IInv, DataInv, Dispatch, UNCHANGED agent_vars
    PROVE  [Calls!Next]_(Calls!vars)
<1>1. /\ spine_pc = "dispatch"
      /\ UNCHANGED <<mmap_size, mmap_data, served>>
      /\ state \notin {"kReset", "kStep"}
      /\ process_cycle_beginning(seen)
  BY DEF Dispatch, IInv, NeverBeginsMidRequest
<1>2. /\ mmap_request' \in {"kNone", "kError", mmap_request}
      /\ state \in {"kShutdown", "kOver"} => state' = state
      /\ state' \in {"kShutdown", "kOver"} => state' = state
  BY <1>1, CycleBeginningAnswers
     DEF IInv, TypeOK, SpineTypeOK, InterfaceTypeOK, Handshake
<1>3. ShuttingDown' = ShuttingDown
  BY <1>2 DEF ShuttingDown
<1>4. answered' = answered
  BY <1>1, BufferKeepsAnswer
<1>5. CASE UNCHANGED mmap_request \/ ~WithDictionary
  <2>1. UNCHANGED mmap_request \/ (~WithDictionary /\ ~WithDictionary')
    BY <1>2, <1>5 DEF WithDictionary
  <2>2. QED
    BY <1>1, <1>3, <1>4, <2>1, RequestKeepsPending, SpineStutters
<1>6. CASE mmap_request' # mmap_request /\ WithDictionary
  <2>1. served.call < calls
    BY <1>1, <1>6 DEF DataInv, Newer, InRequest
  <2>2. served.call \in Nat /\ calls \in Nat
    BY ServedCallInNat DEF IInv, TypeOK, AgentTypeOK, Call
  <2>3. served # pending /\ served.call < pending.call
    BY <1>6, <2>1, <2>2, PendingIsRequested
  <2>4. pending' = Empty
    BY <1>2, <1>6 DEF pending, WithDictionary
  <2>5. waiting' = waiting
    BY DEF waiting, dictionary
  <2>6. Calls!Settle
    BY <1>1, <1>3, <1>4, <1>6, <2>3, <2>4, <2>5, PendingIsRequested
       DEF Calls!Settle
  <2>7. QED
    BY <2>6 DEF Calls!Next
<1>7. QED
  BY <1>5, <1>6

\* ReadData takes the dictionary of the request, also where it then throws.
LEMMA ReadDataRefines ==
    ASSUME IInv, DataInv, ReadData, UNCHANGED agent_vars
    PROVE  Calls!Take
<1>1. served' = requested /\ InRequest /\ WithDictionary /\ served.call < calls
  BY ReadIsRequested
<1>2. /\ pending # Empty /\ served' = pending
      /\ served.call < pending.call
  BY <1>1, PendingIsRequested
<1>3. /\ UNCHANGED <<calls, returned>>
      /\ answered' = answered /\ waiting' = waiting
  <2>1. UNCHANGED <<mmap_size, mmap_data>>
    BY DEF ReadData
  <2>2. waiting' = waiting
    BY DEF waiting, dictionary
  <2>3. QED
    BY <2>1, <2>2, BufferKeepsAnswer
<1>4. CASE UNCHANGED <<mmap_request, machine_vars>>
  <2>1. pending' = pending
    BY <1>4, RequestKeepsPending
  <2>2. ShuttingDown' = ShuttingDown
    BY <1>4 DEF ShuttingDown
  <2>3. QED
    BY <1>2, <1>3, <2>1, <2>2 DEF Calls!Take
<1>5. CASE process_interrupt
  <2>1. state' = "kShutdown" /\ mmap_request' = "kNone"
    BY <1>1, <1>5, InterruptAnswers DEF InRequest
  <2>2. pending' = Empty
    BY <2>1 DEF pending, WithDictionary
  <2>3. ShuttingDown' = TRUE
    BY <2>1 DEF ShuttingDown
  <2>4. QED
    BY <1>2, <1>3, <2>2, <2>3 DEF Calls!Take
<1>6. QED
  BY <1>4, <1>5 DEF ReadData

\* The end of a cycle that has served a request lets it fall.
LEMMA EndCycleRefines ==
    ASSUME IInv, DataInv, EndCycle, UNCHANGED agent_vars
    PROVE  [Calls!Next]_(Calls!vars)
<1>1. /\ spine_pc = "end" /\ UNCHANGED <<mmap_size, mmap_data, served>>
      /\ process_cycle_end
  BY DEF EndCycle
<1>2. /\ InRequest => mmap_request' = "kNone"
      /\ ~InRequest => UNCHANGED mmap_request
      /\ ShuttingDown <=> ShuttingDown'
  BY <1>1, CycleEndAnswers DEF IInv, TypeOK, SpineTypeOK
<1>3. ShuttingDown' = ShuttingDown
  BY <1>2 DEF ShuttingDown
<1>4. answered' = answered
  BY <1>1, BufferKeepsAnswer
<1>5. CASE InRequest
  <2>1. WithDictionary
    BY <1>5 DEF IInv, Handshake, InRequest, WithDictionary
  <2>2. answered /\ served = pending
    BY <1>1, <1>5, <2>1, PendingIsRequested DEF DataInv, Handover, answered
  <2>3. pending' = Empty
    BY <1>2, <1>5 DEF pending, WithDictionary
  <2>4. waiting' = waiting
    BY DEF waiting, dictionary
  <2>5. Calls!Settle
    BY <1>1, <1>3, <1>4, <2>1, <2>2, <2>3, <2>4, PendingIsRequested
       DEF Calls!Settle
  <2>6. QED
    BY <2>5 DEF Calls!Next
<1>6. CASE ~InRequest
  BY <1>1, <1>2, <1>3, <1>4, <1>6, RequestKeepsPending, SpineStutters
<1>7. QED
  BY <1>5, <1>6

LEMMA SpineStepRefinesCalls ==
    ASSUME IInv, DataInv, SpineStep \/ HandleInterrupt, UNCHANGED agent_vars
    PROVE  [Calls!Next]_(Calls!vars)
\* Steps that leave the interface and the state machine
<1>0. ASSUME UNCHANGED <<interface_vars, machine_vars, served>>
      PROVE  UNCHANGED Calls!vars
  <2>1. ShuttingDown' = ShuttingDown
    BY <1>0 DEF ShuttingDown
  <2>2. QED
    BY <1>0, <2>1, BufferKeepsAnswer, RequestKeepsPending, SpineStutters
<1>1. CASE BeginCycle
  BY <1>0, <1>1, InterruptRefines DEF BeginCycle
<1>2. CASE Exit
  BY <1>0, <1>2 DEF Exit
<1>3. CASE Dispatch
  BY <1>3, DispatchRefines
<1>4. CASE ReadSize
  BY <1>0, <1>4 DEF ReadSize
<1>5. CASE ReadData
  BY <1>5, ReadDataRefines DEF Calls!Next
<1>6. CASE WriteCommands
  BY <1>0, <1>6, InterruptRefines DEF WriteCommands
<1>7. CASE Cycle
  BY <1>0, <1>7 DEF Cycle
<1>8. CASE WriteObservationSize
  <2>1. CASE UNCHANGED <<mmap_size, mmap_data>>
    BY <1>0, <1>8, <2>1 DEF WriteObservationSize
  <2>2. CASE write_size(observation)
    <3>1. /\ spine_pc = "write_size" /\ UNCHANGED <<mmap_request, state, served>>
          /\ UNCHANGED mmap_data /\ UNCHANGED answer
      BY <1>8, <2>2 DEF WriteObservationSize, write_size, answer
    <3>2. WithDictionary
      BY <3>1, ObservationIsTheAnswer
    <3>3. mmap_data = requested /\ requested # answer
      BY <3>1, <3>2, PendingIsRequested DEF DataInv, Handover, BufferIs
    <3>4. answered = FALSE /\ answered' = FALSE
      BY <3>1, <3>3 DEF answered, BufferIs
    <3>5. ShuttingDown' = ShuttingDown
      BY <3>1 DEF ShuttingDown
    <3>6. QED
      BY <3>1, <3>4, <3>5, RequestKeepsPending, SpineStutters
  <2>3. QED
    BY <1>8, <2>1, <2>2 DEF WriteObservationSize
<1>9. CASE WriteObservation
  <2>1. /\ spine_pc = "write_data" /\ UNCHANGED <<mmap_request, state, served>>
        /\ UNCHANGED <<mmap_size, answer>> /\ mmap_data' = observation
    BY <1>9 DEF WriteObservation, write_data, answer
  <2>2. WithDictionary /\ served = requested /\ observation = answer
    BY <2>1, ObservationIsTheAnswer
  <2>3. answered' = TRUE
    BY <2>1, <2>2 DEF answered, BufferIs, DataInv, Handover
  <2>4. ShuttingDown' = ShuttingDown
    BY <2>1 DEF ShuttingDown
  <2>5. waiting' = waiting
    BY DEF waiting, dictionary
  <2>6. pending' = pending
    BY <2>1, RequestKeepsPending
  <2>7. Calls!Answer
    BY <2>1, <2>2, <2>3, <2>4, <2>5, <2>6, PendingIsRequested
       DEF Calls!Answer
  <2>8. QED
    BY <2>7 DEF Calls!Next
<1>10. CASE EndCycle
  BY <1>10, EndCycleRefines
<1>11. CASE HandleInterrupt
  BY <1>0, <1>11 DEF HandleInterrupt
<1>12. QED
  BY <1>1, <1>2, <1>3, <1>4, <1>5, <1>6, <1>7, <1>8, <1>9, <1>10, <1>11
     DEF SpineStep

\* A step of the agent that leaves the buffer, the request and what was
\* returned goes on with its call, or gives it up.
LEMMA AgentQuietly ==
    ASSUME UNCHANGED <<spine_vars, calls, returned>>, pending' = pending,
           answered' = answered, waiting' \in {waiting, Empty}
    PROVE  [Calls!Next]_(Calls!vars)
<1>1. ShuttingDown' = ShuttingDown
  BY DEF ShuttingDown
<1>2. CASE waiting' = waiting
  BY <1>1, <1>2 DEF Calls!vars
<1>3. CASE waiting' # waiting
  <2>1. Calls!GiveUp
    BY <1>1, <1>3 DEF Calls!GiveUp
  <2>2. QED
    BY <2>1 DEF Calls!Next
<1>4. QED
  BY <1>2, <1>3

LEMMA AgentLooks ==
    ASSUME UNCHANGED <<spine_vars, interface_vars, op, sent, calls, returned>>,
           agent_pc # "ready"
    PROVE  [Calls!Next]_(Calls!vars)
<1>1. pending' = pending /\ answered' = answered
  BY BufferKeepsAnswer, RequestKeepsPending
<1>2. waiting' \in {waiting, Empty}
  BY DEF waiting, dictionary
<1>3. QED
  BY <1>1, <1>2, AgentQuietly

\* Between its waits an agent has an empty waiting and a clear request.
LEMMA AgentPrepares ==
    ASSUME IInv, DataInv, WaitsForItsOwn,
           agent_pc \in {"assert_write", "write_size", "write_data",
                         "write_request"}
    PROVE  ~sent /\ waiting = Empty /\ pending = Empty
<1>1. ~sent
  BY DEF IInv, CallBudget, WaitsForItsOwn
<1>2. QED
  BY <1>1, BufferIsTheAgents DEF waiting, pending

\* Numbering a dictionary begins a new call, which nothing has answered.
LEMMA AssertBeforeWriteRefines ==
    ASSUME IInv, DataInv, WaitsForItsOwn, AssertBeforeWrite,
           UNCHANGED spine_vars
    PROVE  [Calls!Next]_(Calls!vars)
<1>1. agent_pc = "assert_write" /\ UNCHANGED interface_vars
  BY DEF AssertBeforeWrite
<1>2. waiting = Empty /\ pending = Empty /\ ~sent
  BY <1>1, AgentPrepares
<1>3. CASE mmap_request = "kNone"
  <2>1. /\ calls' = calls + 1
        /\ UNCHANGED <<sent, returned>>
    BY <1>3 DEF AssertBeforeWrite
  <2>2. calls < MaxCalls
    BY <1>1, <1>2 DEF IInv, CallBudget
  <2>3. answered' = FALSE
    <3>1. mmap_size.call <= calls /\ mmap_size.call \in Nat /\ calls \in Nat
      BY DEF WaitsForItsOwn, IInv, TypeOK, InterfaceTypeOK, AgentTypeOK,
             Message, Call
    <3>2. mmap_size'.call # calls'
      BY <1>1, <2>1, <3>1
    <3>3. QED
      BY <3>2 DEF answered, BufferIs, answer
  <2>4. waiting' = Empty
    BY <1>2, <2>1 DEF waiting
  <2>5. pending' = Empty
    BY <1>1, <1>3 DEF pending, WithDictionary
  <2>6. ShuttingDown' = ShuttingDown
    BY DEF ShuttingDown
  <2>7. Calls!Prepare
    BY <1>2, <2>1, <2>2, <2>3, <2>4, <2>5, <2>6 DEF Calls!Prepare
  <2>8. QED
    BY <2>7 DEF Calls!Next
<1>4. CASE mmap_request # "kNone"
  BY <1>1, <1>4, AgentLooks DEF AssertBeforeWrite, raise, goto_agent
<1>5. QED
  BY <1>3, <1>4

\* Raising the request of a dictionary raises it in the abstract.
LEMMA WriteRequestRefines ==
    ASSUME IInv, DataInv, WaitsForItsOwn, WriteRequest, UNCHANGED spine_vars
    PROVE  [Calls!Next]_(Calls!vars)
<1>1. /\ agent_pc = "write_request" /\ mmap_request' = request_of(op)
      /\ UNCHANGED <<mmap_size, mmap_data, calls, returned>>
  BY DEF WriteRequest, set_request
<1>2. waiting = Empty /\ pending = Empty /\ ~sent
  BY <1>1, AgentPrepares
<1>3. answered' = answered
  BY <1>1, BufferKeepsAnswer
<1>4. CASE op = "stop"
  <2>1. pending' = Empty
    BY <1>1, <1>4 DEF request_of, pending, WithDictionary
  <2>2. waiting' = Empty
    BY <1>2, <1>4 DEF WriteRequest, begin_op, waiting
  <2>3. QED
    BY <1>1, <1>2, <1>3, <2>1, <2>2, AgentQuietly
<1>5. CASE op # "stop"
  <2>1. agent_pc' = "wait" /\ sent' = TRUE /\ UNCHANGED op
    BY <1>5 DEF WriteRequest
  <2>2. op \in {"set_action", "start"}
    BY <1>5 DEF IInv, TypeOK, AgentTypeOK, Op
  <2>3. waiting' = dictionary
    BY <1>1, <2>1 DEF waiting, dictionary
  <2>4. pending' = dictionary
    BY <1>1, <2>1, <2>2
       DEF pending, WithDictionary, requested, dictionary, request_of
  <2>5. served.call < calls
    BY <1>1, <1>5 DEF DataInv, Newer
  <2>6. \E kind \in {"config", "action"} :
            waiting' = [kind |-> kind, call |-> calls]
    BY <2>3 DEF dictionary
  <2>7. ShuttingDown' = ShuttingDown
    BY DEF ShuttingDown
  <2>8. Calls!Raise
    BY <1>1, <1>2, <1>3, <2>3, <2>4, <2>5, <2>6, <2>7 DEF Calls!Raise
  <2>9. QED
    BY <2>8 DEF Calls!Next
<1>6. QED
  BY <1>4, <1>5

\* What an operation reads is its answer, or its own dictionary where the
\* contract says so.
LEMMA ReadDictRefines ==
    ASSUME IInv, DataInv, WaitsForItsOwn, ReadDict, UNCHANGED spine_vars
    PROVE  [Calls!Next]_(Calls!vars)
<1>1. /\ agent_pc = "read_data" /\ agent_pc' = "ready"
      /\ UNCHANGED <<interface_vars, op, sent, calls>>
  BY DEF ReadDict
<1>2. CASE parsed(agent_size) \in {Empty, Garbage}
  <2>1. UNCHANGED returned
    BY <1>2 DEF ReadDict
  <2>2. QED
    BY <1>1, <2>1, AgentLooks
<1>3. CASE parsed(agent_size) \notin {Empty, Garbage}
  <2>1. /\ sent /\ waiting = dictionary /\ dictionary # Empty
        /\ dictionary.call = calls
    BY <1>1 DEF DataInv, OwnCall, waiting, dictionary, Empty
  <2>2. ~WithDictionary /\ pending = Empty
    BY <1>1, BufferIsTheAgents DEF pending
  <2>3. mmap_size = mmap_data /\ parsed(agent_size) = mmap_data
    BY <1>1, <1>3 DEF DataInv, Handover, parsed
  <2>4. returned' = [call |-> waiting.call, message |-> mmap_data]
    BY <1>3, <2>1, <2>3 DEF ReadDict
  <2>5. answered => mmap_data = answer
    BY DEF answered, BufferIs
  <2>6. ~answered => mmap_data = dictionary
    BY <1>1, <2>1, <2>3 DEF answered, BufferIs, WaitsForItsOwn
  <2>7. answer = [kind |-> "observation", call |-> waiting.call]
    BY <2>1 DEF answer
  <2>8. ~answered => Calls!GetsItBack
    <3> SUFFICES ASSUME ~answered, ~ShuttingDown PROVE Calls!GetsItBack
      BY DEF Calls!GetsItBack
    <3>1. served.call < calls
      BY <1>1, <2>1, <2>2 DEF WaitsForItsOwn, answered
    <3>2. method = "start"
      BY <1>1, <2>1 DEF DataInv, AnswerIsThere, answered
    <3>3. dictionary.kind = "config"
      BY <3>2 DEF WaitsForItsOwn, dictionary
    <3>4. QED
      BY <2>1, <3>1, <3>3 DEF Calls!GetsItBack
  <2>9. /\ answered' = answered /\ pending' = pending
        /\ ShuttingDown' = ShuttingDown /\ waiting' = Empty
    <3>1. ShuttingDown' = ShuttingDown
      BY DEF ShuttingDown
    <3>2. waiting' = Empty
      BY <1>1 DEF waiting
    <3>3. QED
      BY <1>1, <3>1, <3>2, BufferKeepsAnswer, RequestKeepsPending
  <2>10. returned' = [call |-> waiting.call,
                      message |-> IF answered
                                  THEN [kind |-> "observation",
                                        call |-> waiting.call]
                                  ELSE waiting]
    BY <2>1, <2>4, <2>5, <2>6, <2>7
  <2>11. Calls!Return
    BY <1>1, <2>1, <2>2, <2>8, <2>9, <2>10 DEF Calls!Return
  <2>12. QED
    BY <2>11 DEF Calls!Next
<1>4. QED
  BY <1>2, <1>3

LEMMA AgentStepRefinesCalls ==
    ASSUME IInv, DataInv, WaitsForItsOwn, AgentStep \/ CallMethod \/ Restart,
           UNCHANGED spine_vars
    PROVE  [Calls!Next]_(Calls!vars)
<1> USE DEF goto_agent, raise
<1>1. CASE WaitForSpine
  BY <1>1, AgentLooks DEF WaitForSpine
<1>2. CASE WaitTimeout
  BY <1>2, AgentLooks DEF WaitTimeout
<1>3. CASE CheckError
  BY <1>3, AgentLooks DEF CheckError
<1>4. CASE ClearError
  <2>1. ~WithDictionary /\ ~WithDictionary'
    BY <1>4, BufferIsTheAgents DEF ClearError, set_request, WithDictionary
  <2>2. pending' = pending /\ answered' = answered
    BY <1>4, <2>1, BufferKeepsAnswer, RequestKeepsPending DEF ClearError
  <2>3. waiting' = Empty
    BY <1>4 DEF ClearError, waiting
  <2>4. QED
    BY <1>4, <2>2, <2>3, AgentQuietly DEF ClearError
<1>5. CASE AssertBeforeWrite
  BY <1>5, AssertBeforeWriteRefines
\* The observation of a call that is being written is not there.
<1>6. CASE WriteDictSize \/ WriteDict
  <2>1. /\ agent_pc \in {"write_size", "write_data"}
        /\ UNCHANGED <<mmap_request, op, sent, calls, returned>>
        /\ mmap_size' = dictionary
    BY <1>6
       DEF WriteDictSize, WriteDict, write_size, write_data, DataInv, Handover
  <2>2. dictionary # answer /\ UNCHANGED answer
    BY <2>1 DEF dictionary, answer
  <2>3. answered = FALSE
    <3>1. CASE agent_pc = "write_size"
      <4>1. mmap_size.call < calls /\ mmap_size.call \in Nat /\ calls \in Nat
        BY <3>1
           DEF WaitsForItsOwn, IInv, TypeOK, InterfaceTypeOK, AgentTypeOK,
               Message, Call
      <4>2. mmap_size.call # calls
        BY <4>1
      <4>3. QED
        BY <4>2 DEF answered, BufferIs, answer
    <3>2. CASE agent_pc = "write_data"
      BY <2>2, <3>2 DEF answered, BufferIs, DataInv, Handover
    <3>3. QED
      BY <2>1, <3>1, <3>2
  <2>4. answered' = FALSE
    BY <2>1, <2>2 DEF answered, BufferIs
  <2>5. waiting' = waiting
    BY <2>1, AgentPrepares DEF waiting
  <2>6. pending' = pending
    BY <2>1, RequestKeepsPending
  <2>7. QED
    BY <2>1, <2>3, <2>4, <2>5, <2>6, AgentQuietly
<1>7. CASE WriteOversizedDict
  BY <1>7, AgentLooks DEF WriteOversizedDict
<1>8. CASE WriteRequest
  BY <1>8, WriteRequestRefines
<1>9. CASE AssertBeforeRead
  BY <1>9, AgentLooks DEF AssertBeforeRead
<1>10. CASE ReadDictSize
  BY <1>10, AgentLooks DEF ReadDictSize
<1>11. CASE ReadDict
  BY <1>11, ReadDictRefines
<1>12. CASE CallMethod
  <2>1. /\ agent_pc = "ready" /\ ~sent'
        /\ returned' = Nothing /\ UNCHANGED <<interface_vars, calls>>
    BY <1>12 DEF CallMethod, begin_op
  <2>2. waiting = Empty /\ waiting' = Empty
    BY <2>1 DEF waiting
  <2>3. pending' = pending /\ answered' = answered
    BY <2>1, BufferKeepsAnswer, RequestKeepsPending
  <2>4. ShuttingDown' = ShuttingDown
    BY DEF ShuttingDown
  <2>5. Calls!Begin
    BY <2>1, <2>2, <2>3, <2>4 DEF Calls!Begin, Calls!Nothing, Nothing
  <2>6. QED
    BY <2>5 DEF Calls!Next
<1>13. CASE Restart
  BY <1>13, AgentLooks DEF Restart
<1>14. QED
  BY <1>1, <1>2, <1>3, <1>4, <1>5, <1>6, <1>7, <1>8, <1>9, <1>10, <1>11,
     <1>12, <1>13
     DEF AgentStep

LEMMA NextRefinesCalls ==
    IInv /\ DataInv /\ WaitsForItsOwn /\ [Next]_vars
        => [Calls!Next]_(Calls!vars)
<1> SUFFICES ASSUME IInv, DataInv, WaitsForItsOwn, [Next]_vars
             PROVE  [Calls!Next]_(Calls!vars)
  OBVIOUS
<1>1. CASE (SpineStep \/ HandleInterrupt) /\ UNCHANGED agent_vars
  BY <1>1, SpineStepRefinesCalls
<1>2. CASE (AgentStep \/ CallMethod \/ Restart) /\ UNCHANGED spine_vars
  BY <1>2, AgentStepRefinesCalls
<1>3. CASE UNCHANGED vars
  <2>1. ShuttingDown' = ShuttingDown
    BY <1>3 DEF ShuttingDown
  <2>2. QED
    BY <1>3, <2>1, BufferKeepsAnswer, RequestKeepsPending, SpineStutters
<1>4. QED
  BY <1>1, <1>2, <1>3 DEF Next

\* The request word, the size word and the buffer implement remote calls:
\* each dictionary is taken at most once and in order, and a call returns its
\* own observation, or its own dictionary where the contract says so.
THEOREM ProtocolImplementsCalls == Spec => ImplementsCalls
<1>1. Init => Calls!Init
  BY InitRefinesCalls
<1>2. IInv /\ DataInv /\ WaitsForItsOwn /\ [Next]_vars
          => [Calls!Next]_(Calls!vars)
  BY NextRefinesCalls
<1>3. QED
  BY <1>1, <1>2, DataInvariance, WaitsInvariance, PTL
     DEF Spec, ImplementsCalls, Calls!Spec

=============================================================================
