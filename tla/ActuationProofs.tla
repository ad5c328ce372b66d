--------------------------- MODULE ActuationProofs ---------------------------
(***************************************************************************)
(* What the run loop of the spine sends to the servos, for any number of   *)
(* stop cycles and any set of faults: proof that it implements the         *)
(* actuation contract.  The invariant is StopCount, which relates the      *)
(* count of the state machine to the cycles that did send stop commands.   *)
(***************************************************************************)
EXTENDS SpineSystemProofs

USE DEF interface_vars, machine_vars, input_vars, servo_vars, loop_vars,
        spine_vars, agent_vars, vars, clears_request, restarts_count,
        enough_stop_cycles, commands_in

-----------------------------------------------------------------------------
(***************************************************************************)
(* The count of stop cycles                                                *)
(***************************************************************************)

\* In the run loop, begin_cycle leads to one call of cycle_actuation.
LEMMA RunCyclesOnce ==
    ASSUME ~Simulating, NEW s, begin_cycle_returns(s)
    PROVE  spine_pc' = "commands" /\ cycles_after' = 0
BY DEF begin_cycle_returns, nb_cycles_before, nb_cycles_after

\* The unsigned increment, around the value that ends the shutdown.
LEMMA NextStopCyclesValue ==
    ASSUME stop_cycles \in 0..(CounterModulus - 1)
    PROVE  /\ next_stop_cycles <= stop_cycles + 1
           /\ next_stop_cycles = kNbStopCycles => stop_cycles = kNbStopCycles - 1
BY StopCyclesAssumption DEF next_stop_cycles

LEMMA InitStopCount == Init => StopCount
BY StopCyclesAssumption
   DEF Init, SpineInit, MachineInit, StopCount, StopsOnBus, StopsSentBeforeReset

LEMMA NextStopCount ==
    ASSUME ~Simulating, IInv, StopCount, [Next]_vars
    PROVE  StopCount'
<1> USE DEF StopCount, StopsOnBus, StopsSentBeforeReset, goto,
            is_over_after_this_cycle
<1>1. TypeOK /\ InterfaceTypeOK /\ SpineTypeOK /\ MachineTypeOK
  BY DEF IInv, TypeOK, SpineTypeOK
<1>2. stop_cycles \in Nat /\ stops_cycled \in 0..kNbStopCycles /\ kNbStopCycles \in Nat
  BY <1>1, StopCyclesAssumption DEF SpineTypeOK, MachineTypeOK
<1>3. CASE BeginCycle
  <2>1. CASE caught_interrupt
    <3>1. process_interrupt /\ begin_cycle_returns(state')
      BY <1>3, <2>1 DEF BeginCycle
    <3>2. state # "kShutdown" => stop_cycles' = 0
      BY <3>1 DEF process_interrupt, enter_state
    <3>3. state = "kShutdown" => stop_cycles' = stop_cycles
      BY <3>1 DEF process_interrupt
    <3>4. QED
      BY <1>1, <1>2, <1>3, <2>1, <3>1, <3>2, <3>3, InterruptLemma, RunCyclesOnce
         DEF BeginCycle
  <2>2. CASE ~caught_interrupt
    BY <1>3, <2>2 DEF BeginCycle
  <2>3. QED
    BY <2>1, <2>2
<1>4. CASE Exit
  BY <1>4 DEF Exit
<1>5. CASE Dispatch
  <2>1. /\ process_cycle_beginning(seen)
        /\ spine_pc = "dispatch"
        /\ UNCHANGED <<commands, stops_cycled>>
        /\ seen \in Request
    BY <1>1, <1>5 DEF Dispatch, SpineTypeOK
  <2>2. /\ spine_pc' \in {"commands", "read_size"}
        /\ cycles_after' = 0
    BY <1>5, RunCyclesOnce DEF Dispatch
  <2>3. state \notin {"kStep", "kReset"} /\ state # "kOver"
    BY <2>1 DEF IInv, NeverBeginsMidRequest
  <2>4. /\ state' # "kOver"
        /\ stop_cycles' \in {0, stop_cycles}
        /\ state' = "kShutdown" => state = "kShutdown"
        /\ state' = "kSendStops" => state = "kSendStops" \/ stop_cycles' = 0
    BY <2>1, <2>3 DEF process_cycle_beginning, enter_state
  <2>5. state' = "kReset" => stops_cycled' = kNbStopCycles
    BY <1>1, <1>2, <2>1, <2>3, CycleBeginningLemma
  <2>6. QED
    BY <1>2, <2>1, <2>2, <2>4, <2>5
<1>6. CASE ReadSize
  BY <1>6 DEF ReadSize
<1>7. CASE ReadData
  <2>1. state \in {"kReset", "kStep"} /\ spine_pc = "read_data"
    BY <1>7 DEF ReadData, IInv, Handshake
  <2>2. CASE begin_cycle_returns(state) /\ UNCHANGED <<mmap_request, machine_vars>>
    BY <1>7, <2>1, <2>2, RunCyclesOnce DEF ReadData
  <2>3. CASE process_interrupt /\ begin_cycle_returns(state')
    <3>1. state' = "kShutdown" /\ stop_cycles' = 0
      BY <2>1, <2>3 DEF process_interrupt, enter_state
    <3>2. QED
      BY <1>2, <1>7, <2>1, <2>3, <3>1, RunCyclesOnce DEF ReadData
  <2>4. CASE goto("terminated") /\ UNCHANGED <<mmap_request, machine_vars>>
    BY <1>7, <2>1, <2>4 DEF ReadData
  <2>5. QED
    BY <1>7, <2>2, <2>3, <2>4 DEF ReadData
<1>8. CASE WriteCommands
  <2>1. spine_pc = "commands" /\ spine_pc' = "cycle" /\ stops_cycled' = stops_cycled
    BY <1>8 DEF WriteCommands
  <2>2. CASE UNCHANGED machine_vars
    BY <1>2, <1>8, <2>1, <2>2, StopCyclesAssumption DEF WriteCommands
  <2>3. CASE process_interrupt /\ commands' = "kStopped"
    <3>1. /\ state' = "kShutdown" /\ stop_cycles' \in {0, stop_cycles}
          /\ state # "kShutdown" => stop_cycles' = 0
      BY <2>3 DEF process_interrupt, enter_state
    <3>2. QED
      BY <1>2, <1>8, <2>1, <2>3, <3>1 DEF WriteCommands
  <2>4. QED
    BY <1>8, <2>2, <2>3 DEF WriteCommands
<1>9. CASE Cycle
  <2>1. /\ spine_pc = "cycle"
        /\ UNCHANGED <<machine_vars, commands>>
        /\ cycles_before > 0
    BY <1>9 DEF Cycle, IInv, LoopPosition
  <2>2. /\ cycles_after' = 0
        /\ spine_pc' \in {"commands", "write_size", "end"}
    BY <1>9, <2>1 DEF Cycle, end_cycle_pc
  <2>3. CASE is_over_after_this_cycle
    BY <1>2, <1>9, <2>1, <2>2, <2>3 DEF Cycle
  <2>4. CASE ~is_over_after_this_cycle /\ commands = "kStopped"
    BY <1>2, <1>9, <2>1, <2>2, <2>4 DEF Cycle
  <2>5. CASE ~is_over_after_this_cycle /\ commands # "kStopped"
    BY <1>2, <1>9, <2>1, <2>2, <2>5 DEF Cycle
  <2>6. QED
    BY <2>3, <2>4, <2>5
<1>10. CASE WriteObservationSize
  BY <1>10 DEF WriteObservationSize, IInv, Handshake
<1>11. CASE WriteObservation
  BY <1>11 DEF WriteObservation, IInv, Handshake
<1>12. CASE EndCycle
  <2>1. /\ process_cycle_end
        /\ spine_pc = "end" /\ spine_pc' = "begin"
        /\ UNCHANGED <<commands, stops_cycled>>
        /\ cycles_after' = 0
    BY <1>12 DEF EndCycle
  <2>2. state' # "kReset"
    BY <1>1, <2>1, CycleEndLemma
  <2>3. ASSUME state' \in {"kSendStops", "kShutdown"}
        PROVE  /\ state' = state
               /\ stop_cycles' = next_stop_cycles
               /\ ~is_over_after_this_cycle
    BY <2>1, <2>3 DEF process_cycle_end, enter_state, next_stop_cycles
  <2>4. next_stop_cycles <= stop_cycles + 1 /\ next_stop_cycles \in Nat
    BY <1>1, StopCyclesAssumption, NextStopCyclesValue, NextStopCyclesInRange
       DEF MachineTypeOK
  <2>5. QED
    BY <1>2, <2>1, <2>2, <2>3, <2>4
<1>13. CASE HandleInterrupt
  BY <1>13 DEF HandleInterrupt
<1>14. CASE UNCHANGED spine_vars
  BY <1>14
<1>15. QED
  BY <1>3, <1>4, <1>5, <1>6, <1>7, <1>8, <1>9, <1>10, <1>11, <1>12, <1>13, <1>14
     DEF Next, SpineStep

\* Neither IInv nor StopCount depends on the loop it is about being fair.
THEOREM StopInvariance == ~Simulating => (Spec => [](IInv /\ StopCount))
<1> SUFFICES ASSUME ~Simulating PROVE Spec => [](IInv /\ StopCount)
  OBVIOUS
<1>1. IInv /\ StopCount /\ [Next]_vars => (IInv /\ StopCount)'
  BY NextIInv, NextStopCount
<1>2. Init => IInv /\ StopCount
  BY InitIInv, InitStopCount
<1>3. QED
  BY <1>1, <1>2, PTL DEF Spec

\* On a robot, whatever fails in the spine or its agents, no cycle of the
\* states kSendStops, kReset and kShutdown is launched with a position command.
THEOREM NoPositionsWhileStopped == ~Simulating => (Spec => []StopsOnBus)
<1>1. StopCount => StopsOnBus
  BY DEF StopCount
<1>2. QED
  BY <1>1, StopInvariance, PTL

\* On a robot, a configuration is applied after kNbStopCycles cycles of stops,
\* even when the counter of the state machine has wrapped around.
THEOREM StopsPrecedeReset == ~Simulating => (Spec => []StopsSentBeforeReset)
<1>1. StopCount => StopsSentBeforeReset
  BY DEF StopCount
<1>2. QED
  BY <1>1, StopInvariance, PTL

-----------------------------------------------------------------------------
(***************************************************************************)
(* Refinement                                                              *)
(***************************************************************************)

LEMMA InitRefines == Init => Contract!Init
BY DEF Init, SpineInit, MachineInit, Contract!Init, phase

LEMMA NextRefines ==
    ASSUME ~Simulating, IInv, StopCount, [Next]_vars
    PROVE  [Contract!Next]_<<phase, stops_cycled>>
<1> USE DEF goto, phase, Contract!Next, Contract!SendStops,
            Contract!SendPositions, Contract!Start, Contract!Stop,
            Contract!ShutDown, Contract!Finish
<1>1. /\ TypeOK /\ InterfaceTypeOK /\ SpineTypeOK /\ MachineTypeOK
      /\ state \in State
      /\ stops_cycled \in 0..kNbStopCycles /\ kNbStopCycles \in Nat \ {0}
  BY StopCyclesAssumption DEF IInv, TypeOK, SpineTypeOK, MachineTypeOK
\* An interrupt shuts the contract down too, once.
<1>2. ASSUME process_interrupt, state # "kOver", UNCHANGED stops_cycled
      PROVE  [Contract!Next]_<<phase, stops_cycled>>
  BY <1>1, <1>2 DEF process_interrupt, enter_state, State
<1>3. CASE BeginCycle
  BY <1>2, <1>3 DEF BeginCycle
<1>4. CASE Exit
  BY <1>4 DEF Exit
<1>5. CASE Dispatch
  <2>1. /\ process_cycle_beginning(seen) /\ seen \in Request
        /\ state \notin {"kStep", "kReset"}
        /\ UNCHANGED stops_cycled
    BY <1>1, <1>5 DEF Dispatch, SpineTypeOK, IInv, NeverBeginsMidRequest
  <2>2. CASE state' = "kReset"
    <3>1. state = "kSendStops" /\ stop_cycles >= kNbStopCycles
      BY <1>1, <2>1, <2>2, CycleBeginningLemma
    <3>2. stops_cycled = kNbStopCycles
      BY <1>1, <3>1, StopCyclesAssumption DEF StopCount, MachineTypeOK
    <3>3. QED
      BY <2>1, <2>2, <3>1, <3>2
  <2>3. CASE state' # "kReset"
    BY <2>1, <2>3 DEF process_cycle_beginning, enter_state
  <2>4. QED
    BY <2>2, <2>3
<1>6. CASE ReadSize
  BY <1>6 DEF ReadSize
<1>7. CASE ReadData
  <2>1. state # "kOver" /\ UNCHANGED stops_cycled
    BY <1>7 DEF ReadData, StopCount
  <2>2. QED
    BY <1>2, <1>7, <2>1 DEF ReadData
<1>8. CASE WriteCommands
  <2>1. state # "kOver" /\ UNCHANGED stops_cycled
    BY <1>8 DEF WriteCommands, StopCount
  <2>2. QED
    BY <1>2, <1>8, <2>1 DEF WriteCommands
<1>9. CASE Cycle
  <2>1. state # "kOver" /\ UNCHANGED machine_vars
    BY <1>9 DEF Cycle, StopCount
  <2>2. CASE is_over_after_this_cycle
    BY <1>9, <2>1, <2>2 DEF Cycle
  <2>3. CASE ~is_over_after_this_cycle /\ commands = "kStopped"
    BY <1>9, <2>1, <2>3, <1>1 DEF Cycle, State
  <2>4. CASE ~is_over_after_this_cycle /\ commands # "kStopped"
    <3>1. state \in {"kIdle", "kStep"}
      BY <1>1, <1>9, <2>1, <2>4 DEF Cycle, StopCount, StopsOnBus, State
    <3>2. QED
      BY <1>9, <2>1, <2>4, <3>1 DEF Cycle
  <2>5. QED
    BY <2>2, <2>3, <2>4
<1>10. CASE WriteObservationSize
  BY <1>10 DEF WriteObservationSize
<1>11. CASE WriteObservation
  BY <1>11 DEF WriteObservation
<1>12. CASE EndCycle
  <2>1. process_cycle_end /\ UNCHANGED stops_cycled
    BY <1>12 DEF EndCycle
  <2>2. CASE state = "kShutdown" /\ next_stop_cycles = kNbStopCycles
    <3>1. stop_cycles = kNbStopCycles - 1
      BY <1>1, <2>2, NextStopCyclesValue DEF MachineTypeOK
    <3>2. stops_cycled >= kNbStopCycles - 1
      BY <1>1, <2>2, <3>1 DEF StopCount
    <3>3. QED
      BY <2>1, <2>2, <3>2 DEF process_cycle_end, enter_state
  <2>3. CASE ~(state = "kShutdown" /\ next_stop_cycles = kNbStopCycles)
    BY <2>1, <2>3 DEF process_cycle_end, enter_state
  <2>4. QED
    BY <2>2, <2>3
<1>13. CASE HandleInterrupt
  BY <1>13 DEF HandleInterrupt
<1>14. CASE UNCHANGED spine_vars
  BY <1>14
<1>15. QED
  BY <1>3, <1>4, <1>5, <1>6, <1>7, <1>8, <1>9, <1>10, <1>11, <1>12, <1>13, <1>14
     DEF Next, SpineStep

\* On a robot, the spine and its agents implement the actuation contract,
\* for every number of stop cycles and every set of faults.
THEOREM RunImplementsContract == ~Simulating => (Spec => ImplementsContract)
<1> SUFFICES ASSUME ~Simulating PROVE Spec => ImplementsContract
  OBVIOUS
<1>1. IInv /\ StopCount /\ [Next]_vars
          => [Contract!Next]_<<phase, stops_cycled>>
  BY NextRefines
<1>2. Spec => [](IInv /\ StopCount)
  BY StopInvariance
<1>3. QED
  BY <1>1, <1>2, InitRefines, PTL
     DEF Spec, ImplementsContract, Contract!Spec

-----------------------------------------------------------------------------
(***************************************************************************)
(* The shutdown is final, in both loops.  With a single stop cycle an      *)
(* exception of simulate(), after the end_cycle that completes a shutdown, *)
(* would start it again; the program does five.                            *)
(***************************************************************************)

OneCountPerPass == kNbStopCycles > 1 \/ ~Simulating

LEMMA InitShutdownCount == Init => ShutdownCount
BY StopCyclesAssumption DEF Init, SpineInit, MachineInit, ShutdownCount

\* The only events of a spine that is not over, in a pass of its loop.
LEMMA InterruptCount ==
    ASSUME IInv, ShutdownCount, process_interrupt, state # "kOver"
    PROVE  /\ state' = "kShutdown" /\ stop_cycles' < kNbStopCycles
           /\ state # "kShutdown" => stop_cycles' = 0
           /\ state = "kShutdown" => UNCHANGED <<state, stop_cycles>>
BY StopCyclesAssumption
   DEF ShutdownCount, process_interrupt, enter_state

LEMMA CycleBeginningCount ==
    ASSUME IInv, NEW r \in Request, process_cycle_beginning(r)
    PROVE  /\ state \in {"kShutdown", "kOver"} => UNCHANGED <<state, stop_cycles>>
           /\ state' \in {"kShutdown", "kOver"} => state' = state
BY DEF process_cycle_beginning, enter_state, IInv, TypeOK, SpineTypeOK,
       MachineTypeOK, State

LEMMA CycleEndCount ==
    ASSUME IInv, ShutdownCount, process_cycle_end, state # "kOver"
    PROVE  /\ state' \in {"kShutdown", "kOver"} => state = "kShutdown"
           /\ state = "kShutdown" =>
                 /\ stop_cycles' = stop_cycles + 1
                 /\ \/ state' = "kShutdown" /\ stop_cycles' < kNbStopCycles
                    \/ state' = "kOver" /\ stop_cycles' = kNbStopCycles
<1>1. stop_cycles \in 0..(CounterModulus - 1)
  BY DEF IInv, TypeOK, SpineTypeOK, MachineTypeOK
<1>2. CASE state = "kShutdown"
  <2>1. stop_cycles + 1 <= kNbStopCycles /\ stop_cycles + 1 < CounterModulus
    BY <1>1, <1>2, StopCyclesAssumption DEF ShutdownCount
  <2>2. next_stop_cycles = stop_cycles + 1
    BY <1>1, <2>1, StopCyclesAssumption DEF next_stop_cycles
  <2>3. stop_cycles' = stop_cycles + 1
    BY <1>2, <2>2 DEF process_cycle_end
  <2>4. state' = IF stop_cycles + 1 = kNbStopCycles THEN "kOver" ELSE state
    BY <1>2, <2>2 DEF process_cycle_end
  <2>5. QED
    BY <1>1, <1>2, <2>1, <2>3, <2>4, StopCyclesAssumption
<1>3. CASE state # "kShutdown"
  BY <1>3 DEF process_cycle_end, enter_state
<1>4. QED
  BY <1>2, <1>3

LEMMA SpineStepShutdown ==
    ASSUME OneCountPerPass, IInv, ShutdownCount, SpineStep \/ HandleInterrupt
    PROVE  /\ ShutdownCount'
           /\ state = "kShutdown" =>
                 \/ state' = "kShutdown" /\ stop_cycles' >= stop_cycles
                 \/ state' = "kOver"
           /\ state = "kOver" => state' = "kOver"
<1> USE DEF ShutdownCount, goto
<1>0. stop_cycles \in Nat /\ cycles_before \in Nat /\ cycles_after \in Nat
  BY StopCyclesAssumption, SpineAssumption
     DEF IInv, TypeOK, SpineTypeOK, MachineTypeOK
<1>1. ASSUME NEW s, begin_cycle_returns(s)
      PROVE  /\ cycles_after' > 0 => s = "kStep"
             /\ ~Simulating => cycles_after' = 0
  BY <1>1 DEF begin_cycle_returns, nb_cycles_after
<1>2. CASE BeginCycle
  <2>1. CASE caught_interrupt
    <3>1. state # "kOver" /\ process_interrupt /\ begin_cycle_returns(state')
      BY <1>2, <2>1 DEF BeginCycle
    <3>2. QED
      BY <1>0, <1>1, <3>1, InterruptCount
  <2>2. CASE ~caught_interrupt
    BY <1>0, <1>2, <2>2 DEF BeginCycle
  <2>3. QED
    BY <2>1, <2>2
<1>3. CASE Exit
  BY <1>0, <1>3 DEF Exit
<1>4. CASE Dispatch
  <2>1. /\ state # "kOver" /\ process_cycle_beginning(seen)
        /\ spine_pc = "dispatch" /\ seen \in Request
    BY <1>4 DEF Dispatch, IInv, TypeOK, SpineTypeOK
  <2>2. CASE state' \in {"kReset", "kStep"}
    BY <1>0, <1>4, <2>1, <2>2, CycleBeginningCount DEF Dispatch
  <2>3. CASE state' \notin {"kReset", "kStep"}
    <3>1. begin_cycle_returns(state')
      BY <1>4, <2>3 DEF Dispatch
    <3>2. QED
      BY <1>0, <1>1, <2>1, <2>3, <3>1, CycleBeginningCount
  <2>4. QED
    BY <2>2, <2>3
<1>5. CASE ReadSize
  BY <1>0, <1>5 DEF ReadSize
<1>6. CASE ReadData
  <2>1. state \in {"kReset", "kStep"}
    BY <1>6 DEF ReadData, IInv, Handshake
  <2>2. CASE begin_cycle_returns(state) /\ UNCHANGED <<mmap_request, machine_vars>>
    BY <1>1, <2>1, <2>2
  <2>3. CASE process_interrupt /\ begin_cycle_returns(state')
    BY <1>0, <1>1, <2>1, <2>3, InterruptCount
  <2>4. CASE goto("terminated") /\ UNCHANGED <<mmap_request, machine_vars>>
    BY <2>1, <2>4
  <2>5. QED
    BY <1>6, <2>2, <2>3, <2>4 DEF ReadData
<1>7. CASE WriteCommands
  <2>1. state # "kOver" /\ spine_pc = "commands" /\ spine_pc' = "cycle"
    BY <1>7 DEF WriteCommands
  <2>2. UNCHANGED <<cycles_before, cycles_after>>
    BY <1>7 DEF WriteCommands
  <2>3. CASE UNCHANGED machine_vars
    BY <1>0, <2>1, <2>2, <2>3
  <2>4. CASE process_interrupt
    BY <1>0, <2>1, <2>2, <2>4, InterruptCount
  <2>5. QED
    BY <1>7, <2>3, <2>4 DEF WriteCommands
<1>8. CASE Cycle
  <2>1. CASE cycles_before > 0
    BY <1>0, <1>8, <2>1 DEF Cycle, end_cycle_pc
  <2>2. CASE ~(cycles_before > 0)
    <3>1. cycles_after > 0
      BY <1>8, <2>2 DEF Cycle, IInv, LoopPosition
    <3>2. QED
      BY <1>0, <1>8, <2>2, <3>1 DEF Cycle
  <2>3. QED
    BY <2>1, <2>2
<1>9. CASE WriteObservationSize
  <2>1. state \in {"kReset", "kStep"}
    BY <1>9 DEF WriteObservationSize, IInv, Handshake
  <2>2. QED
    BY <1>9, <2>1 DEF WriteObservationSize
<1>10. CASE WriteObservation
  <2>1. state \in {"kReset", "kStep"}
    BY <1>10 DEF WriteObservation, IInv, Handshake
  <2>2. QED
    BY <1>10, <2>1 DEF WriteObservation
<1>11. CASE EndCycle
  <2>1. /\ state # "kOver" /\ process_cycle_end
        /\ spine_pc = "end" /\ cycles_before = 0
        /\ UNCHANGED <<cycles_before, cycles_after>>
        /\ spine_pc' = IF cycles_after > 0 THEN "commands" ELSE "begin"
    BY <1>11 DEF EndCycle, IInv, LoopPosition
  <2>2. state' = "kOver" => spine_pc' = "begin"
    <3> SUFFICES ASSUME state' = "kOver", cycles_after > 0 PROVE FALSE
      BY <2>1
    <3>1. state = "kShutdown" /\ stop_cycles + 1 = kNbStopCycles
      BY <2>1, CycleEndCount
    <3>2. stop_cycles = 0 /\ Simulating
      BY <1>0, <2>1, <3>1, SpineAssumption
    <3>3. QED
      BY <3>1, <3>2 DEF OneCountPerPass
  <2>3. QED
    BY <1>0, <2>1, <2>2, CycleEndCount
<1>12. CASE HandleInterrupt
  BY <1>0, <1>12 DEF HandleInterrupt
<1>13. QED
  BY <1>2, <1>3, <1>4, <1>5, <1>6, <1>7, <1>8, <1>9, <1>10, <1>11, <1>12
     DEF SpineStep

\* Nothing gets the spine out of its shutdown: no request, no interrupt, no
\* exception; and nothing restarts its count of stop cycles.
THEOREM ShutdownStaysFinal ==
    kNbStopCycles > 1 \/ ~Simulating => (Spec => ShutdownIsFinal)
<1> SUFFICES ASSUME OneCountPerPass PROVE Spec => ShutdownIsFinal
  BY DEF OneCountPerPass
<1>1. ASSUME IInv, ShutdownCount, Next
      PROVE  /\ ShutdownCount'
             /\ state = "kShutdown" =>
                   \/ state' = "kShutdown" /\ stop_cycles' >= stop_cycles
                   \/ state' = "kOver"
             /\ state = "kOver" => state' = "kOver"
  <2>1. CASE SpineStep \/ HandleInterrupt
    BY <1>1, <2>1, SpineStepShutdown
  <2>2. CASE UNCHANGED spine_vars
    <3>1. stop_cycles \in Nat
      BY <1>1, StopCyclesAssumption DEF IInv, TypeOK, SpineTypeOK, MachineTypeOK
    <3>2. QED
      BY <1>1, <2>2, <3>1 DEF ShutdownCount
  <2>3. QED
    BY <1>1, <2>1, <2>2 DEF Next
<1>2. IInv /\ ShutdownCount /\ [Next]_vars => ShutdownCount'
  BY <1>1 DEF ShutdownCount
<1>3. IInv /\ ShutdownCount /\ [Next]_vars =>
        [ /\ state = "kShutdown" =>
                \/ state' = "kShutdown" /\ stop_cycles' >= stop_cycles
                \/ state' = "kOver"
          /\ state = "kOver" => state' = "kOver" ]_vars
  BY <1>1
<1>4. Init => IInv /\ ShutdownCount
  BY InitIInv, InitShutdownCount
<1>5. IInv /\ ShutdownCount /\ [Next]_vars => (IInv /\ ShutdownCount)'
  BY NextIInv, <1>2
<1>6. QED
  BY <1>3, <1>4, <1>5, PTL DEF Spec, ShutdownIsFinal


=============================================================================
