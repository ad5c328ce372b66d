-------------------------------- MODULE Spine --------------------------------
(***************************************************************************)
(* The spine's loop (upkie/cpp/spine/Spine.cpp): Spine::run on a robot,    *)
(* Spine::simulate in front of a simulator.  A pass of the loop is         *)
(*                                                                         *)
(*    begin_cycle      BeginCycle, Dispatch, ReadSize, ReadData            *)
(*    cycle_actuation  WriteCommands, Cycle    (once on a robot, zero to   *)
(*                     several times when simulating)                      *)
(*    end_cycle        WriteObservationSize, WriteObservation, EndCycle    *)
(*                                                                         *)
(* with one step per access to the shared memory, and a step between the   *)
(* writing of servo commands and the launch of the cycle that sends them.  *)
(* Servo commands are abstracted to their mode, the same for all servos.   *)
(***************************************************************************)
EXTENDS StateMachine

CONSTANTS
    Simulating,    \* simulate() rather than run()
    NbSubsteps,    \* argument of simulate()
    SpineFaults    \* what may go wrong in the spine process, see below

(***************************************************************************)
(* "interrupt":       SIGINT (upkie/cpp/utils/handle_interrupts.cpp)       *)
(* "deserialization": a PalimpsestError while reading a dictionary that    *)
(*                    parses (a missing key, a type that does not match)   *)
(* "exception":       any exception in the first part of cycle_actuation,  *)
(*                    from an observation or from a position command       *)
(* "termination":     an exception no handler of the loop catches          *)
(***************************************************************************)
ASSUME SpineAssumption ==
    /\ Simulating \in BOOLEAN
    /\ NbSubsteps \in Nat \ {0}
    /\ SpineFaults \subseteq
          {"interrupt", "deserialization", "exception", "termination"}

VARIABLES
    spine_pc,           \* next step of the loop
    seen,               \* request word as read by process_cycle_beginning
    spine_size,         \* size word as read by begin_cycle
    served,             \* the last dictionary read from the agent
    commands,           \* mode of the servo commands in the interface's data
    stops_cycled,       \* history: consecutive cycles that sent stop commands
    caught_interrupt,   \* set by the signal handler
    cycles_before,      \* cycle_actuation calls to do before end_cycle
    cycles_after        \* and after it

input_vars == <<seen, spine_size, served>>
servo_vars == <<commands, stops_cycled>>
loop_vars == <<spine_pc, cycles_before, cycles_after>>

spine_vars == <<machine_vars, input_vars, servo_vars, loop_vars,
                caught_interrupt>>

SpinePc == {"begin", "dispatch", "read_size", "read_data", "commands",
            "cycle", "write_size", "write_data", "end", "exit", "terminated"}

Mode == {"kStopped", "kPosition"}

SpineTypeOK ==
    /\ MachineTypeOK
    /\ spine_pc \in SpinePc
    /\ seen \in Request
    /\ spine_size \in Message
    /\ served \in Message
    /\ commands \in Mode
    /\ stops_cycled \in 0..kNbStopCycles
    /\ caught_interrupt \in BOOLEAN
    /\ cycles_before \in 0..3
    /\ cycles_after \in 0..(NbSubsteps - 1)

SpineInit ==
    /\ MachineInit
    /\ spine_pc = "begin"
    /\ seen = "kNone"
    /\ spine_size = Empty
    /\ served = Empty
    /\ commands = "kStopped"
    /\ stops_cycled = 0
    /\ caught_interrupt = FALSE
    /\ cycles_before = 0
    /\ cycles_after = 0

-----------------------------------------------------------------------------
(***************************************************************************)
(* Control flow of run() and simulate()                                    *)
(***************************************************************************)

\* cycle_actuation calls before and after end_cycle, in the state s
nb_cycles_before(s) ==
    IF ~Simulating THEN 1
    ELSE IF s = "kReset" THEN 3
    ELSE IF s = "kStep" THEN 1 ELSE 0

nb_cycles_after(s) == IF Simulating /\ s = "kStep" THEN NbSubsteps - 1 ELSE 0

\* end_cycle writes an observation in these two states only
end_cycle_pc(s) == IF s \in {"kReset", "kStep"} THEN "write_size" ELSE "end"

\* begin_cycle returns in the state s
begin_cycle_returns(s) ==
    /\ cycles_before' = nb_cycles_before(s)
    /\ cycles_after' = nb_cycles_after(s)
    /\ spine_pc' =
          IF nb_cycles_before(s) > 0 THEN "commands" ELSE end_cycle_pc(s)

goto(pc) ==
    /\ spine_pc' = pc
    /\ UNCHANGED <<cycles_before, cycles_after>>

-----------------------------------------------------------------------------
(***************************************************************************)
(* begin_cycle                                                             *)
(***************************************************************************)

\* The loop's condition, then the event: an interrupt takes the place of
\* Event::kCycleBeginning, whose handler starts by reading the request word.
BeginCycle ==
    /\ spine_pc = "begin"
    /\ state # "kOver"
    /\ IF caught_interrupt
       THEN /\ process_interrupt
            /\ begin_cycle_returns(state')
            /\ UNCHANGED seen
       ELSE /\ seen' = mmap_request
            /\ goto("dispatch")
            /\ UNCHANGED <<mmap_request, machine_vars>>
    /\ UNCHANGED <<mmap_size, mmap_data, spine_size, served, servo_vars,
                   caught_interrupt>>

Exit ==
    /\ spine_pc = "begin"
    /\ state = "kOver"
    /\ goto("exit")
    /\ UNCHANGED <<interface_vars, machine_vars, input_vars, servo_vars,
                   caught_interrupt>>

Dispatch ==
    /\ spine_pc = "dispatch"
    /\ process_cycle_beginning(seen)
    /\ IF state' \in {"kReset", "kStep"}
       THEN goto("read_size")
       ELSE begin_cycle_returns(state')
    /\ UNCHANGED <<mmap_size, mmap_data, input_vars, servo_vars,
                   caught_interrupt>>

ReadSize ==
    /\ spine_pc = "read_size"
    /\ spine_size' = mmap_size
    /\ goto("read_data")
    /\ UNCHANGED <<interface_vars, machine_vars, seen, served, servo_vars,
                   caught_interrupt>>

\* config.update() then reset(config), or action.update(); a PalimpsestError
\* from either is an interrupt, and nothing else is caught.
ReadData ==
    /\ spine_pc = "read_data"
    /\ served' = parsed(spine_size)
    /\ \/ /\ served' \notin {Empty, Garbage}
          /\ begin_cycle_returns(state)
          /\ UNCHANGED <<mmap_request, machine_vars>>
       \/ /\ \/ served' \in {Empty, Garbage}
             \/ "deserialization" \in SpineFaults
          /\ process_interrupt
          /\ begin_cycle_returns(state')
       \/ /\ "termination" \in SpineFaults
          /\ state = "kReset"
          /\ goto("terminated")
          /\ UNCHANGED <<mmap_request, machine_vars>>
    /\ UNCHANGED <<mmap_size, mmap_data, seen, spine_size, servo_vars,
                   caught_interrupt>>

-----------------------------------------------------------------------------
(***************************************************************************)
(* cycle_actuation                                                         *)
(***************************************************************************)

\* Mistaken: the shutdown goes on with the commands it finds.
commands_in_without_shutdown(s) ==
    IF s = "kSendStops" THEN "kStopped"
    ELSE IF s = "kStep" THEN "kPosition" ELSE commands

\* States other than these three keep the commands of the cycle before.
commands_in(s) ==
    IF s \in {"kSendStops", "kShutdown"} THEN "kStopped"
    ELSE IF s = "kStep" THEN "kPosition" ELSE commands

\* Parts 1 and 2: observe, then write commands.  An exception is an interrupt
\* and leaves stop commands.
WriteCommands ==
    /\ spine_pc = "commands"
    /\ \/ /\ commands' = commands_in(state)
          /\ UNCHANGED <<mmap_request, machine_vars>>
       \/ /\ "exception" \in SpineFaults
          /\ commands' = "kStopped"
          /\ process_interrupt
    /\ goto("cycle")
    /\ UNCHANGED <<mmap_size, mmap_data, input_vars, stops_cycled,
                   caught_interrupt>>

\* Parts 3 and 4: collect the replies of the last cycle, launch the next one
\* unless this is the last pass of the loop.  end_cycle comes after the last
\* of the cycles_before, the next pass after the last of the cycles_after.
Cycle ==
    /\ spine_pc = "cycle"
    /\ stops_cycled' =
          IF is_over_after_this_cycle THEN stops_cycled
          ELSE IF commands # "kStopped" THEN 0
          ELSE IF stops_cycled < kNbStopCycles THEN stops_cycled + 1
          ELSE stops_cycled
    /\ IF cycles_before > 0
       THEN /\ cycles_before' = cycles_before - 1
            /\ spine_pc' =
                  IF cycles_before > 1 THEN "commands" ELSE end_cycle_pc(state)
            /\ UNCHANGED cycles_after
       ELSE /\ cycles_after' = cycles_after - 1
            /\ spine_pc' = IF cycles_after > 1 THEN "commands" ELSE "begin"
            /\ UNCHANGED cycles_before
    /\ UNCHANGED <<interface_vars, machine_vars, input_vars, commands,
                   caught_interrupt>>

-----------------------------------------------------------------------------
(***************************************************************************)
(* end_cycle                                                               *)
(***************************************************************************)

\* The observation is tagged with the input it follows.
observation == [kind |-> "observation", call |-> served.call]

\* AgentInterface::write throws before it writes anything when the
\* observation does not fit, and nothing catches that exception.
WriteObservationSize ==
    /\ spine_pc = "write_size"
    /\ \/ /\ write_size(observation)
          /\ goto("write_data")
       \/ /\ "termination" \in SpineFaults
          /\ goto("terminated")
          /\ UNCHANGED <<mmap_size, mmap_data>>
    /\ UNCHANGED <<mmap_request, machine_vars, input_vars, servo_vars,
                   caught_interrupt>>

WriteObservation ==
    /\ spine_pc = "write_data"
    /\ write_data(observation)
    /\ goto("end")
    /\ UNCHANGED <<mmap_request, machine_vars, input_vars, servo_vars,
                   caught_interrupt>>

EndCycle ==
    /\ spine_pc = "end"
    /\ process_cycle_end
    /\ goto(IF cycles_after > 0 THEN "commands" ELSE "begin")
    /\ UNCHANGED <<mmap_size, mmap_data, input_vars, servo_vars,
                   caught_interrupt>>

-----------------------------------------------------------------------------
\* The handler of SIGINT only raises a flag, which nothing lowers.
HandleInterrupt ==
    /\ "interrupt" \in SpineFaults
    /\ ~caught_interrupt
    /\ caught_interrupt' = TRUE
    /\ UNCHANGED <<interface_vars, machine_vars, input_vars, servo_vars,
                   loop_vars>>

SpineStep ==
    \/ BeginCycle
    \/ Exit
    \/ Dispatch
    \/ ReadSize
    \/ ReadData
    \/ WriteCommands
    \/ Cycle
    \/ WriteObservationSize
    \/ WriteObservation
    \/ EndCycle

=============================================================================
