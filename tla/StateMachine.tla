---------------------------- MODULE StateMachine ----------------------------
(***************************************************************************)
(* The spine's state machine (upkie/cpp/spine/StateMachine.cpp).  It owns  *)
(* `state' and `stop_cycles' and acknowledges agent requests by writing    *)
(* the request word.  Its operations are the three events that Spine       *)
(* feeds it; kCycleBeginning first reads the request word, then switches   *)
(* on the value read: process_cycle_beginning takes that value as its      *)
(* parameter because the agent may write the word in between.              *)
(***************************************************************************)
EXTENDS AgentInterface

CONSTANTS
    kNbStopCycles,    \* 5 in StateMachine.h
    CounterModulus    \* stop_cycles_ is unsigned: 2^32 in the program

ASSUME StopCyclesAssumption ==
    /\ kNbStopCycles \in Nat \ {0}
    /\ CounterModulus \in Nat
    /\ CounterModulus > kNbStopCycles

VARIABLES state, stop_cycles

machine_vars == <<state, stop_cycles>>

State == {"kSendStops", "kReset", "kIdle", "kStep", "kShutdown", "kOver"}

MachineTypeOK ==
    /\ state \in State
    /\ stop_cycles \in 0..(CounterModulus - 1)

MachineInit ==
    /\ state = "kSendStops"
    /\ stop_cycles = 0

\* Mistaken: a request is acknowledged before it is served, or a served one
\* stays raised, or a request to stop does.
clears_request_early == {"kIdle", "kStep", "kSendStops", "kShutdown"}

clears_request_not_in_idle == {"kSendStops", "kShutdown"}

clears_request_not_in_stop == {"kIdle", "kShutdown"}

\* States whose entry clears the request word, and states whose entry restarts
\* the count of stop cycles.
clears_request == {"kIdle", "kSendStops", "kShutdown"}

restarts_count == {"kSendStops", "kShutdown"}

enter_state(next_state) ==
    /\ state' = next_state
    /\ IF next_state \in clears_request
       THEN set_request("kNone")
       ELSE UNCHANGED mmap_request
    /\ stop_cycles' = IF next_state \in restarts_count THEN 0 ELSE stop_cycles

\* Mistaken: an interrupt during the shutdown starts it again.
process_interrupt_again == enter_state("kShutdown")

\* Event::kInterrupt
process_interrupt ==
    IF state # "kShutdown"
    THEN enter_state("kShutdown")
    ELSE UNCHANGED <<mmap_request, machine_vars>>

\* Mistaken: a start is accepted one stop cycle early, or at once.
enough_stop_cycles_but_one == stop_cycles >= kNbStopCycles - 1

enough_stop_cycles_always == TRUE

enough_stop_cycles == stop_cycles >= kNbStopCycles

\* Event::kCycleBeginning, `request' being the word read on line 38
process_cycle_beginning(request) ==
    \/ /\ state = "kIdle"
       /\ \/ /\ request = "kNone"
             /\ UNCHANGED <<mmap_request, machine_vars>>
          \/ request = "kAction" /\ enter_state("kStep")
          \/ request = "kStart" /\ enter_state("kIdle")
          \/ request = "kStop" /\ enter_state("kSendStops")
          \/ /\ request = "kError"
             /\ set_request("kError")
             /\ UNCHANGED machine_vars
    \/ /\ state = "kSendStops"
       /\ \/ /\ \/ request = "kNone"
                \/ request = "kStart" /\ ~enough_stop_cycles
             /\ UNCHANGED <<mmap_request, machine_vars>>
          \/ request = "kStart" /\ enough_stop_cycles /\ enter_state("kReset")
          \/ request = "kStop" /\ enter_state("kSendStops")
          \/ /\ request \in {"kAction", "kError"}
             /\ set_request("kError")
             /\ UNCHANGED machine_vars
    \/ /\ state \in {"kReset", "kStep", "kShutdown", "kOver"}
       /\ UNCHANGED <<mmap_request, machine_vars>>

\* ++stop_cycles_
next_stop_cycles == (stop_cycles + 1) % CounterModulus

\* Mistaken: a step does not acknowledge its action.
process_cycle_end_not_acknowledging ==
    \/ state = "kReset" /\ enter_state("kIdle")
    \/ /\ state \in {"kSendStops", "kShutdown"}
       /\ stop_cycles' = next_stop_cycles
       /\ state' = IF state = "kShutdown" /\ next_stop_cycles = kNbStopCycles
                   THEN "kOver" ELSE state
       /\ UNCHANGED mmap_request
    \/ /\ state \in {"kIdle", "kStep", "kOver"}
       /\ state' = IF state = "kStep" THEN "kIdle" ELSE state
       /\ UNCHANGED <<mmap_request, stop_cycles>>

\* Event::kCycleEnd
process_cycle_end ==
    \/ state \in {"kReset", "kStep"} /\ enter_state("kIdle")
    \/ /\ state = "kSendStops"
       /\ stop_cycles' = next_stop_cycles
       /\ UNCHANGED <<mmap_request, state>>
    \/ /\ state = "kShutdown"
       /\ stop_cycles' = next_stop_cycles
       /\ state' = IF next_stop_cycles = kNbStopCycles THEN "kOver" ELSE state
       /\ UNCHANGED mmap_request
    \/ /\ state \in {"kIdle", "kOver"}
       /\ UNCHANGED <<mmap_request, machine_vars>>

is_over_after_this_cycle ==
    /\ state = "kShutdown"
    /\ (stop_cycles + 1) % CounterModulus = kNbStopCycles

=============================================================================
