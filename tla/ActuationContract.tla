-------------------------- MODULE ActuationContract --------------------------
(***************************************************************************)
(* What a spine promises about its actuators, whatever its agent does and  *)
(* however its control loop is organized: position commands are sent in    *)
(* the active phase only, that phase is entered after NbStops consecutive  *)
(* cycles of stop commands, a shutdown is final, and it ends after stop    *)
(* commands have been cycled once more.                                    *)
(***************************************************************************)
EXTENDS Naturals

CONSTANT NbStops

VARIABLES
    phase,
    stops     \* consecutive cycles of stop commands, up to NbStops

Init == phase = "stopped" /\ stops = 0

SendStops ==
    /\ phase # "over"
    /\ stops' = IF stops < NbStops THEN stops + 1 ELSE stops
    /\ UNCHANGED phase

SendPositions ==
    /\ phase = "active"
    /\ stops' = 0
    /\ UNCHANGED phase

Start ==
    /\ phase = "stopped"
    /\ stops = NbStops
    /\ phase' = "active"
    /\ UNCHANGED stops

Stop ==
    /\ phase = "active"
    /\ phase' = "stopped"
    /\ UNCHANGED stops

ShutDown ==
    /\ phase \in {"stopped", "active"}
    /\ phase' = "shutdown"
    /\ UNCHANGED stops

Finish ==
    /\ phase = "shutdown"
    /\ stops >= NbStops - 1
    /\ phase' = "over"
    /\ UNCHANGED stops

Next == SendStops \/ SendPositions \/ Start \/ Stop \/ ShutDown \/ Finish

Spec == Init /\ [][Next]_<<phase, stops>>

=============================================================================
