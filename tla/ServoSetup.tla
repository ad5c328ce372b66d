----------------------------- MODULE ServoSetup -----------------------------
(***************************************************************************)
(* tools/setup/configure_servos.py: the script sets parameters one by one  *)
(* in the memory of each servo, with one shell command each, then has each *)
(* servo write its configuration.  The first command that fails ends it.   *)
(***************************************************************************)
EXTENDS Naturals, Sequences

CONSTANTS
    NumServos

ASSUME ServoAssumption == NumServos \in Nat \ {0}

VARIABLES
    servo_pc,     \* next command of the script, 0 when it does not run
    ram,          \* parameters that have their value in the memory of a servo
    persisted,    \* ... and in the configuration it has written
    servos_done   \* whether the last run went to its end

servo_vars == <<servo_pc, ram, persisted, servos_done>>

Params == <<"position_limits", "velocity_limits", "default_limits", "gains">>
AllParams == {Params[i] : i \in DOMAIN Params}
ALL_SERVOS == 1 .. NumServos

ServoTypeOK ==
    /\ servo_pc \in 0 .. (Len(Params) + 1) * NumServos
    /\ ram \in [ALL_SERVOS -> SUBSET AllParams]
    /\ persisted \in [ALL_SERVOS -> SUBSET AllParams]
    /\ servos_done \in BOOLEAN

ServoInit ==
    /\ servo_pc = 0 /\ servos_done = FALSE
    /\ ram = [s \in ALL_SERVOS |-> {}]
    /\ persisted = [s \in ALL_SERVOS |-> {}]

StartServos ==
    /\ servo_pc = 0
    /\ servo_pc' = 1 /\ servos_done' = FALSE
    /\ UNCHANGED <<ram, persisted>>

\* One function after the other sets its parameter in all servos.  Those that
\* set two (a maximum and a minimum) are taken to set them at once.
Servo == 1 + ((servo_pc - 1) % NumServos)
Round == 1 + ((servo_pc - 1) \div NumServos)

configure_servo_for_good ==
    /\ Round <= Len(Params)
    /\ ram' = [ram EXCEPT ![Servo] = @ \cup {Params[Round]}]
    /\ persisted' = [persisted EXCEPT ![Servo] = ram'[Servo]]

configure_servo ==
    /\ Round <= Len(Params)
    /\ ram' = [ram EXCEPT ![Servo] = @ \cup {Params[Round]}]
    /\ UNCHANGED persisted

write_servo_configuration ==
    /\ Round > Len(Params)
    /\ persisted' = [persisted EXCEPT ![Servo] = ram[Servo]]
    /\ UNCHANGED ram

run_shell_command ==
    /\ servo_pc # 0
    /\ configure_servo \/ write_servo_configuration
    /\ LET last == (Len(Params) + 1) * NumServos
       IN  /\ servo_pc' = IF servo_pc < last THEN servo_pc + 1 ELSE 0
           /\ servos_done' = (servo_pc = last)

\* The command fails, whether the servo has done what it says or not.
ShellCommandFails ==
    /\ servo_pc # 0
    /\ configure_servo \/ write_servo_configuration \/ UNCHANGED <<ram, persisted>>
    /\ servo_pc' = 0
    /\ UNCHANGED servos_done

\* The servos and the computer share their battery.
ServosPowerCycle ==
    /\ ram' = persisted
    /\ servo_pc' = 0
    /\ UNCHANGED <<persisted, servos_done>>

-----------------------------------------------------------------------------
(***************************************************************************)
(* After any number of runs that failed or were cut at any point, a servo  *)
(* that reboots has all the limits and gains of the script or none of them:*)
(* there are no gains without limits.  (Two servos may still differ.)  A   *)
(* run that goes to its end has configured all servos for good, whatever   *)
(* earlier runs left behind and however often the power is cut after it.   *)
(***************************************************************************)
NoPartialServoConfiguration ==
    /\ \A s \in ALL_SERVOS : persisted[s] \in {{}, AllParams}
    /\ servos_done => \A s \in ALL_SERVOS : ram[s] = AllParams /\ persisted[s] = AllParams

-----------------------------------------------------------------------------
(***************************************************************************)
(* The inductive invariant, along the commands: a run that gets to its     *)
(* last round has given all parameters to all servos, so that what they    *)
(* write then is whole.                                                    *)
(***************************************************************************)

CommandsSoFar ==
    servo_pc # 0 =>
        /\ ~servos_done
        /\ \A s \in ALL_SERVOS, r \in DOMAIN Params :
              (r < Round \/ (r = Round /\ s < Servo)) => Params[r] \in ram[s]
        /\ \A s \in ALL_SERVOS :
              (Round > Len(Params) /\ s < Servo) => persisted[s] = AllParams

ServoInv ==
    /\ ServoTypeOK
    /\ CommandsSoFar
    /\ \A s \in ALL_SERVOS : persisted[s] \subseteq ram[s]
    /\ NoPartialServoConfiguration

=============================================================================
