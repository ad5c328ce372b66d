-------------------------------- MODULE Setup --------------------------------
(***************************************************************************)
(* The scripts of tools/setup on one robot, one at a time: the access      *)
(* point, the servos, and configure_cpu_isolation.py, described here, that *)
(* edits the only line of the file of boot parameters.                     *)
(***************************************************************************)
EXTENDS AccessPointSetup, ServoSetup

VARIABLES
    cmdline,     \* the boot parameters, as a set of at most one line
    new_line,    \* what the script is about to write there, if it is
    cpu_done     \* whether the last run of the script returned

cpu_vars == <<cmdline, new_line, cpu_done>>
vars == <<ap_vars, servo_vars, cpu_vars>>

\* The other parameters, the value of isolcpus, the first-boot assistant.
Line == [others : BOOLEAN, isolcpus : {"none", "theirs", "1,2,3"}, firstboot : BOOLEAN]

TypeOK ==
    /\ APTypeOK /\ ServoTypeOK
    /\ cmdline \subseteq Line /\ new_line \subseteq Line /\ cpu_done \in BOOLEAN

Init ==
    /\ APInit /\ ServoInit
    /\ \E line \in Line : line.others /\ cmdline = {line}
    /\ new_line = {} /\ cpu_done = FALSE

Idle == ap.op = 0 /\ servo_pc = 0 /\ new_line = {}

-----------------------------------------------------------------------------

new_items(line) == [line EXCEPT !.isolcpus = "1,2,3", !.firstboot = FALSE]

\* The comparison comes after the items of the assistant were removed.
AlreadyConfigured(line) == line.isolcpus = "1,2,3"

NoItems == [others |-> FALSE, isolcpus |-> "none", firstboot |-> FALSE]

\* The assertion that there is one line: an empty file is refused.
CanConfigure_always == TRUE

CanConfigure == cmdline # {}

StartCpuIsolation ==
    /\ \E line \in (IF cmdline = {} THEN {NoItems} ELSE cmdline) :
         IF CanConfigure
         THEN /\ new_line' = IF AlreadyConfigured(line) THEN {} ELSE {new_items(line)}
              /\ cpu_done' = AlreadyConfigured(line)
         ELSE new_line' = {} /\ cpu_done' = FALSE
    /\ UNCHANGED cmdline

\* The file is truncated when it is opened, and written when it is closed.
CpuIsolationStep ==
    /\ new_line # {}
    /\ \/ /\ cmdline # {} /\ cmdline' = {}
          /\ UNCHANGED <<new_line, cpu_done>>
       \/ /\ cmdline = {} /\ cmdline' = new_line
          /\ new_line' = {} /\ cpu_done' = TRUE

CpuIsolationIsKilled ==
    /\ new_line # {} /\ new_line' = {}
    /\ UNCHANGED <<cmdline, cpu_done>>

-----------------------------------------------------------------------------

StartScript ==
    /\ Idle
    /\ \/ StartAccessPoint /\ UNCHANGED <<servo_vars, cpu_vars>>
       \/ StartServos /\ UNCHANGED <<ap_vars, cpu_vars>>
       \/ StartCpuIsolation /\ UNCHANGED <<ap_vars, servo_vars>>

ScriptStep ==
    \/ AccessPointStep /\ UNCHANGED <<servo_vars, cpu_vars>>
    \/ run_shell_command /\ UNCHANGED <<ap_vars, cpu_vars>>
    \/ CpuIsolationStep /\ UNCHANGED <<ap_vars, servo_vars>>

ScriptFails ==
    \/ (RunFails \/ ScriptIsKilled) /\ UNCHANGED <<servo_vars, cpu_vars>>
    \/ ShellCommandFails /\ UNCHANGED <<ap_vars, cpu_vars>>
    \/ CpuIsolationIsKilled /\ UNCHANGED <<ap_vars, servo_vars>>

\* Without boot parameters the computer does not come back.
PowerCycle ==
    /\ cmdline # {} /\ new_line' = {}
    /\ Reboot /\ ServosPowerCycle
    /\ UNCHANGED <<cmdline, cpu_done>>

Next == StartScript \/ ScriptStep \/ ScriptFails \/ PowerCycle

Spec == Init /\ [][Next]_vars

-----------------------------------------------------------------------------
(***************************************************************************)
(* The boot parameters are never replaced by isolcpus alone, which would   *)
(* boot no robot: a run that was cut leaves the file whole or empty, and   *)
(* later runs refuse an empty one.  A run that returns has isolated the    *)
(* cores.                                                                  *)
(***************************************************************************)
KeepsBootParameters ==
    /\ \A line \in cmdline : line.others
    /\ cpu_done => \A line \in cmdline \cup new_line : line.isolcpus = "1,2,3"

-----------------------------------------------------------------------------
(***************************************************************************)
(* The inductive invariant                                                 *)
(***************************************************************************)

\* There is at most one line, in the file and about to be written, and the one
\* to write is configured and has the other parameters.
CpuInv ==
    /\ cmdline \subseteq Line /\ new_line \subseteq Line /\ cpu_done \in BOOLEAN
    /\ \A a, b \in cmdline : a = b
    /\ \A a, b \in new_line : a = b
    /\ \A line \in new_line : line.others /\ AlreadyConfigured(line)
    /\ KeepsBootParameters

IInv ==
    /\ APInv
    /\ ServoInv
    /\ CpuInv

=============================================================================
