---------------------------- MODULE SetupProofs ----------------------------
(***************************************************************************)
(* Proofs about the setup scripts: each keeps its part of the inductive    *)
(* invariant of Setup.tla, step by step and cut anywhere, for all sets of  *)
(* arguments, numbers of runs and numbers of servos.                       *)
(***************************************************************************)
EXTENDS Setup, Integers, TLAPS

-----------------------------------------------------------------------------
(***************************************************************************)
(* The boot parameters                                                     *)
(***************************************************************************)

LEMMA InitCpu == Init => CpuInv
  BY DEF Init, CpuInv, KeepsBootParameters, Line

\* What is to be written: the line of the file, with the cores isolated.
LEMMA NewItemsAreALine ==
    ASSUME NEW line \in Line
    PROVE  /\ new_items(line) \in Line
           /\ new_items(line).others = line.others
           /\ new_items(line).isolcpus = "1,2,3"
  BY DEF new_items, Line

LEMMA StartCpu == CpuInv /\ new_line = {} /\ StartCpuIsolation => CpuInv'
  <1> SUFFICES ASSUME CpuInv, new_line = {}, StartCpuIsolation PROVE CpuInv'
    OBVIOUS
  <1>1. UNCHANGED cmdline
    BY DEF StartCpuIsolation
  <1>2. CASE cmdline = {}
    <2>1. new_line' = {} /\ cpu_done' = FALSE
      BY <1>2 DEF StartCpuIsolation, CanConfigure
    <2> QED  BY <1>1, <1>2, <2>1 DEF CpuInv, KeepsBootParameters
  <1>3. CASE cmdline # {}
    <2>1. PICK line \in cmdline :
            /\ new_line' = IF AlreadyConfigured(line) THEN {} ELSE {new_items(line)}
            /\ cpu_done' = AlreadyConfigured(line)
      BY <1>3 DEF StartCpuIsolation, CanConfigure
    <2>2. line \in Line /\ line.others /\ cmdline = {line}
      BY DEF CpuInv, KeepsBootParameters
    <2>3. CASE AlreadyConfigured(line)
      BY <1>1, <2>1, <2>2, <2>3 DEF CpuInv, KeepsBootParameters, AlreadyConfigured
    <2>4. CASE ~AlreadyConfigured(line)
      <3>1. new_line' = {new_items(line)} /\ cpu_done' = FALSE
        BY <2>1, <2>4 DEF AlreadyConfigured
      <3> QED
        BY <1>1, <2>2, <3>1, NewItemsAreALine
        DEF CpuInv, KeepsBootParameters, AlreadyConfigured
    <2> QED  BY <2>3, <2>4
  <1> QED  BY <1>2, <1>3

LEMMA CpuSteps == CpuInv /\ (CpuIsolationStep \/ CpuIsolationIsKilled) => CpuInv'
  <1> SUFFICES ASSUME CpuInv, CpuIsolationStep \/ CpuIsolationIsKilled PROVE CpuInv'
    OBVIOUS
  <1>1. CASE CpuIsolationIsKilled
    BY <1>1 DEF CpuIsolationIsKilled, CpuInv, KeepsBootParameters
  <1>2. CASE CpuIsolationStep /\ cmdline # {}
    BY <1>2 DEF CpuIsolationStep, CpuInv, KeepsBootParameters, AlreadyConfigured
  <1>3. CASE CpuIsolationStep /\ cmdline = {}
    BY <1>3 DEF CpuIsolationStep, CpuInv, KeepsBootParameters, AlreadyConfigured
  <1> QED  BY <1>1, <1>2, <1>3

-----------------------------------------------------------------------------
(***************************************************************************)
(* The servos                                                              *)
(***************************************************************************)

LEMMA ParamsAre == Len(Params) = 4 /\ DOMAIN Params = 1 .. 4
                     /\ \A p : p \in AllParams <=> \E r \in 1 .. 4 : p = Params[r]
  BY DEF Params, AllParams

\* Where a command is: in a round, at a servo.
LEMMA RoundAndServo ==
    servo_pc \in Nat \ {0} =>
        /\ Round \in Nat \ {0} /\ Servo \in ALL_SERVOS
        /\ servo_pc = (Round - 1) * NumServos + Servo
  BY ServoAssumption DEF Round, Servo, ALL_SERVOS

\* The place after a place.
LEMMA NextPlace ==
    ASSUME NEW N \in Nat \ {0}, NEW pc \in Nat, NEW r \in Nat, NEW s \in 1 .. N,
           NEW q \in Nat, NEW t \in 1 .. N,
           pc = (r - 1) * N + s, pc + 1 = (q - 1) * N + t
    PROVE  (s < N /\ q = r /\ t = s + 1) \/ (s = N /\ q = r + 1 /\ t = 1)
  <1>1. (q - r) * N = s + 1 - t
    OBVIOUS
  <1>2. ~ q - r >= 2
    <2>1. q - r >= 2 => (q - r) * N >= N + N
      OBVIOUS
    <2> QED  BY <1>1, <2>1
  <1>3. ~ q - r <= -1
    <2>1. q - r <= -1 => (q - r) * N <= -N
      OBVIOUS
    <2> QED  BY <1>1, <2>1
  <1>4. CASE q = r
    BY <1>1, <1>4
  <1>5. CASE q = r + 1
    BY <1>1, <1>5
  <1> QED  BY <1>2, <1>3, <1>4, <1>5

LEMMA FirstCommand == servo_pc = 1 => Round = 1 /\ Servo = 1
  BY ServoAssumption DEF Round, Servo

RoundOf(pc, N) == 1 + ((pc - 1) \div N)
ServoOf(pc, N) == 1 + ((pc - 1) % N)

LEMMA PlaceOf ==
    ASSUME NEW N \in Nat \ {0}, NEW pc \in Nat \ {0}
    PROVE  /\ RoundOf(pc, N) \in Nat \ {0} /\ ServoOf(pc, N) \in 1 .. N
           /\ pc = (RoundOf(pc, N) - 1) * N + ServoOf(pc, N)
  BY DEF RoundOf, ServoOf

LEMMA PlaceOfNext ==
    ASSUME NEW N \in Nat \ {0}, NEW pc \in Nat \ {0}
    PROVE  \/ /\ ServoOf(pc, N) < N
              /\ RoundOf(pc + 1, N) = RoundOf(pc, N)
              /\ ServoOf(pc + 1, N) = ServoOf(pc, N) + 1
           \/ /\ ServoOf(pc, N) = N
              /\ RoundOf(pc + 1, N) = RoundOf(pc, N) + 1
              /\ ServoOf(pc + 1, N) = 1
  <1>1. ASSUME NEW r, NEW s, NEW q, NEW t,
               r = RoundOf(pc, N), s = ServoOf(pc, N),
               q = RoundOf(pc + 1, N), t = ServoOf(pc + 1, N)
        PROVE  (s < N /\ q = r /\ t = s + 1) \/ (s = N /\ q = r + 1 /\ t = 1)
    <2>1. r \in Nat /\ s \in 1 .. N /\ pc = (r - 1) * N + s
      BY ONLY PlaceOf, <1>1
    <2>2. pc + 1 \in Nat \ {0}
      OBVIOUS
    <2>3. q \in Nat /\ t \in 1 .. N /\ pc + 1 = (q - 1) * N + t
      BY ONLY PlaceOf, <1>1, <2>2
    <2> QED
      BY ONLY NextPlace, <2>1, <2>3
  <1> QED
    BY <1>1

\* The next command is for the next servo, or the first one of the next round.
LEMMA NextCommand ==
    ASSUME servo_pc \in Nat \ {0}, servo_pc' = servo_pc + 1
    PROVE  \/ Servo < NumServos /\ Round' = Round /\ Servo' = Servo + 1
           \/ Servo = NumServos /\ Round' = Round + 1 /\ Servo' = 1
  <1>1. Round = RoundOf(servo_pc, NumServos) /\ Servo = ServoOf(servo_pc, NumServos)
    BY DEF Round, Servo, RoundOf, ServoOf
  <1>2. /\ Round' = RoundOf(servo_pc + 1, NumServos)
        /\ Servo' = ServoOf(servo_pc + 1, NumServos)
    BY DEF Round, Servo, RoundOf, ServoOf
  <1> QED
    BY <1>1, <1>2, PlaceOfNext, ServoAssumption

\* The last one is for the last servo, in the round that writes.
LEMMA LastRound ==
    ASSUME servo_pc \in 1 .. 5 * NumServos
    PROVE  /\ Round \in 1 .. 5
           /\ servo_pc = 5 * NumServos => Round = 5 /\ Servo = NumServos
  BY ServoAssumption DEF Round, Servo

LEMMA InitServo == Init => ServoInv
  <1> SUFFICES ASSUME Init PROVE ServoInv
    OBVIOUS
  <1>1. ServoTypeOK
    <2>1. 0 \in 0 .. (Len(Params) + 1) * NumServos
      BY ParamsAre, ServoAssumption
    <2> QED  BY <2>1 DEF Init, ServoInit, ServoTypeOK
  <1> QED
    BY <1>1 DEF Init, ServoInit, ServoInv, CommandsSoFar, NoPartialServoConfiguration

LEMMA StartOfServos == ServoInv /\ StartServos => ServoInv'
  <1> SUFFICES ASSUME ServoInv, StartServos PROVE ServoInv'
    OBVIOUS
  <1>1. servo_pc' = 1 /\ servos_done' = FALSE /\ UNCHANGED <<ram, persisted>>
    BY DEF StartServos
  <1>2. (servo_pc = 1 => Round = 1 /\ Servo = 1)'
    BY FirstCommand, PTL
  <1>3. CommandsSoFar'
    BY <1>1, <1>2, ParamsAre DEF CommandsSoFar, ALL_SERVOS
  <1>4. ServoTypeOK'
    <2>1. 1 \in 0 .. (Len(Params) + 1) * NumServos
      BY ParamsAre, ServoAssumption
    <2> QED  BY <1>1, <2>1 DEF ServoInv, ServoTypeOK
  <1> QED
    BY <1>1, <1>3, <1>4 DEF ServoInv, NoPartialServoConfiguration

\* What a command does to one servo, whether the script gets an error or not.
LEMMA CommandPlace ==
    ASSUME ServoInv, servo_pc # 0
    PROVE  /\ servo_pc \in 1 .. 5 * NumServos
           /\ Round \in 1 .. 5 /\ Servo \in ALL_SERVOS
           /\ servo_pc = 5 * NumServos => Round = 5 /\ Servo = NumServos
  <1>1. servo_pc \in 1 .. 5 * NumServos
    BY ParamsAre, ServoAssumption DEF ServoInv, ServoTypeOK
  <1> QED
    BY <1>1, LastRound, RoundAndServo, ServoAssumption

LEMMA ConfigureServo ==
    ASSUME ServoInv, servo_pc # 0, configure_servo
    PROVE  /\ Round \in 1 .. 4 /\ persisted' = persisted
           /\ ram' \in [ALL_SERVOS -> SUBSET AllParams]
           /\ Params[Round] \in ram'[Servo]
           /\ \A s \in ALL_SERVOS : ram[s] \subseteq ram'[s]
  <1>1. Round \in 1 .. 4 /\ Servo \in ALL_SERVOS
    BY CommandPlace, ParamsAre DEF configure_servo
  <1>2. Params[Round] \in AllParams
    BY <1>1, ParamsAre
  <1>3. ram \in [ALL_SERVOS -> SUBSET AllParams]
    BY DEF ServoInv, ServoTypeOK
  <1> QED
    BY <1>1, <1>2, <1>3 DEF configure_servo

\* What a servo writes is whole.
LEMMA WriteServoConfiguration ==
    ASSUME ServoInv, servo_pc # 0, write_servo_configuration
    PROVE  /\ Round = 5 /\ ram' = ram
           /\ \A s \in ALL_SERVOS : ram[s] = AllParams
           /\ persisted' = [persisted EXCEPT ![Servo] = AllParams]
  <1>1. Round = 5 /\ Servo \in ALL_SERVOS
    BY CommandPlace, ParamsAre DEF write_servo_configuration
  <1>2. ASSUME NEW s \in ALL_SERVOS PROVE ram[s] = AllParams
    <2>1. ram[s] \subseteq AllParams
      BY DEF ServoInv, ServoTypeOK
    <2>2. \A r \in 1 .. 4 : Params[r] \in ram[s]
      BY <1>1, ParamsAre DEF ServoInv, CommandsSoFar
    <2> QED  BY <2>1, <2>2, ParamsAre
  <1> QED
    BY <1>1, <1>2 DEF write_servo_configuration

\* Every command, failed or not, leaves parameters that are whole where they
\* were, and no servo with parameters it would lose.
LEMMA CommandKeeps ==
    ASSUME ServoInv, servo_pc # 0,
           configure_servo \/ write_servo_configuration \/ UNCHANGED <<ram, persisted>>
    PROVE  /\ ram' \in [ALL_SERVOS -> SUBSET AllParams]
           /\ persisted' \in [ALL_SERVOS -> SUBSET AllParams]
           /\ \A s \in ALL_SERVOS : persisted'[s] \subseteq ram'[s]
           /\ \A s \in ALL_SERVOS : persisted'[s] \in {{}, AllParams}
  <1> USE DEF ServoInv, ServoTypeOK, NoPartialServoConfiguration
  <1>1. CASE configure_servo
    <2>1. /\ persisted' = persisted /\ ram' \in [ALL_SERVOS -> SUBSET AllParams]
          /\ \A s \in ALL_SERVOS : ram[s] \subseteq ram'[s]
      BY <1>1, ConfigureServo
    <2> QED  BY <2>1
  <1>2. CASE write_servo_configuration
    <2>1. /\ ram' = ram /\ \A s \in ALL_SERVOS : ram[s] = AllParams
          /\ persisted' = [persisted EXCEPT ![Servo] = AllParams]
      BY <1>2, WriteServoConfiguration
    <2> HIDE DEF NoPartialServoConfiguration
    <2>2. persisted' \in [ALL_SERVOS -> SUBSET AllParams]
      BY <2>1
    <2>3. ASSUME NEW s \in ALL_SERVOS
          PROVE  persisted'[s] = persisted[s] \/ persisted'[s] = AllParams
      BY <2>1
    <2>4. \A s \in ALL_SERVOS : persisted[s] \in {{}, AllParams}
      BY DEF NoPartialServoConfiguration
    <2>5. \A s \in ALL_SERVOS : persisted'[s] \in {{}, AllParams}
      BY <2>3, <2>4
    <2>6. \A s \in ALL_SERVOS : persisted'[s] \subseteq ram'[s]
      BY <2>1, <2>3
    <2> QED  BY <2>1, <2>2, <2>5, <2>6
  <1>3. CASE UNCHANGED <<ram, persisted>>
    BY <1>3
  <1> QED  BY <1>1, <1>2, <1>3

LEMMA FailedCommand == ServoInv /\ ShellCommandFails => ServoInv'
  <1> SUFFICES ASSUME ServoInv, ShellCommandFails PROVE ServoInv'
    OBVIOUS
  <1>1. servo_pc # 0 /\ servo_pc' = 0 /\ UNCHANGED servos_done
    BY DEF ShellCommandFails
  <1>2. /\ ram' \in [ALL_SERVOS -> SUBSET AllParams]
        /\ persisted' \in [ALL_SERVOS -> SUBSET AllParams]
        /\ \A s \in ALL_SERVOS : persisted'[s] \subseteq ram'[s]
        /\ \A s \in ALL_SERVOS : persisted'[s] \in {{}, AllParams}
    BY <1>1, CommandKeeps DEF ShellCommandFails
  <1>3. servos_done \in BOOLEAN /\ ~servos_done
    BY <1>1 DEF ServoInv, ServoTypeOK, CommandsSoFar
  <1>4. 0 \in 0 .. (Len(Params) + 1) * NumServos
    BY ParamsAre, ServoAssumption
  <1> QED
    BY <1>1, <1>2, <1>3, <1>4
    DEF ServoInv, ServoTypeOK, CommandsSoFar, NoPartialServoConfiguration

LEMMA PowerOfServos == ServoInv /\ ServosPowerCycle => ServoInv'
  <1> SUFFICES ASSUME ServoInv, ServosPowerCycle PROVE ServoInv'
    OBVIOUS
  <1>1. 0 \in 0 .. (Len(Params) + 1) * NumServos
    BY ParamsAre, ServoAssumption
  <1> QED
    BY <1>1
    DEF ServosPowerCycle, ServoInv, ServoTypeOK, CommandsSoFar, NoPartialServoConfiguration

LEMMA ServoCommand == ServoInv /\ run_shell_command => ServoInv'
  <1> SUFFICES ASSUME ServoInv, run_shell_command PROVE ServoInv'
    OBVIOUS
  <1>1. /\ servo_pc # 0 /\ (configure_servo \/ write_servo_configuration)
        /\ servo_pc' = IF servo_pc < 5 * NumServos THEN servo_pc + 1 ELSE 0
        /\ servos_done' = (servo_pc = 5 * NumServos)
    BY ParamsAre DEF run_shell_command
  <1>2. /\ servo_pc \in 1 .. 5 * NumServos
        /\ Round \in 1 .. 5 /\ Servo \in ALL_SERVOS
        /\ servo_pc = 5 * NumServos => Round = 5 /\ Servo = NumServos
    BY <1>1, CommandPlace
  <1>3. /\ ram' \in [ALL_SERVOS -> SUBSET AllParams]
        /\ persisted' \in [ALL_SERVOS -> SUBSET AllParams]
        /\ \A s \in ALL_SERVOS : persisted'[s] \subseteq ram'[s]
        /\ \A s \in ALL_SERVOS : persisted'[s] \in {{}, AllParams}
    BY <1>1, CommandKeeps
  <1>4. ServoTypeOK'
    <2>1. servo_pc' \in 0 .. (Len(Params) + 1) * NumServos
      BY <1>1, <1>2, ParamsAre, ServoAssumption
    <2>2. servos_done' \in BOOLEAN
      BY <1>1
    <2> QED  BY <1>3, <2>1, <2>2 DEF ServoTypeOK
  \* What the rounds before this one, and this one so far, have set stays set.
  <1>5. ASSUME NEW s \in ALL_SERVOS, NEW r \in 1 .. 4,
               r < Round \/ (r = Round /\ s <= Servo)
        PROVE  Params[r] \in ram'[s]
    <2>1. CASE r = Round /\ s = Servo
      <3>1. configure_servo
        BY <1>1, <2>1, WriteServoConfiguration
      <3> QED  BY <1>1, <2>1, <3>1, ConfigureServo
    <2>2. CASE ~(r = Round /\ s = Servo)
      <3>1. r < Round \/ (r = Round /\ s < Servo)
        BY <1>2, <1>5, <2>2 DEF ALL_SERVOS
      <3>2. Params[r] \in ram[s]
        BY <1>1, <3>1, ParamsAre DEF ServoInv, CommandsSoFar
      <3>3. ram[s] \subseteq ram'[s]
        BY <1>1, ConfigureServo, WriteServoConfiguration
      <3> QED  BY <3>2, <3>3
    <2> QED  BY <2>1, <2>2
  \* What servos have written in the last round, this one's included.
  <1>6. ASSUME Round = 5, NEW s \in ALL_SERVOS, s <= Servo
        PROVE  persisted'[s] = AllParams
    <2>1. write_servo_configuration
      BY <1>1, <1>6, ConfigureServo
    <2>2. /\ persisted' = [persisted EXCEPT ![Servo] = AllParams]
          /\ persisted \in [ALL_SERVOS -> SUBSET AllParams]
      BY <1>1, <2>1, WriteServoConfiguration DEF ServoInv, ServoTypeOK
    <2>3. CASE s = Servo
      BY <1>2, <2>2, <2>3
    <2>4. CASE s # Servo
      <3>1. s < Servo
        BY <1>2, <1>6, <2>4 DEF ALL_SERVOS
      <3>2. persisted[s] = AllParams
        BY <1>1, <1>6, <3>1, ParamsAre DEF ServoInv, CommandsSoFar
      <3> QED  BY <1>2, <2>2, <2>4, <3>2
    <2> QED  BY <2>3, <2>4
  <1>7. CommandsSoFar'
    <2> SUFFICES ASSUME servo_pc' # 0 PROVE CommandsSoFar'
      BY DEF CommandsSoFar
    <2>1. servo_pc' = servo_pc + 1 /\ servo_pc \in Nat \ {0} /\ ~servos_done'
      <3>1. servo_pc < 5 * NumServos
        BY <1>1
      <3>2. servo_pc # 5 * NumServos
        BY <1>2, <3>1, ServoAssumption
      <3>3. servos_done' = FALSE
        BY <1>1, <3>2
      <3> QED  BY <1>1, <1>2, <3>1, <3>3, ServoAssumption
    <2>2. \/ Servo < NumServos /\ Round' = Round /\ Servo' = Servo + 1
          \/ Servo = NumServos /\ Round' = Round + 1 /\ Servo' = 1
      BY ONLY <2>1, NextCommand
    <2>3. ASSUME NEW s \in ALL_SERVOS, NEW r \in 1 .. 4,
                 r < Round' \/ (r = Round' /\ s < Servo')
          PROVE  Params[r] \in ram'[s]
      <3>1. r < Round \/ (r = Round /\ s <= Servo)
        <4>1. CASE Servo < NumServos /\ Round' = Round /\ Servo' = Servo + 1
          BY <1>2, <2>3, <4>1 DEF ALL_SERVOS
        <4>2. CASE Servo = NumServos /\ Round' = Round + 1 /\ Servo' = 1
          BY <1>2, <2>3, <4>2, ServoAssumption DEF ALL_SERVOS
        <4> QED  BY <2>2, <4>1, <4>2
      <3> QED  BY <1>5, <3>1
    <2>4. ASSUME NEW s \in ALL_SERVOS, Round' > 4, s < Servo'
          PROVE  persisted'[s] = AllParams
      <3>1. Round = 5 /\ s <= Servo
        <4>1. CASE Servo < NumServos /\ Round' = Round /\ Servo' = Servo + 1
          BY <1>2, <2>4, <4>1 DEF ALL_SERVOS
        <4>2. CASE Servo = NumServos /\ Round' = Round + 1 /\ Servo' = 1
          BY <1>2, <2>4, <4>2, ServoAssumption DEF ALL_SERVOS
        <4> QED  BY <2>2, <4>1, <4>2
      <3> QED  BY <1>6, <3>1
    <2> QED  BY <2>1, <2>3, <2>4, ParamsAre DEF CommandsSoFar
  <1>8. ASSUME servos_done', NEW s \in ALL_SERVOS
        PROVE  ram'[s] = AllParams /\ persisted'[s] = AllParams
    <2>1. Round = 5 /\ Servo = NumServos
      BY <1>1, <1>2, <1>8
    <2>2. persisted'[s] = AllParams
      BY <1>6, <2>1, ServoAssumption DEF ALL_SERVOS
    <2> QED  BY <1>3, <2>2
  <1> QED
    BY <1>3, <1>4, <1>7, <1>8 DEF ServoInv, NoPartialServoConfiguration

-----------------------------------------------------------------------------
(***************************************************************************)
(* The access point: its list of operations                                *)
(***************************************************************************)

LEMMA OperationsAre ==
    /\ Len(Operations) = 11
    /\ Operations[1] = "install_packages" /\ Operations[2] = "rfkill"
    /\ Operations[3] = "interfaces" /\ Operations[4] = "dhcpcd.conf"
    /\ Operations[5] = "hostapd.conf" /\ Operations[6] = "default/hostapd"
    /\ Operations[7] = "unmask" /\ Operations[8] = "enable"
    /\ Operations[9] = "start" /\ Operations[10] = "daemon-reload"
    /\ Operations[11] = "dnsmasq.conf"
  BY DEF Operations

\* No operation is twice in the list, and none is called "none".
LEMMA OperationsDiffer ==
    /\ \A i, j \in 1 .. 11 : Operations[i] = Operations[j] => i = j
    /\ \A i \in 1 .. 11 : Operations[i] # "none"
  <1>1. ASSUME NEW i \in 1 .. 11, NEW j \in 1 .. 11, Operations[i] = Operations[j]
        PROVE  i = j
    <2>1. i \in {1, 2, 3, 4, 5, 6, 7, 8, 9, 10, 11}
      OBVIOUS
    <2>2. j \in {1, 2, 3, 4, 5, 6, 7, 8, 9, 10, 11}
      OBVIOUS
    <2> QED  BY <1>1, <2>1, <2>2, OperationsAre
  <1>2. ASSUME NEW i \in 1 .. 11 PROVE Operations[i] # "none"
    <2>1. i \in {1, 2, 3, 4, 5, 6, 7, 8, 9, 10, 11}
      OBVIOUS
    <2> QED  BY <2>1, OperationsAre
  <1> QED  BY <1>1, <1>2

\* The operations that put files in place or change the service.
LEMMA PlacesInTheList ==
    /\ \A f \in Files : \E i \in 1 .. 11 : Operations[i] = f
    /\ \E i \in 1 .. 11 : Operations[i] = "unmask"
    /\ \E i \in 1 .. 11 : Operations[i] = "enable"
  <1>1. 3 \in 1 .. 11 /\ 4 \in 1 .. 11 /\ 5 \in 1 .. 11 /\ 6 \in 1 .. 11
          /\ 7 \in 1 .. 11 /\ 8 \in 1 .. 11 /\ 11 \in 1 .. 11
    OBVIOUS
  <1> QED  BY <1>1, OperationsAre DEF Files

LEMMA RunFields ==
    ASSUME APTypeOK
    PROVE  /\ ap.run \in 0 .. MaxRuns /\ ap.args \in Arguments
           /\ ap.op \in 0 .. 11
           /\ ap.step \in {"check", "copy", "truncate", "write"}
           /\ ap = [run |-> ap.run, args |-> ap.args, op |-> ap.op, step |-> ap.step]
  BY OperationsAre DEF APTypeOK

\* An operation that runs is not one of those the run has been through.
LEMMA OpIsNext ==
    ASSUME APTypeOK, ap.op # 0
    PROVE  ap.op \in 1 .. 11 /\ Op = Operations[ap.op] /\ Op # "none" /\ ~Past(Op)
  <1>1. ap.op \in 1 .. 11
    BY RunFields
  <1>2. Op = Operations[ap.op] /\ Op # "none"
    BY <1>1, OperationsDiffer DEF Op
  <1>3. ASSUME NEW i \in 1 .. (ap.op - 1) PROVE Operations[i] # Op
    <2>1. i \in 1 .. 11 /\ i # ap.op
      BY <1>1
    <2> QED  BY <1>1, <1>2, <2>1, OperationsDiffer
  <1> QED  BY <1>1, <1>2, <1>3 DEF Past

\* Packages are installed first.
LEMMA InstallsFirst ==
    ASSUME APTypeOK, Op = "install_packages", NEW operation
    PROVE  ~Past(operation)
  <1>1. ap.op # 0
    BY DEF Op
  <1>2. ap.op \in 1 .. 11 /\ Operations[ap.op] = Operations[1]
    BY <1>1, OpIsNext, OperationsAre
  <1>3. ap.op = 1
    <2>1. 1 \in 1 .. 11
      OBVIOUS
    <2> QED  BY <1>2, <2>1, OperationsDiffer
  <1> QED  BY <1>3 DEF Past

\* An operation that returns gets to the next one, or to the end.
LEMMA AfterReturn ==
    ASSUME APTypeOK, ap.op # 0, Returns
    PROVE  /\ ap'.run = ap.run /\ ap'.args = ap.args /\ ap'.step = "check"
           /\ ap' \in [run : 0 .. MaxRuns, args : Arguments, op : 0 .. Len(Operations),
                       step : {"check", "copy", "truncate", "write"}]
           /\ ap'.op # 0 => ap_done' = "none"
           /\ ap'.op = 0 => ap_done' = ap.args
           /\ ap'.op # 0 => \A f : (Past(f))' <=> (Past(f) \/ f = Op)
           /\ ap'.op = 0 => \A i \in 1 .. 11 : Past(Operations[i]) \/ Operations[i] = Op
  <1>1. ap.op \in 1 .. 11 /\ Op = Operations[ap.op]
    BY OpIsNext
  <1>2. /\ ap' = [ap EXCEPT !.op = IF ap.op < 11 THEN ap.op + 1 ELSE 0, !.step = "check"]
        /\ ap_done' = IF ap.op < 11 THEN "none" ELSE ap.args
    BY OperationsAre DEF Returns
  <1>3. /\ ap'.run = ap.run /\ ap'.args = ap.args /\ ap'.step = "check"
        /\ ap'.op = IF ap.op < 11 THEN ap.op + 1 ELSE 0
    BY <1>2 DEF APTypeOK
  <1>4. ap' \in [run : 0 .. MaxRuns, args : Arguments, op : 0 .. Len(Operations),
                 step : {"check", "copy", "truncate", "write"}]
    <2>1. (IF ap.op < 11 THEN ap.op + 1 ELSE 0) \in 0 .. Len(Operations)
      BY <1>1, OperationsAre
    <2> QED  BY <1>2, <2>1 DEF APTypeOK
  <1>5. CASE ap.op < 11
    <2>1. ap'.op = ap.op + 1 /\ ap'.op # 0 /\ ap_done' = "none"
      BY <1>1, <1>2, <1>3, <1>5
    <2>2. ap'.op - 1 = ap.op
      BY <1>1, <2>1
    <2>3. ASSUME NEW f PROVE (Past(f))' <=> (Past(f) \/ f = Op)
      <3>1. (Past(f))' <=> \E i \in 1 .. ap.op : Operations[i] = f
        BY <2>2 DEF Past
      <3>2. \A i : i \in 1 .. ap.op <=> (i \in 1 .. (ap.op - 1) \/ i = ap.op)
        BY <1>1
      <3> QED  BY <1>1, <3>1, <3>2 DEF Past
    <2> QED  BY <1>3, <1>4, <2>1, <2>3
  <1>6. CASE ap.op = 11
    <2>1. ap'.op = 0 /\ ap_done' = ap.args
      BY <1>2, <1>3, <1>6
    <2>2. ASSUME NEW i \in 1 .. 11 PROVE Past(Operations[i]) \/ Operations[i] = Op
      <3>1. i \in 1 .. (ap.op - 1) \/ i = ap.op
        BY <1>6
      <3> QED  BY <1>1, <3>1 DEF Past
    <2> QED  BY <1>3, <1>4, <2>1, <2>2
  <1> QED  BY <1>1, <1>5, <1>6

\* An original that is kept is in its file or in a backup.
LEMMA OriginalMeans ==
    OriginalIsKept <=> \A f \in HasOriginal : file[f] = "original" \/ InBackup(f)
  BY DEF OriginalIsKept, HasOriginal, InBackup

LEMMA OriginalMeansNext ==
    OriginalIsKept' <=> (\A f \in HasOriginal : file[f] = "original" \/ InBackup(f))'
  BY OriginalMeans, PTL

\* An operation that returns has done its part, and undone none.
LEMMA ReturnKeeps ==
    ASSUME APInv, ap.op # 0, Returns, backup' = backup,
           \A f \in Files : (Past(f) \/ f = Op) => file'[f] = contents(f, ap.args),
           (Past("unmask") \/ Op = "unmask") => ~hostapd'.masked,
           (Past("enable") \/ Op = "enable") => hostapd'.enabled
    PROVE  /\ BackupsInOrder' /\ RunSoFar' /\ ConfiguredWhenDone'
           /\ (ap_done # "none" => (hostapd.enabled /\ ~hostapd.masked))'
  <1>1. APTypeOK /\ BackupsInOrder /\ RunSoFar
    BY DEF APInv
  <1>2. /\ ap'.run = ap.run /\ ap'.args = ap.args /\ ap'.step = "check"
        /\ ap'.op # 0 => ap_done' = "none"
        /\ ap'.op # 0 => \A f : (Past(f))' <=> (Past(f) \/ f = Op)
        /\ ap'.op = 0 => \A i \in 1 .. 11 : Past(Operations[i]) \/ Operations[i] = Op
        /\ ap'.op = 0 => ap_done' = ap.args
    BY <1>1, AfterReturn
  <1>3. /\ \A f \in Files, args \in Arguments : contents(f, args)' = contents(f, args)
        /\ rebooted' = rebooted /\ ~rebooted
    BY <1>1 DEF contents, Returns, RunSoFar
  <1>4. BackupsInOrder'
    <2>1. ASSUME NEW f \in Files, NEW r \in 1 .. MaxRuns, backup[f][r] # "absent",
                 r = ap.run, ap'.op # 0
          PROVE  (Past(f))'
      BY <1>1, <1>2, <2>1 DEF BackupsInOrder
    <2>2. \A f \in Files, r \in 1 .. MaxRuns : backup[f][r] # "absent" => r <= ap.run
      BY <1>1 DEF BackupsInOrder
    <2> QED  BY <1>2, <2>1, <2>2 DEF BackupsInOrder
  <1>5. RunSoFar'
    <2>1. ap.run > 0
      BY <1>1 DEF RunSoFar
    <2> QED  BY <1>2, <1>3, <2>1 DEF RunSoFar, contents
  <1>6. ConfiguredWhenDone'
    <2>1. CASE ap'.op # 0
      BY <1>2, <2>1 DEF ConfiguredWhenDone
    <2>2. CASE ap'.op = 0
      <3>1. \A f \in Files : Past(f) \/ f = Op
        BY <1>2, <2>2, PlacesInTheList
      <3> QED  BY <1>2, <1>3, <2>2, <3>1 DEF ConfiguredWhenDone, contents
    <2> QED  BY <2>1, <2>2
  <1>7. (ap_done # "none" => (hostapd.enabled /\ ~hostapd.masked))'
    <2>1. CASE ap'.op # 0
      BY <1>2, <2>1
    <2>2. CASE ap'.op = 0
      <3>1. (Past("unmask") \/ Op = "unmask") /\ (Past("enable") \/ Op = "enable")
        BY <1>2, <2>2, PlacesInTheList
      <3> QED  BY <3>1
    <2> QED  BY <2>1, <2>2
  <1> QED  BY <1>4, <1>5, <1>6, <1>7

\* A run that ends before the last operation leaves its backups as they are.
LEMMA ExitKeeps ==
    ASSUME APInv, Exits, backup' = backup
    PROVE  /\ BackupsInOrder' /\ RunSoFar' /\ ap_done' = ap_done
           /\ ap' \in [run : 0 .. MaxRuns, args : Arguments, op : 0 .. Len(Operations),
                       step : {"check", "copy", "truncate", "write"}]
  <1>1. APTypeOK /\ BackupsInOrder
    BY DEF APInv
  <1>2. ap' = [ap EXCEPT !.op = 0, !.step = "check"] /\ ap_done' = ap_done
    BY DEF Exits
  <1>3. ap'.run = ap.run /\ ap'.op = 0 /\ ap'.step = "check"
    BY <1>1, <1>2 DEF APTypeOK
  <1>4. ap' \in [run : 0 .. MaxRuns, args : Arguments, op : 0 .. Len(Operations),
                 step : {"check", "copy", "truncate", "write"}]
    <2>1. 0 \in 0 .. Len(Operations)
      BY OperationsAre
    <2> QED  BY <1>1, <1>2, <2>1 DEF APTypeOK
  <1>5. BackupsInOrder'
    BY <1>1, <1>3 DEF BackupsInOrder, Op, Files
  <1>6. RunSoFar'
    BY <1>3 DEF RunSoFar
  <1> QED  BY <1>2, <1>4, <1>5, <1>6

\* What a shell command does to files: packages bring theirs, and this is the
\* first operation, so that no file that was put in place is replaced.
LEMMA EffectKeeps ==
    ASSUME APInv, ap.op # 0, Op \notin Files, Effect
    PROVE  /\ file' \in [Files -> Content] /\ installed' \in BOOLEAN
           /\ hostapd' \in [masked : BOOLEAN, enabled : BOOLEAN,
                            running : Arguments \cup {"none"}]
           /\ backup' = backup
           /\ \A f \in Files : Past(f) => file'[f] = file[f]
           /\ (Past("unmask") \/ Op = "unmask") => ~hostapd'.masked
           /\ (Past("enable") \/ Op = "enable") => hostapd'.enabled
           /\ OriginalIsKept'
  <1>1. APTypeOK /\ RunSoFar /\ OriginalIsKept
    BY DEF APInv
  <1>2. CASE Op = "install_packages" /\ ~installed
    <2>1. /\ installed' = TRUE /\ backup' = backup
          /\ file' = [f \in Files |-> IF f \in Packaged THEN "original" ELSE file[f]]
          /\ hostapd' = [hostapd EXCEPT !.masked = TRUE]
      BY <1>2 DEF Effect
    <2>2. \A f : ~Past(f)
      BY <1>1, <1>2, InstallsFirst
    <2>3. file' \in [Files -> Content]
      BY <1>1, <2>1 DEF APTypeOK, Content
    <2>4. hostapd' \in [masked : BOOLEAN, enabled : BOOLEAN,
                        running : Arguments \cup {"none"}]
      BY <1>1, <2>1 DEF APTypeOK
    <2>5. (\A f \in HasOriginal : file[f] = "original" \/ InBackup(f))'
      <3>1. \A f \in {"interfaces", "dhcpcd.conf"} : file[f] = "original" \/ InBackup(f)
        BY <1>1, OriginalMeans DEF HasOriginal
      <3>2. \A f \in {"interfaces", "dhcpcd.conf"} : f \in Files /\ f \notin Packaged
        BY DEF Files, Packaged
      <3>3. \A f \in Packaged : f \in Files
        BY DEF Files, Packaged
      <3> QED  BY <2>1, <3>1, <3>2, <3>3 DEF HasOriginal, InBackup
    <2> QED  BY <1>2, <2>1, <2>2, <2>3, <2>4, <2>5, OriginalMeansNext
  <1>3. CASE ~(Op = "install_packages" /\ ~installed)
    <2>1. /\ installed' = installed /\ backup' = backup /\ file' = file
          /\ hostapd' = CASE Op = "unmask" -> [hostapd EXCEPT !.masked = FALSE]
                          [] Op = "enable" -> [hostapd EXCEPT !.enabled = TRUE]
                          [] Op = "start" /\ CanStart -> Started
                          [] OTHER -> hostapd
      BY <1>3 DEF Effect
    <2>2. OriginalIsKept'
      BY <1>1, <2>1 DEF OriginalIsKept
    <2>3. /\ (Past("unmask") => ~hostapd.masked)
          /\ (Past("enable") => hostapd.enabled)
      BY <1>1 DEF RunSoFar
    <2>4. CASE Op = "unmask"
      BY <1>1, <2>1, <2>2, <2>3, <2>4 DEF APTypeOK
    <2>5. CASE Op = "enable"
      BY <1>1, <2>1, <2>2, <2>3, <2>5 DEF APTypeOK
    <2>6. CASE Op = "start" /\ CanStart
      <3>1. hostapd' = [hostapd EXCEPT !.running =
                          IF hostapd.running = "none" THEN file["hostapd.conf"]
                          ELSE hostapd.running]
        BY <2>1, <2>6 DEF Started
      <3>2. file["hostapd.conf"] \in Arguments
        BY <2>6 DEF CanStart
      <3> QED  BY <1>1, <2>1, <2>2, <2>3, <2>6, <3>1, <3>2 DEF APTypeOK
    <2>7. CASE hostapd' = hostapd /\ Op # "unmask" /\ Op # "enable"
      BY <1>1, <2>1, <2>2, <2>3, <2>7 DEF APTypeOK
    <2> QED  BY <2>1, <2>4, <2>5, <2>6, <2>7
  <1> QED  BY <1>2, <1>3

LEMMA ContentsAre ==
    ASSUME NEW f \in Files, NEW args \in Arguments
    PROVE  contents(f, args) \in Content
  BY DEF contents, Content

\* A step inside ensure_contents: it goes to another step of the same operation.
LEMMA StepOfOperation ==
    ASSUME APTypeOK, NEW step \in {"copy", "truncate", "write"}, GoesTo(step)
    PROVE  /\ ap'.run = ap.run /\ ap'.args = ap.args /\ ap'.op = ap.op /\ ap'.step = step
           /\ ap' \in [run : 0 .. MaxRuns, args : Arguments, op : 0 .. Len(Operations),
                       step : {"check", "copy", "truncate", "write"}]
           /\ ap_done' = ap_done /\ rebooted' = rebooted
           /\ Op' = Op /\ \A f : (Past(f))' <=> Past(f)
  <1>1. /\ ap' = [ap EXCEPT !.step = step]
        /\ ap_done' = ap_done /\ rebooted' = rebooted
    BY DEF GoesTo
  <1>2. ap'.run = ap.run /\ ap'.args = ap.args /\ ap'.op = ap.op /\ ap'.step = step
    BY <1>1 DEF APTypeOK
  <1>3. ap' \in [run : 0 .. MaxRuns, args : Arguments, op : 0 .. Len(Operations),
                 step : {"check", "copy", "truncate", "write"}]
    BY <1>1 DEF APTypeOK
  <1>4. Op' = Op /\ \A f : (Past(f))' <=> Past(f)
    BY <1>2 DEF Op, Past
  <1> QED  BY <1>1, <1>2, <1>3, <1>4

\* Before it gets there, a run has no backup of a file.
LEMMA NoBackupYet ==
    ASSUME APInv, Op \in Files, ap.step = "check"
    PROVE  backup[Op][ap.run] = "absent"
  <1>1. APTypeOK /\ BackupsInOrder /\ RunSoFar /\ ap.op # 0
    BY DEF APInv, Op, Files
  <1>2. ap.run \in 1 .. MaxRuns
    BY <1>1, RunFields DEF RunSoFar
  <1>3. ~Past(Op)
    BY <1>1, OpIsNext
  <1> QED  BY <1>1, <1>2, <1>3 DEF BackupsInOrder

\* What a step inside an operation keeps, when it changes only its own file
\* and its own backup.
LEMMA StepKeeps ==
    ASSUME APInv, Op \in Files, NEW step \in {"copy", "truncate", "write"}, GoesTo(step),
           UNCHANGED <<installed, hostapd>>,
           file' \in [Files -> Content],
           backup' \in [Files -> [1 .. MaxRuns -> Content \cup {"cut"}]],
           \A f \in Files : f # Op => file'[f] = file[f],
           \A f \in Files, r \in 1 .. MaxRuns :
               (f # Op \/ r # ap.run) => backup'[f][r] = backup[f][r],
           step = "copy" => backup'[Op][ap.run] = "cut",
           (Op \in HasOriginal /\ step \in {"truncate", "write"}) =>
               \E r \in 1 .. MaxRuns : backup'[Op][r] = "original",
           (Op \in HasOriginal /\ step = "copy") =>
               (file'[Op] = "original"
                  \/ \E r \in 1 .. MaxRuns : backup'[Op][r] = "original")
    PROVE  APInv'
  <1>1. APTypeOK /\ BackupsInOrder /\ RunSoFar /\ OriginalIsKept /\ ap.op # 0
    BY DEF APInv, Op, Files
  <1>2. /\ ap'.run = ap.run /\ ap'.args = ap.args /\ ap'.op = ap.op /\ ap'.step = step
        /\ ap' \in [run : 0 .. MaxRuns, args : Arguments, op : 0 .. Len(Operations),
                    step : {"check", "copy", "truncate", "write"}]
        /\ ap_done' = ap_done /\ rebooted' = rebooted
        /\ Op' = Op /\ \A f : (Past(f))' <=> Past(f)
    BY <1>1, StepOfOperation
  <1>3. ap_done' = "none" /\ ~Past(Op) /\ ap.run \in 1 .. MaxRuns
    BY <1>1, <1>2, OpIsNext, RunFields DEF RunSoFar
  <1>4. APTypeOK'
    BY <1>1, <1>2 DEF APTypeOK
  <1>5. HasOriginal' = HasOriginal
    BY DEF HasOriginal
  <1>6. BackupsInOrder'
    <2>1. ASSUME NEW f \in Files, NEW r \in 1 .. MaxRuns, backup'[f][r] # "absent"
          PROVE  r <= ap.run /\ (r = ap.run => (Past(f) \/ Op = f))
      <3>1. CASE f = Op /\ r = ap.run
        BY <1>3, <3>1
      <3>2. CASE ~(f = Op /\ r = ap.run)
        BY <1>1, <2>1, <3>2 DEF BackupsInOrder
      <3> QED  BY <3>1, <3>2
    <2>2. ap'.step # "check"
      BY <1>2
    <2>3. Op \in HasOriginal /\ step \in {"truncate", "write"} => (InBackup(Op))'
      BY <1>2 DEF InBackup
    <2> QED  BY <1>2, <1>5, <2>1, <2>2, <2>3 DEF BackupsInOrder, InBackup
  <1>7. RunSoFar'
    <2>1. \A f \in Files : Past(f) => file'[f] = contents(f, ap.args)
      BY <1>1, <1>3 DEF RunSoFar
    <2> QED  BY <1>1, <1>2, <1>3, <2>1 DEF RunSoFar, contents
  <1>8. (\A f \in HasOriginal : file[f] = "original" \/ InBackup(f))'
    <2>1. ASSUME NEW f \in HasOriginal
          PROVE  file'[f] = "original" \/ \E r \in 1 .. MaxRuns : backup'[f][r] = "original"
      <3>1. CASE f = Op
        BY <3>1
      <3>2. CASE f # Op
        <4>1. f \in Files
          BY DEF HasOriginal, Files, Packaged
        <4> QED  BY <1>1, <3>2, <4>1, OriginalMeans DEF InBackup
      <3> QED  BY <3>1, <3>2
    <2> QED  BY <1>5, <2>1 DEF InBackup
  <1> QED
    BY <1>3, <1>4, <1>6, <1>7, <1>8, OriginalMeansNext DEF APInv, ConfiguredWhenDone

LEMMA FileStep == APInv /\ Op \in Files /\ EnsureContents(Op) => APInv'
  <1> SUFFICES ASSUME APInv, Op \in Files, EnsureContents(Op) PROVE APInv'
    OBVIOUS
  <1>1. /\ APTypeOK /\ BackupsInOrder /\ RunSoFar /\ OriginalIsKept /\ ap.op # 0
        /\ UNCHANGED <<installed, hostapd>>
    BY DEF APInv, Op, Files, EnsureContents
  <1>2. /\ ap.args \in Arguments /\ ap.run \in 1 .. MaxRuns
        /\ file \in [Files -> Content]
        /\ backup \in [Files -> [1 .. MaxRuns -> Content \cup {"cut"}]]
        /\ contents(Op, ap.args) \in Content
    BY <1>1, RunFields, ContentsAre DEF APTypeOK, RunSoFar
  <1>3. Op \in HasOriginal => file[Op] = "original" \/ InBackup(Op)
    BY <1>1, OriginalMeans
  <1>4. ORIG_SUFFIX(ap.run) = ap.run
    BY DEF ORIG_SUFFIX
  \* It is left as it is, or has just been written.
  <1>5. ASSUME Returns, backup' = backup, file' = [file EXCEPT ![Op] = contents(Op, ap.args)],
               Op \in HasOriginal =>
                   (contents(Op, ap.args) = "original" \/ InBackup(Op)
                      \/ file[Op] = contents(Op, ap.args))
        PROVE  APInv'
    <2>1. \A f \in Files : (Past(f) \/ f = Op) => file'[f] = contents(f, ap.args)
      BY <1>1, <1>2, <1>5 DEF RunSoFar
    <2>2. /\ (Past("unmask") \/ Op = "unmask") => ~hostapd'.masked
          /\ (Past("enable") \/ Op = "enable") => hostapd'.enabled
      BY <1>1 DEF RunSoFar, Files
    <2>3. /\ BackupsInOrder' /\ RunSoFar' /\ ConfiguredWhenDone'
          /\ (ap_done # "none" => (hostapd.enabled /\ ~hostapd.masked))'
      BY <1>1, <1>5, <2>1, <2>2, ReturnKeeps
    <2>4. APTypeOK'
      <3>1. /\ ap' \in [run : 0 .. MaxRuns, args : Arguments, op : 0 .. Len(Operations),
                        step : {"check", "copy", "truncate", "write"}]
            /\ ap_done' \in Arguments \cup {"none"} /\ rebooted' = rebooted
        BY <1>1, <1>2, <1>5, AfterReturn DEF Returns
      <3>2. file' \in [Files -> Content]
        BY <1>2, <1>5
      <3> QED  BY <1>1, <1>5, <3>1, <3>2 DEF APTypeOK
    <2>5. (\A f \in HasOriginal : file[f] = "original" \/ InBackup(f))'
      <3>1. ASSUME NEW f \in HasOriginal
            PROVE  file'[f] = "original" \/ InBackup(f)
        <4>1. f \in Files
          BY DEF HasOriginal, Files, Packaged
        <4>2. CASE f = Op
          BY <1>2, <1>3, <1>5, <4>2
        <4>3. CASE f # Op
          BY <1>1, <1>2, <1>5, <4>1, <4>3, OriginalMeans
        <4> QED  BY <4>2, <4>3
      <3> QED  BY <1>1, <1>5, <3>1 DEF HasOriginal, InBackup
    <2> QED  BY <2>3, <2>4, <2>5, OriginalMeansNext DEF APInv
  <1>6. CASE ap.step = "check" /\ file[Op] = contents(Op, ap.args)
               /\ Returns /\ UNCHANGED <<file, backup>>
    <2>1. file' = [file EXCEPT ![Op] = contents(Op, ap.args)]
      BY <1>2, <1>6
    <2> QED  BY <1>5, <1>6, <2>1
  <1>7. CASE ap.step = "check"
               /\ backup' = [backup EXCEPT ![Op][ORIG_SUFFIX(ap.run)] = "cut"]
               /\ GoesTo("copy") /\ UNCHANGED file
    <2>1. backup[Op][ap.run] = "absent"
      BY <1>7, NoBackupYet
    <2>2. backup' = [backup EXCEPT ![Op] = [backup[Op] EXCEPT ![ap.run] = "cut"]]
      BY <1>4, <1>7
    <2>3. [backup[Op] EXCEPT ![ap.run] = "cut"] \in [1 .. MaxRuns -> Content \cup {"cut"}]
      BY <1>2
    <2>4. backup' \in [Files -> [1 .. MaxRuns -> Content \cup {"cut"}]]
      BY <1>2, <2>2, <2>3
    <2>5. backup'[Op][ap.run] = "cut"
      BY <1>2, <2>2
    <2>6. \A f \in Files, r \in 1 .. MaxRuns :
             (f # Op \/ r # ap.run) => backup'[f][r] = backup[f][r]
      BY <1>2, <2>2
    <2>7. Op \in HasOriginal => (file'[Op] = "original"
                              \/ \E r \in 1 .. MaxRuns : backup'[Op][r] = "original")
      BY <1>3, <1>7, <2>1, <2>6 DEF InBackup
    <2> QED  BY <1>1, <1>2, <1>7, <2>4, <2>5, <2>6, <2>7, StepKeeps
  <1>8. CASE ap.step = "check" /\ file[Op] = "absent"
               /\ file' = [file EXCEPT ![Op] = "empty"]
               /\ GoesTo("write") /\ UNCHANGED backup
    <2>1. Op \in HasOriginal => \E r \in 1 .. MaxRuns : backup'[Op][r] = "original"
      BY <1>3, <1>8 DEF InBackup
    <2>2. file' \in [Files -> Content]
      BY <1>2, <1>8 DEF Content
    <2> QED  BY <1>1, <1>2, <1>8, <2>1, <2>2, StepKeeps
  <1>9. CASE ap.step = "copy"
               /\ backup' = [backup EXCEPT ![Op][ORIG_SUFFIX(ap.run)] = file[Op]]
               /\ GoesTo(IF Op = "default/hostapd" THEN "write" ELSE "truncate")
               /\ UNCHANGED file
    <2>1. backup[Op][ap.run] = "cut"
      BY <1>1, <1>9 DEF BackupsInOrder
    <2>2. backup' = [backup EXCEPT ![Op] = [backup[Op] EXCEPT ![ap.run] = file[Op]]]
      BY <1>4, <1>9
    <2>3. [backup[Op] EXCEPT ![ap.run] = file[Op]]
            \in [1 .. MaxRuns -> Content \cup {"cut"}]
      BY <1>2
    <2>4. backup' \in [Files -> [1 .. MaxRuns -> Content \cup {"cut"}]]
      BY <1>2, <2>2, <2>3
    <2>5. backup'[Op][ap.run] = file[Op]
      BY <1>2, <2>2
    <2>6. \A f \in Files, r \in 1 .. MaxRuns :
             (f # Op \/ r # ap.run) => backup'[f][r] = backup[f][r]
      BY <1>2, <2>2
    <2>7. Op \in HasOriginal => \E r \in 1 .. MaxRuns : backup'[Op][r] = "original"
      BY <1>2, <1>3, <2>1, <2>5, <2>6 DEF InBackup
    <2> DEFINE step == IF Op = "default/hostapd" THEN "write" ELSE "truncate"
    <2>8. step \in {"truncate", "write"} /\ GoesTo(step)
      BY <1>9
    <2> HIDE DEF step
    <2> QED  BY <1>1, <1>2, <1>9, <2>4, <2>6, <2>7, <2>8, StepKeeps
  <1>10. CASE ap.step = "truncate" /\ file' = [file EXCEPT ![Op] = "empty"]
                /\ GoesTo("write") /\ UNCHANGED backup
    <2>1. Op \in HasOriginal => \E r \in 1 .. MaxRuns : backup'[Op][r] = "original"
      BY <1>1, <1>10 DEF BackupsInOrder, InBackup
    <2>2. file' \in [Files -> Content]
      BY <1>2, <1>10 DEF Content
    <2> QED  BY <1>1, <1>2, <1>10, <2>1, <2>2, StepKeeps
  <1>11. CASE ap.step = "write" /\ file' = [file EXCEPT ![Op] = contents(Op, ap.args)]
                /\ Returns /\ UNCHANGED backup
    <2>1. Op \in HasOriginal => InBackup(Op)
      BY <1>1, <1>11 DEF BackupsInOrder
    <2> QED  BY <1>5, <1>11, <2>1
  <1> QED
    BY <1>6, <1>7, <1>8, <1>9, <1>10, <1>11 DEF EnsureContents

LEMMA InitAccessPoint == Init => APInv
  <1> SUFFICES ASSUME Init PROVE APInv
    OBVIOUS
  <1>1. APInit
    BY DEF Init
  <1>2. /\ ap \in [run : {0}, args : Arguments, op : {0}, step : {"check"}]
        /\ ap.op = 0 /\ ap.run = 0 /\ ap.step = "check"
    BY <1>1 DEF APInit
  <1>3. APTypeOK
    <2>1. 0 \in 0 .. Len(Operations) /\ 0 \in 0 .. MaxRuns
      BY OperationsAre, AccessPointAssumption
    <2>2. ap \in [run : 0 .. MaxRuns, args : Arguments, op : 0 .. Len(Operations),
                  step : {"check", "copy", "truncate", "write"}]
      BY <1>2, <2>1
    <2>3. file \in [Files -> Content]
      BY <1>1 DEF APInit, Content
    <2>4. backup \in [Files -> [1 .. MaxRuns -> Content \cup {"cut"}]]
      BY <1>1 DEF APInit, Content
    <2> QED  BY <1>1, <2>2, <2>3, <2>4 DEF APInit, APTypeOK
  <1>4. BackupsInOrder
    BY <1>1, <1>2 DEF APInit, BackupsInOrder, Op, Files
  <1>5. OriginalIsKept
    <2>1. \A f \in HasOriginal : file[f] = "original"
      BY <1>1 DEF APInit, HasOriginal, Files
    <2> QED  BY <2>1, OriginalMeans
  <1> QED
    BY <1>1, <1>2, <1>3, <1>4, <1>5 DEF APInit, APInv, RunSoFar, ConfiguredWhenDone

\* A new run has a number of its own, that no backup has.
LEMMA StartOfAccessPoint == APInv /\ StartAccessPoint => APInv'
  <1> SUFFICES ASSUME APInv, StartAccessPoint PROVE APInv'
    OBVIOUS
  <1>1. APTypeOK /\ BackupsInOrder /\ OriginalIsKept
    BY DEF APInv
  <1>2. PICK args \in Arguments :
           ap' = [run |-> ap.run + 1, args |-> args, op |-> 1, step |-> "check"]
    BY DEF StartAccessPoint
  <1>3. /\ ap.run < MaxRuns /\ ap_done' = "none" /\ rebooted' = FALSE
        /\ UNCHANGED <<file, backup, installed, hostapd>>
    BY DEF StartAccessPoint
  <1>4. /\ ap.run \in 0 .. MaxRuns /\ ap.run + 1 \in 0 .. MaxRuns /\ ap.run + 1 > 0
        /\ ap.run + 1 \in Nat /\ ap.run \in Nat
    BY <1>1, <1>3, RunFields, AccessPointAssumption
  <1>5. ap'.run = ap.run + 1 /\ ap'.op = 1 /\ ap'.step = "check"
    BY <1>2
  <1>6. APTypeOK'
    <2>1. 1 \in 0 .. Len(Operations)
      BY OperationsAre
    <2>2. ap' \in [run : 0 .. MaxRuns, args : Arguments, op : 0 .. Len(Operations),
                   step : {"check", "copy", "truncate", "write"}]
      BY <1>2, <1>4, <2>1
    <2> QED  BY <1>1, <1>3, <2>2 DEF APTypeOK
  <1>7. \A f : ~(Past(f))'
    <2>1. 1 .. (1 - 1) = {}
      OBVIOUS
    <2> QED  BY <1>5, <2>1 DEF Past
  <1>8. BackupsInOrder'
    <2>1. ASSUME NEW f \in Files, NEW r \in 1 .. MaxRuns, backup[f][r] # "absent"
          PROVE  r <= ap.run + 1 /\ r # ap.run + 1
      <3>1. r <= ap.run
        BY <1>1, <2>1 DEF BackupsInOrder
      <3> QED  BY <1>4, <3>1
    <2> QED  BY <1>3, <1>5, <2>1 DEF BackupsInOrder
  <1>9. RunSoFar'
    BY <1>3, <1>4, <1>5, <1>7 DEF RunSoFar
  <1> QED
    BY <1>1, <1>3, <1>6, <1>8, <1>9 DEF APInv, OriginalIsKept, ConfiguredWhenDone

LEMMA CommandReturns == APInv /\ Run => APInv'
  <1> SUFFICES ASSUME APInv, Run PROVE APInv'
    OBVIOUS
  <1>1. /\ Op \notin Files /\ Op # "none" /\ Effect /\ Returns /\ ap.op # 0
        /\ APTypeOK /\ RunSoFar
    BY DEF Run, Op, APInv
  <1>2. /\ file' \in [Files -> Content] /\ installed' \in BOOLEAN
        /\ hostapd' \in [masked : BOOLEAN, enabled : BOOLEAN,
                         running : Arguments \cup {"none"}]
        /\ backup' = backup
        /\ \A f \in Files : Past(f) => file'[f] = file[f]
        /\ (Past("unmask") \/ Op = "unmask") => ~hostapd'.masked
        /\ (Past("enable") \/ Op = "enable") => hostapd'.enabled
        /\ OriginalIsKept'
    BY <1>1, EffectKeeps
  <1>3. \A f \in Files : (Past(f) \/ f = Op) => file'[f] = contents(f, ap.args)
    BY <1>1, <1>2 DEF RunSoFar
  <1>4. /\ BackupsInOrder' /\ RunSoFar' /\ ConfiguredWhenDone'
        /\ (ap_done # "none" => (hostapd.enabled /\ ~hostapd.masked))'
    BY <1>1, <1>2, <1>3, ReturnKeeps
  <1>5. APTypeOK'
    <2>1. /\ ap' \in [run : 0 .. MaxRuns, args : Arguments, op : 0 .. Len(Operations),
                      step : {"check", "copy", "truncate", "write"}]
          /\ ap_done' \in Arguments \cup {"none"} /\ rebooted' = rebooted
      BY <1>1, AfterReturn, RunFields DEF Returns
    <2> QED  BY <1>1, <1>2, <2>1 DEF APTypeOK
  <1> QED  BY <1>2, <1>4, <1>5 DEF APInv

LEMMA CommandFails == APInv /\ RunFails => APInv'
  <1> SUFFICES ASSUME APInv, RunFails PROVE APInv'
    OBVIOUS
  <1>1. /\ Op \notin Files /\ Op # "none" /\ ap.op # 0
        /\ APTypeOK /\ RunSoFar /\ OriginalIsKept
        /\ Effect \/ UNCHANGED <<file, backup, installed, hostapd>>
        /\ Exits /\ rebooted' = rebooted
    BY DEF RunFails, Op, APInv
  <1>2. /\ file' \in [Files -> Content] /\ installed' \in BOOLEAN
        /\ hostapd' \in [masked : BOOLEAN, enabled : BOOLEAN,
                         running : Arguments \cup {"none"}]
        /\ backup' = backup /\ OriginalIsKept'
    <2>1. CASE Effect
      BY <1>1, <2>1, EffectKeeps
    <2>2. CASE UNCHANGED <<file, backup, installed, hostapd>>
      BY <1>1, <2>2 DEF APTypeOK, OriginalIsKept
    <2> QED  BY <1>1, <2>1, <2>2
  <1>3. /\ BackupsInOrder' /\ RunSoFar' /\ ap_done' = ap_done
        /\ ap' \in [run : 0 .. MaxRuns, args : Arguments, op : 0 .. Len(Operations),
                    step : {"check", "copy", "truncate", "write"}]
    BY <1>1, <1>2, ExitKeeps
  <1>4. ap_done' = "none"
    BY <1>1, <1>3 DEF RunSoFar
  <1>5. APTypeOK'
    BY <1>1, <1>2, <1>3 DEF APTypeOK
  <1> QED  BY <1>2, <1>3, <1>4, <1>5 DEF APInv, ConfiguredWhenDone

LEMMA RunIsKilled == APInv /\ ScriptIsKilled => APInv'
  <1> SUFFICES ASSUME APInv, ScriptIsKilled PROVE APInv'
    OBVIOUS
  <1>1. /\ ap.op # 0 /\ Exits /\ UNCHANGED <<file, backup, installed, hostapd, rebooted>>
        /\ APTypeOK /\ RunSoFar /\ OriginalIsKept
    BY DEF ScriptIsKilled, APInv
  <1>2. /\ BackupsInOrder' /\ RunSoFar' /\ ap_done' = ap_done
        /\ ap' \in [run : 0 .. MaxRuns, args : Arguments, op : 0 .. Len(Operations),
                    step : {"check", "copy", "truncate", "write"}]
    BY <1>1, ExitKeeps
  <1>3. ap_done' = "none"
    BY <1>1, <1>2 DEF RunSoFar
  <1> QED
    BY <1>1, <1>2, <1>3 DEF APInv, APTypeOK, OriginalIsKept, ConfiguredWhenDone

\* After a run that went to its end, the service starts with its arguments.
LEMMA RobotReboots == APInv /\ Reboot => APInv'
  <1> SUFFICES ASSUME APInv, Reboot PROVE APInv'
    OBVIOUS
  <1>1. /\ Exits /\ rebooted' = TRUE /\ UNCHANGED <<file, backup, installed>>
        /\ APTypeOK /\ OriginalIsKept
        /\ hostapd' = [hostapd EXCEPT !.running =
                          IF hostapd.enabled /\ CanStart THEN file["hostapd.conf"] ELSE "none"]
    BY DEF Reboot, APInv
  <1>2. /\ BackupsInOrder' /\ RunSoFar' /\ ap_done' = ap_done
        /\ ap' \in [run : 0 .. MaxRuns, args : Arguments, op : 0 .. Len(Operations),
                    step : {"check", "copy", "truncate", "write"}]
    BY <1>1, ExitKeeps
  <1>3. /\ hostapd'.masked = hostapd.masked /\ hostapd'.enabled = hostapd.enabled
        /\ hostapd'.running =
             IF hostapd.enabled /\ CanStart THEN file["hostapd.conf"] ELSE "none"
    BY <1>1 DEF APTypeOK
  <1>4. hostapd' \in [masked : BOOLEAN, enabled : BOOLEAN,
                      running : Arguments \cup {"none"}]
    BY <1>1 DEF APTypeOK, CanStart
  <1>5. APTypeOK'
    BY <1>1, <1>2, <1>4 DEF APTypeOK
  <1>6. ConfiguredWhenDone'
    <2> SUFFICES ASSUME ap_done # "none"
                 PROVE  /\ \A f \in Files : file[f] = contents(f, ap_done)
                        /\ hostapd'.running = ap_done
      BY <1>1, <1>2 DEF ConfiguredWhenDone, contents
    <2>1. /\ \A f \in Files : file[f] = contents(f, ap_done)
          /\ hostapd.enabled /\ ~hostapd.masked
      BY DEF APInv, ConfiguredWhenDone
    <2>2. file["default/hostapd"] = "same" /\ file["hostapd.conf"] = ap_done
      BY <2>1 DEF Files, contents
    <2>3. ap_done \in Arguments
      BY <1>1 DEF APTypeOK
    <2> QED  BY <1>3, <2>1, <2>2, <2>3 DEF CanStart
  <1>7. (ap_done # "none" => (hostapd.enabled /\ ~hostapd.masked))'
    BY <1>2, <1>3 DEF APInv
  <1> QED
    BY <1>1, <1>2, <1>5, <1>6, <1>7 DEF APInv, OriginalIsKept

-----------------------------------------------------------------------------
(***************************************************************************)
(* All scripts                                                             *)
(***************************************************************************)

LEMMA OtherScript ==
    /\ APInv /\ UNCHANGED ap_vars => APInv'
    /\ ServoInv /\ UNCHANGED servo_vars => ServoInv'
    /\ CpuInv /\ UNCHANGED cpu_vars => CpuInv'
  <1>1. APInv /\ UNCHANGED ap_vars => APInv'
    BY DEF ap_vars, APInv, APTypeOK, BackupsInOrder, RunSoFar, OriginalIsKept,
           ConfiguredWhenDone, Past, Op, HasOriginal, InBackup, contents
  <1>2. ServoInv /\ UNCHANGED servo_vars => ServoInv'
    BY DEF servo_vars, ServoInv, ServoTypeOK, CommandsSoFar, NoPartialServoConfiguration,
           Round, Servo
  <1>3. CpuInv /\ UNCHANGED cpu_vars => CpuInv'
    <2> SUFFICES ASSUME CpuInv, UNCHANGED cpu_vars PROVE CpuInv'
      OBVIOUS
    <2>1. cmdline' = cmdline /\ new_line' = new_line /\ cpu_done' = cpu_done
      BY DEF cpu_vars
    <2> QED  BY <2>1 DEF CpuInv, KeepsBootParameters, AlreadyConfigured
  <1> QED  BY <1>1, <1>2, <1>3

LEMMA InitInv == Init => IInv
  BY InitAccessPoint, InitServo, InitCpu DEF IInv

LEMMA NextInv == IInv /\ [Next]_vars => IInv'
  <1> SUFFICES ASSUME APInv, ServoInv, CpuInv, [Next]_vars
               PROVE  APInv' /\ ServoInv' /\ CpuInv'
    BY DEF IInv
  <1>1. CASE StartScript
    <2>1. CASE StartAccessPoint /\ UNCHANGED <<servo_vars, cpu_vars>>
      BY <2>1, StartOfAccessPoint, OtherScript
    <2>2. CASE StartServos /\ UNCHANGED <<ap_vars, cpu_vars>>
      BY <2>2, StartOfServos, OtherScript
    <2>3. CASE StartCpuIsolation /\ UNCHANGED <<ap_vars, servo_vars>>
      BY <1>1, <2>3, StartCpu, OtherScript DEF StartScript, Idle
    <2> QED  BY <1>1, <2>1, <2>2, <2>3 DEF StartScript
  <1>2. CASE ScriptStep
    <2>1. CASE AccessPointStep /\ UNCHANGED <<servo_vars, cpu_vars>>
      BY <2>1, FileStep, CommandReturns, OtherScript DEF AccessPointStep
    <2>2. CASE run_shell_command /\ UNCHANGED <<ap_vars, cpu_vars>>
      BY <2>2, ServoCommand, OtherScript
    <2>3. CASE CpuIsolationStep /\ UNCHANGED <<ap_vars, servo_vars>>
      BY <2>3, CpuSteps, OtherScript
    <2> QED  BY <1>2, <2>1, <2>2, <2>3 DEF ScriptStep
  <1>3. CASE ScriptFails
    <2>1. CASE (RunFails \/ ScriptIsKilled) /\ UNCHANGED <<servo_vars, cpu_vars>>
      BY <2>1, CommandFails, RunIsKilled, OtherScript
    <2>2. CASE ShellCommandFails /\ UNCHANGED <<ap_vars, cpu_vars>>
      BY <2>2, FailedCommand, OtherScript
    <2>3. CASE CpuIsolationIsKilled /\ UNCHANGED <<ap_vars, servo_vars>>
      BY <2>3, CpuSteps, OtherScript
    <2> QED  BY <1>3, <2>1, <2>2, <2>3 DEF ScriptFails
  <1>4. CASE PowerCycle
    <2>1. CpuInv'
      BY <1>4 DEF PowerCycle, CpuInv, KeepsBootParameters
    <2> QED
      BY <1>4, <2>1, RobotReboots, PowerOfServos DEF PowerCycle
  <1>5. CASE UNCHANGED vars
    BY <1>5, OtherScript DEF vars
  <1> QED
    BY <1>1, <1>2, <1>3, <1>4, <1>5 DEF Next

-----------------------------------------------------------------------------

\* The inductive invariant holds in all states.
THEOREM Invariance == Spec => []IInv
  <1> QED  BY InitInv, NextInv, PTL DEF Spec

\* All variables of the three scripts have their type.
THEOREM TypeCorrect == Spec => []TypeOK
  <1>1. IInv => TypeOK
    BY DEF IInv, APInv, ServoInv, CpuInv, TypeOK
  <1> QED  BY <1>1, Invariance, PTL

\* What was in the files before the first run of setup_wifi_ap.py can be
\* brought back, after any runs cut anywhere.
THEOREM KeepsTheOriginal == Spec => []OriginalIsKept
  <1>1. IInv => OriginalIsKept
    BY DEF IInv, APInv
  <1> QED  BY <1>1, Invariance, PTL

\* A run of setup_wifi_ap.py that goes to its end leaves the access point of
\* its arguments, now and after a reboot, whatever earlier runs left.
THEOREM Configures == Spec => []ConfiguredWhenDone
  <1>1. IInv => ConfiguredWhenDone
    BY DEF IInv, APInv
  <1> QED  BY <1>1, Invariance, PTL

\* configure_servos.py leaves in each servo's configuration all parameters or
\* none, and all of them when it goes to its end, for any number of servos.
THEOREM WholeServoConfiguration == Spec => []NoPartialServoConfiguration
  <1>1. IInv => NoPartialServoConfiguration
    BY DEF IInv, ServoInv
  <1> QED  BY <1>1, Invariance, PTL

\* configure_cpu_isolation.py never leaves boot parameters that lack the others.
THEOREM BootParametersAreKept == Spec => []KeepsBootParameters
  <1>1. IInv => KeepsBootParameters
    BY DEF IInv, CpuInv
  <1> QED  BY <1>1, Invariance, PTL

============================================================================
