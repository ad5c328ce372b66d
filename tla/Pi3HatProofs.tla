---------------------------- MODULE Pi3HatProofs ----------------------------
(***************************************************************************)
(* The spine thread and the CAN thread hand each cycle over to each other: *)
(* Pi3HatInterface::cycle never throws, the spine copies the replies of    *)
(* its last cycle, and what goes to the servos is of two passes at most,   *)
(* for any number of servos and any replies, whether or not the CAN thread *)
(* outruns the constructor.                                                *)
(***************************************************************************)
EXTENDS Pi3HatInterface, TLAPS

USE DEF lock_vars, data_vars, can_vars, pass_vars, spine_vars, vars

-----------------------------------------------------------------------------
(***************************************************************************)
(* Types                                                                   *)
(***************************************************************************)

\* The sets of TypeOK, one variable at a time.
FlagsTyped ==
    /\ waiting \in BOOLEAN /\ ongoing_can_cycle \in BOOLEAN
    /\ done \in BOOLEAN /\ pi3hat \in BOOLEAN /\ shutdown \in BOOLEAN

DataTyped ==
    /\ commands \in [Servo -> Command]
    /\ replies \in [Servo -> Parity]
    /\ tx_can \in [Servo -> Command]
    /\ rx_count \in 0..NbServos

PlacesTyped ==
    /\ mutex \in {"free", "spine", "can"}
    /\ can_pc \in CanPc /\ can_servo \in Servo
    /\ spine_pc \in SpinePc /\ servo \in Servo
    /\ actuation_output \in {"none", "pending", "ready"}
    /\ batch \in Command /\ launched \in Command /\ cycle \in Parity

CopyTyped == servo_replies \in UNION {[1..n -> Parity] : n \in 0..NbServos}

LEMMA TypeParts == TypeOK <=> FlagsTyped /\ DataTyped /\ PlacesTyped /\ CopyTyped
<1>1. {waiting, ongoing_can_cycle, done, pi3hat, shutdown} \subseteq BOOLEAN
      <=> FlagsTyped
  BY Zenon DEF FlagsTyped
<1>2. {commands, tx_can} \subseteq [Servo -> Command]
         /\ replies \in [Servo -> Parity] /\ rx_count \in 0..NbServos
      <=> DataTyped
  BY Zenon DEF DataTyped
<1>3. {batch, launched} \subseteq Command
      <=> batch \in Command /\ launched \in Command
  BY Zenon
<1>4. QED
  BY <1>1, <1>2, <1>3, Zenon DEF TypeOK, PlacesTyped, CopyTyped

\* The servo after one that is not the last is a servo.
LEMMA NextServo ==
    ASSUME NEW s \in Servo
    PROVE  /\ s < NbServos => s + 1 \in Servo
           /\ 1 \in Servo
           /\ s \in Nat \ {0} /\ s <= NbServos
BY ServosAssumption DEF Servo

LEMMA InitTypes == Init => TypeOK
<1> SUFFICES ASSUME Init PROVE TypeOK
  OBVIOUS
<1>1. FlagsTyped
  BY Zenon DEF Init, FlagsTyped
<1>2. DataTyped /\ PlacesTyped
  BY ServosAssumption
     DEF Init, DataTyped, PlacesTyped, Servo, Parity, Batch, CanPc, SpinePc,
         Mode, Command, Stop
<1>3. CopyTyped
  <2>1. servo_replies \in [1..0 -> Parity]
    BY DEF Init, Parity
  <2>2. 0 \in 0..NbServos
    BY ServosAssumption
  <2>3. QED
    BY <2>1, <2>2 DEF CopyTyped
<1>4. QED
  BY <1>1, <1>2, <1>3, TypeParts

LEMMA CanTypes ==
    ASSUME IInv, CanThread \/ SpuriousWakeUp
    PROVE  TypeOK'
<1> USE DEF can_goto
<1>0. FlagsTyped /\ DataTyped /\ PlacesTyped /\ CopyTyped
  BY TypeParts DEF IInv
<1>1. CopyTyped'
  BY <1>0
     DEF CopyTyped, CanThread, SpuriousWakeUp, CanStart, CanWhile, CanLock,
         CanCheck, CanWakeUp, CanWoken, CanReadMode, CanReadPosition,
         can_next_servo, CanTransfer,
         CanWriteReply, CanUpdateImu, CanEndCycle, CanCallback
<1>2. FlagsTyped'
  BY <1>0, Zenon
     DEF FlagsTyped, CanThread, SpuriousWakeUp, CanStart, CanWhile, CanLock,
         CanCheck, CanWakeUp, CanWoken, CanReadMode, CanReadPosition,
         can_next_servo, CanTransfer,
         CanWriteReply, CanUpdateImu, CanEndCycle, CanCallback
<1>3. DataTyped'
  <2> USE DEF Command, Mode, Batch
  <2>1. CASE CanReadMode \/ CanReadPosition
    BY <1>0, <2>1 DEF CanReadMode, CanReadPosition, DataTyped, PlacesTyped
  <2>2. CASE CanWriteReply
    BY <1>0, <2>2 DEF CanWriteReply, DataTyped, PlacesTyped
  <2>3. CASE CanTransfer
    BY <1>0, <2>3 DEF CanTransfer, DataTyped
  <2>4. CASE UNCHANGED <<commands, replies, tx_can, rx_count>>
    BY <1>0, <2>4 DEF DataTyped
  <2>5. QED
    BY <2>1, <2>2, <2>3, <2>4
       DEF CanThread, SpuriousWakeUp, CanStart, CanWhile, CanLock, CanCheck,
           CanWakeUp, CanWoken, CanUpdateImu, CanEndCycle, CanCallback
<1>4. PlacesTyped'
  <2> USE DEF PlacesTyped, CanPc
  <2>0. /\ 1 \in Servo
        /\ can_servo < NbServos => can_servo + 1 \in Servo
    BY <1>0, NextServo
  <2>1. CASE CanStart \/ CanWhile \/ CanLock \/ CanCheck
    BY <1>0, <2>0, <2>1 DEF CanStart, CanWhile, CanLock, CanCheck
  <2>2. CASE CanWakeUp \/ CanWoken \/ SpuriousWakeUp
    BY <1>0, <2>0, <2>2 DEF CanWakeUp, CanWoken, SpuriousWakeUp
  <2>3. CASE CanReadMode \/ CanReadPosition
    BY <1>0, <2>0, <2>3 DEF CanReadMode, CanReadPosition, can_next_servo
  <2>4. CASE CanTransfer
    BY <1>0, <2>0, <2>4 DEF CanTransfer
  <2>5. CASE CanWriteReply
    <3>1. can_servo < rx_count => can_servo < NbServos
      BY <1>0, NextServo, ServosAssumption DEF DataTyped
    <3>2. QED
      BY <1>0, <2>0, <2>5, <3>1 DEF CanWriteReply
  <2>6. CASE CanUpdateImu \/ CanEndCycle \/ CanCallback
    BY <1>0, <2>0, <2>6 DEF CanUpdateImu, CanEndCycle, CanCallback
  <2>7. QED
    BY <2>1, <2>2, <2>3, <2>4, <2>5, <2>6 DEF CanThread
<1>5. (TypeOK <=> FlagsTyped /\ DataTyped /\ PlacesTyped /\ CopyTyped)'
  BY TypeParts, PTL
<1>6. QED
  BY <1>1, <1>2, <1>3, <1>4, <1>5

LEMMA SpineTypes ==
    ASSUME IInv, SpineThread
    PROVE  TypeOK'
<1> USE DEF spine_goto
<1>0. FlagsTyped /\ DataTyped /\ PlacesTyped /\ CopyTyped
  BY TypeParts DEF IInv
<1>1. FlagsTyped'
  BY <1>0, Zenon
     DEF FlagsTyped, SpineThread, Construct, Observe, WriteMode, WritePosition,
         CommandFails, WriteStop, GetOutput, CopyReply, Cycle,
         SetDone, ReadOngoing, Notify, Join
<1>2. DataTyped'
  <2>1. CASE WriteMode \/ WritePosition \/ WriteStop
    BY <1>0, <2>1
       DEF WriteMode, WritePosition, WriteStop, DataTyped, PlacesTyped, Command,
           Mode
  <2>2. CASE UNCHANGED <<commands, replies, tx_can, rx_count>>
    BY <1>0, <2>2 DEF DataTyped
  <2>3. QED
    BY <2>1, <2>2
       DEF SpineThread, Construct, Observe, CommandFails, GetOutput, CopyReply,
           Cycle, SetDone, ReadOngoing, Notify, Join
<1>3. PlacesTyped'
  <2> USE DEF PlacesTyped, SpinePc
  <2>0. /\ 1 \in Servo
        /\ servo < NbServos => servo + 1 \in Servo
        /\ [mode |-> "kPosition", position |-> following(batch.position)]
              \in Command
        /\ [batch EXCEPT !.mode = "kStopped"] \in Command
        /\ 1 - cycle \in Parity
    BY <1>0, NextServo DEF Parity, Batch, following, Command, Mode
  <2>1. CASE Construct \/ Observe
    BY <1>0, <2>0, <2>1 DEF Construct, Observe
  <2>6. CASE WriteMode \/ WritePosition \/ CommandFails \/ WriteStop
    BY <1>0, <2>0, <2>6 DEF WriteMode, WritePosition, CommandFails, WriteStop
  <2>2. CASE GetOutput
    BY <1>0, <2>0, <2>2 DEF GetOutput
  <2>3. CASE CopyReply
    <3>1. servo < rx_count => servo < NbServos
      BY <1>0, NextServo, ServosAssumption DEF DataTyped
    <3>2. QED
      BY <1>0, <2>0, <2>3, <3>1 DEF CopyReply
  <2>4. CASE Cycle
    BY <1>0, <2>0, <2>4 DEF Cycle
  <2>5. CASE SetDone \/ ReadOngoing \/ Notify \/ Join
    BY <1>0, <2>0, <2>5 DEF SetDone, ReadOngoing, Notify, Join
  <2>7. QED
    BY <2>1, <2>2, <2>3, <2>4, <2>5, <2>6 DEF SpineThread
<1>4. CopyTyped'
  <2>1. CASE GetOutput
    <3>1. 0 \in 0..NbServos /\ [i \in 1..0 |-> 0] \in [1..0 -> Parity]
      BY ServosAssumption DEF Parity
    <3>2. servo_replies' \in {servo_replies, [i \in 1..0 |-> 0]}
      BY <2>1 DEF GetOutput
    <3>3. QED
      BY <1>0, <3>1, <3>2 DEF CopyTyped
  <2>2. CASE CopyReply
    <3>1. /\ servo_replies' = [i \in 1..servo |->
                IF i = servo THEN replies[servo] ELSE servo_replies[i]]
          /\ DOMAIN servo_replies = 1..(servo - 1)
      BY <2>2 DEF CopyReply, IInv, RepliesCopied
    <3>2. servo \in 0..NbServos /\ servo \in Servo
      BY <1>0, NextServo DEF PlacesTyped
    <3>3. \A i \in 1..(servo - 1) : servo_replies[i] \in Parity
      BY <1>0, <3>1 DEF CopyTyped
    <3>4. replies[servo] \in Parity
      BY <1>0, <3>2 DEF DataTyped
    <3>5. \A i \in 1..servo : i # servo => i \in 1..(servo - 1)
      BY <3>2
    <3>6. servo_replies' \in [1..servo -> Parity]
      BY <3>1, <3>3, <3>4, <3>5
    <3>7. QED
      BY <3>2, <3>6 DEF CopyTyped
  <2>3. CASE UNCHANGED servo_replies
    BY <1>0, <2>3 DEF CopyTyped
  <2>4. QED
    BY <2>1, <2>2, <2>3
       DEF SpineThread, Construct, Observe, WriteMode, WritePosition,
           CommandFails, WriteStop, Cycle, SetDone, ReadOngoing, Notify, Join
<1>5. (TypeOK <=> FlagsTyped /\ DataTyped /\ PlacesTyped /\ CopyTyped)'
  BY TypeParts, PTL
<1>6. QED
  BY <1>1, <1>2, <1>3, <1>4, <1>5

-----------------------------------------------------------------------------
(***************************************************************************)
(* Who has the cycle                                                       *)
(***************************************************************************)

LEMMA CanOwner ==
    ASSUME IInv, CanThread \/ SpuriousWakeUp
    PROVE  CycleOwner'
<1> USE DEF IInv, CycleOwner, Writing, NeverCyclesTooEarly, can_goto
<1>1. CASE CanStart \/ CanWhile \/ CanLock \/ CanWakeUp \/ SpuriousWakeUp
  BY <1>1 DEF CanStart, CanWhile, CanLock, CanWakeUp, SpuriousWakeUp
<1>2. CASE CanCheck
  BY <1>2 DEF CanCheck
<1>3. CASE CanWoken
  BY <1>3 DEF CanWoken
<1>4. CASE CanReadMode \/ CanReadPosition
  BY <1>4 DEF CanReadMode, CanReadPosition, can_next_servo
<1>5. CASE CanTransfer
  BY <1>5 DEF CanTransfer
<1>6. CASE CanWriteReply
  BY <1>6 DEF CanWriteReply
<1>7. CASE CanUpdateImu
  BY <1>7 DEF CanUpdateImu
<1>8. CASE CanEndCycle
  BY <1>8 DEF CanEndCycle
<1>9. CASE CanCallback
  BY <1>9 DEF CanCallback
<1>10. QED
  BY <1>1, <1>2, <1>3, <1>4, <1>5, <1>6, <1>7, <1>8, <1>9 DEF CanThread

LEMMA SpineOwner ==
    ASSUME IInv, SpineThread
    PROVE  CycleOwner'
<1> USE DEF IInv, CycleOwner, Writing, NeverCyclesTooEarly, spine_goto
<1>1. CASE Observe
  BY <1>1 DEF Observe
<1>2. CASE GetOutput
  BY <1>2 DEF GetOutput
<1>3. CASE Cycle
  BY <1>3 DEF Cycle
<1>4. CASE SetDone \/ ReadOngoing \/ Notify \/ Join
  BY <1>4 DEF SetDone, ReadOngoing, Notify, Join
<1>5. CASE WriteMode \/ WritePosition \/ CommandFails \/ WriteStop
  BY <1>5 DEF WriteMode, WritePosition, CommandFails, WriteStop
<1>6. CASE Construct \/ CopyReply
  BY <1>6 DEF Construct, CopyReply
<1>7. QED
  BY <1>1, <1>2, <1>3, <1>4, <1>5, <1>6 DEF SpineThread

-----------------------------------------------------------------------------
(***************************************************************************)
(* What the replies hold                                                   *)
(***************************************************************************)

\* While a cycle is under way the spine neither copies nor has an output.
LEMMA CanHasReplies ==
    ASSUME IInv, can_pc \in {"commands", "position", "transfer", "replies",
                             "imu", "relock", "callback"}
    PROVE  actuation_output = "pending" /\ spine_pc \in Writing
BY DEF IInv, CycleOwner

LEMMA CanCollects ==
    ASSUME IInv, CanThread \/ SpuriousWakeUp
    PROVE  RepliesCollected' /\ RepliesCopied'
<1> USE DEF can_goto, Writing, RepliesCollected, RepliesUpTo
<1>1. RepliesCopied'
  <2>1. UNCHANGED <<spine_pc, servo, servo_replies, cycle>>
    BY DEF CanThread, SpuriousWakeUp, CanStart, CanWhile, CanLock, CanCheck,
           CanWakeUp, CanWoken, CanReadMode, CanReadPosition, CanTransfer,
           CanWriteReply, CanUpdateImu, CanEndCycle, CanCallback
  <2>2. actuation_output' # "none" \/ UNCHANGED actuation_output
    BY DEF CanThread, SpuriousWakeUp, CanStart, CanWhile, CanLock, CanCheck,
           CanWakeUp, CanWoken, CanReadMode, CanReadPosition, CanTransfer,
           CanWriteReply, CanUpdateImu, CanEndCycle, CanCallback
  <2>3. UNCHANGED rx_count \/ spine_pc # "copy"
    BY CanHasReplies
       DEF CanThread, SpuriousWakeUp, CanStart, CanWhile, CanLock, CanCheck,
           CanWakeUp, CanWoken, CanReadMode, CanReadPosition, CanTransfer,
           CanWriteReply, CanUpdateImu, CanEndCycle, CanCallback
  <2>4. QED
    BY <2>1, <2>2, <2>3 DEF IInv, RepliesCopied
<1>2. CASE CanStart \/ CanWhile \/ CanLock \/ CanWakeUp \/ SpuriousWakeUp
  BY <1>1, <1>2
     DEF CanStart, CanWhile, CanLock, CanWakeUp, SpuriousWakeUp, IInv
<1>3. CASE CanCheck
  BY <1>1, <1>3 DEF CanCheck, IInv
<1>4. CASE CanWoken
  BY <1>1, <1>4 DEF CanWoken, IInv
<1>5. CASE CanReadMode \/ CanReadPosition
  BY <1>1, <1>5, CanHasReplies
     DEF CanReadMode, CanReadPosition, can_next_servo
<1>6. CASE CanTransfer
  <2>1. /\ rx_count' \in 0..NbServos /\ can_servo' = 1
        /\ can_pc' = IF rx_count' = 0 THEN "imu" ELSE "replies"
        /\ UNCHANGED <<replies, cycle, spine_pc, actuation_output>>
    BY <1>6 DEF CanTransfer
  <2>2. actuation_output = "pending" /\ spine_pc # "copy"
    BY <1>6, CanHasReplies DEF CanTransfer
  <2>3. QED
    BY <1>1, <2>1, <2>2, ServosAssumption
<1>7. CASE CanWriteReply
  <2>1. /\ can_pc = "replies" /\ replies' = [replies EXCEPT ![can_servo] = cycle]
        /\ can_servo <= rx_count /\ RepliesUpTo(can_servo - 1)
        /\ UNCHANGED <<rx_count, cycle, spine_pc, actuation_output>>
    BY <1>7 DEF CanWriteReply, IInv
  <2>2. actuation_output = "pending" /\ spine_pc # "copy"
    BY <2>1, CanHasReplies
  <2>3. /\ replies \in [Servo -> Parity] /\ rx_count \in 0..NbServos
        /\ can_servo \in Servo
    BY TypeParts DEF IInv, DataTyped, PlacesTyped
  <2>4. can_servo \in Nat \ {0} /\ rx_count \in Nat
    BY <2>3, NextServo
  <2>5. \A i \in 1..can_servo : i \in Servo
    BY <2>3, ServosAssumption DEF Servo
  <2>6. ASSUME NEW i \in 1..can_servo PROVE replies'[i] = cycle
    <3>1. CASE i = can_servo
      BY <2>1, <2>3, <3>1
    <3>2. CASE i # can_servo
      <4>1. i \in 1..(can_servo - 1)
        BY <2>4, <3>2
      <4>2. QED
        BY <2>1, <2>3, <2>5, <3>2, <4>1
    <3>3. QED
      BY <3>1, <3>2
  <2>7. CASE can_servo < rx_count
    <3>1. can_servo' = can_servo + 1 /\ can_pc' = "replies"
      BY <1>7, <2>1, <2>7 DEF CanWriteReply
    <3>2. can_servo' - 1 = can_servo /\ can_servo' <= rx_count
      BY <2>4, <2>7, <3>1
    <3>3. QED
      BY <1>1, <2>1, <2>2, <2>6, <3>1, <3>2
  <2>8. CASE ~(can_servo < rx_count)
    <3>1. rx_count = can_servo /\ can_pc' = "imu"
      BY <1>7, <2>1, <2>4, <2>8 DEF CanWriteReply
    <3>2. QED
      BY <1>1, <2>1, <2>2, <2>6, <3>1
  <2>9. QED
    BY <2>7, <2>8
<1>8. CASE CanUpdateImu
  BY <1>1, <1>8 DEF CanUpdateImu, IInv
<1>9. CASE CanEndCycle
  BY <1>1, <1>9 DEF CanEndCycle, IInv
<1>10. CASE CanCallback
  BY <1>1, <1>10 DEF CanCallback, IInv
<1>11. QED
  BY <1>1, <1>2, <1>3, <1>4, <1>5, <1>6, <1>7, <1>8, <1>9, <1>10
     DEF CanThread

LEMMA SpineCopies ==
    ASSUME IInv, SpineThread
    PROVE  RepliesCollected' /\ RepliesCopied'
<1> USE DEF spine_goto, Writing, RepliesCollected, RepliesCopied, RepliesUpTo
<1>1. CASE Construct \/ Observe
  BY <1>1 DEF Construct, Observe, IInv
<1>2. CASE WriteMode \/ WritePosition \/ CommandFails \/ WriteStop
  BY <1>2 DEF WriteMode, WritePosition, CommandFails, WriteStop, IInv
<1>3. CASE GetOutput
  <2>1. /\ UNCHANGED <<can_pc, can_servo, replies, rx_count, cycle>>
        /\ spine_pc = "get" /\ servo' = 1
    BY <1>3 DEF GetOutput
  <2>2. RepliesCollected'
    BY <1>3, <2>1 DEF GetOutput, IInv
  <2>3. CASE actuation_output = "none"
    <3>1. DOMAIN servo_replies = 1..0
      BY <2>1, <2>3 DEF IInv
    <3>2. UNCHANGED servo_replies /\ spine_pc' = "cycle"
      BY <1>3, <2>3 DEF GetOutput
    <3>3. QED
      BY <2>1, <2>2, <3>1, <3>2
  <2>4. CASE actuation_output = "ready"
    <3>1. /\ servo_replies' = [i \in 1..0 |-> 0]
          /\ spine_pc' = IF rx_count = 0 THEN "cycle" ELSE "copy"
      BY <1>3, <2>4 DEF GetOutput
    <3>2. rx_count \in Nat
      BY TypeParts, ServosAssumption DEF IInv, DataTyped
    <3>3. DOMAIN servo_replies' = 1..0 /\ 1..0 = {}
      BY <3>1
    <3>4. spine_pc' = "copy" =>
             servo' <= rx_count' /\ DOMAIN servo_replies' = 1..(servo' - 1)
      BY <2>1, <3>1, <3>2, <3>3
    <3>5. QED
      BY <2>2, <3>1, <3>3, <3>4
  <2>5. QED
    BY <1>3, <2>3, <2>4 DEF GetOutput
<1>4. CASE CopyReply
  <2>1. /\ UNCHANGED <<can_pc, can_servo, replies, rx_count, cycle,
                       actuation_output>>
        /\ spine_pc = "copy" /\ spine_pc' \in {"copy", "cycle"}
        /\ servo_replies' = [i \in 1..servo |->
              IF i = servo THEN replies[servo] ELSE servo_replies[i]]
    BY <1>4 DEF CopyReply
  <2>2. /\ servo <= rx_count /\ DOMAIN servo_replies = 1..(servo - 1)
        /\ \A i \in 1..(servo - 1) : servo_replies[i] = cycle
        /\ RepliesUpTo(rx_count)
    BY <2>1 DEF IInv
  <2>3. servo \in Nat \ {0} /\ rx_count \in Nat
    BY TypeParts, NextServo, ServosAssumption DEF IInv, DataTyped, PlacesTyped
  <2>4. replies[servo] = cycle
    BY <2>2, <2>3
  <2>5. DOMAIN servo_replies' = 1..servo
    BY <2>1
  <2>6. \A i \in 1..servo : servo_replies'[i] = cycle
    <3>1. \A i \in 1..servo : i # servo => i \in 1..(servo - 1)
      BY <2>3
    <3>2. QED
      BY <2>1, <2>2, <2>4, <3>1
  <2>7. RepliesCollected'
    BY <2>1, <2>2 DEF IInv
  <2>8. spine_pc' = "copy" => servo' = servo + 1 /\ servo < rx_count
    BY <1>4 DEF CopyReply
  <2>9. spine_pc' = "copy" =>
           servo' <= rx_count' /\ DOMAIN servo_replies' = 1..(servo' - 1)
    BY <2>1, <2>3, <2>5, <2>8
  <2>10. QED
    BY <2>1, <2>5, <2>6, <2>7, <2>9
<1>5. CASE Cycle
  <2>1. actuation_output = "none" /\ ~ongoing_can_cycle
    BY <1>5 DEF Cycle, IInv, CycleOwner
  <2>2. /\ actuation_output' = "pending" /\ spine_pc' = "observe"
        /\ UNCHANGED can_pc
    BY <1>5, <2>1 DEF Cycle
  <2>3. can_pc \notin {"replies", "imu", "relock", "callback"}
    BY <2>1 DEF IInv, CycleOwner
  <2>4. QED
    BY <2>2, <2>3
<1>6. CASE SetDone \/ ReadOngoing \/ Notify \/ Join
  BY <1>6 DEF SetDone, ReadOngoing, Notify, Join, IInv
<1>7. QED
  BY <1>1, <1>2, <1>3, <1>4, <1>5, <1>6 DEF SpineThread

-----------------------------------------------------------------------------
(***************************************************************************)
(* What the frames hold: FramesInv, next to IInv                           *)
(***************************************************************************)

\* A step that leaves the spine's passes and what the CAN thread has made.
LEMMA FramesQuietly ==
    ASSUME FramesInv,
           UNCHANGED <<commands, tx_can, spine_pc, servo, pass_vars>>,
           actuation_output' # "pending" \/ UNCHANGED actuation_output,
           can_pc' \notin {"commands", "position", "transfer"}
               \/ UNCHANGED can_vars
    PROVE  FramesInv'
BY DEF FramesInv, CommandsWritten, OneBatchAhead, CommandsRecent, FramesMade,
       FramesUpTo, RecentMode, RecentPosition, Moving, Stopping

\* The CAN thread starts on a cycle with no frame made.
LEMMA FramesBegin ==
    ASSUME FramesInv, can_goto("commands"),
           UNCHANGED <<commands, tx_can, spine_vars, actuation_output>>
    PROVE  FramesInv'
BY DEF FramesInv, CommandsWritten, OneBatchAhead, CommandsRecent, FramesMade,
       FramesUpTo, RecentMode, RecentPosition, Moving, Stopping, can_goto

\* A step of the CAN thread that makes a frame leaves what the spine wrote.
LEMMA CommandsStay ==
    ASSUME FramesInv, UNCHANGED <<commands, spine_vars, actuation_output>>
    PROVE  CommandsWritten' /\ OneBatchAhead' /\ CommandsRecent'
BY DEF FramesInv, CommandsWritten, OneBatchAhead, CommandsRecent, RecentMode,
       RecentPosition, Moving, Stopping

\* The frame that the CAN thread completes is recent, as the ones before.
LEMMA FrameMade ==
    ASSUME IInv, FramesInv, can_pc \in {"commands", "position"},
           UNCHANGED pass_vars,
           tx_can'[can_servo].mode = "kPosition" =>
               RecentPosition(tx_can'[can_servo].position),
           RecentMode(tx_can'[can_servo].mode),
           \A s \in Servo \ {can_servo} : tx_can'[s] = tx_can[s],
           can_next_servo
    PROVE  FramesMade'
<1> USE DEF RecentMode, RecentPosition, Moving, Stopping
<1>1. /\ can_servo \in Servo /\ can_servo \in Nat \ {0}
      /\ can_servo <= NbServos
  BY TypeParts, NextServo DEF IInv, PlacesTyped
<1>2. FramesUpTo(can_servo - 1)
  BY DEF FramesInv, FramesMade
<1>3. \A i \in 1..can_servo : i \in Servo
  BY <1>1, ServosAssumption DEF Servo
<1>4. ASSUME NEW i \in 1..can_servo
      PROVE  /\ RecentMode(tx_can'[i].mode)
             /\ tx_can'[i].mode = "kPosition" =>
                    RecentPosition(tx_can'[i].position)
  <2>1. CASE i = can_servo
    BY <2>1
  <2>2. CASE i # can_servo
    <3>1. i \in 1..(can_servo - 1) /\ tx_can'[i] = tx_can[i]
      BY <1>1, <1>3, <2>2
    <3>2. QED
      BY <1>2, <3>1 DEF FramesUpTo
  <2>3. QED
    BY <2>1, <2>2
<1>5. CASE can_servo < NbServos
  <2>1. can_servo' = can_servo + 1 /\ can_pc' = "commands"
    BY <1>5 DEF can_next_servo
  <2>2. can_servo' - 1 = can_servo
    BY <1>1, <2>1
  <2>3. QED
    BY <1>4, <2>1, <2>2 DEF FramesMade, FramesUpTo
<1>6. CASE ~(can_servo < NbServos)
  <2>1. can_servo = NbServos /\ can_pc' = "transfer"
    BY <1>1, <1>6, ServosAssumption DEF can_next_servo, can_goto
  <2>2. QED
    BY <1>4, <2>1 DEF FramesMade, FramesUpTo
<1>7. QED
  BY <1>5, <1>6

LEMMA CanSendsRecent ==
    ASSUME IInv, FramesInv, CanThread \/ SpuriousWakeUp
    PROVE  FramesInv'
<1>0. /\ tx_can \in [Servo -> Command] /\ commands \in [Servo -> Command]
      /\ can_servo \in Servo
  BY TypeParts DEF IInv, DataTyped, PlacesTyped
<1>1. CASE CanStart \/ CanWhile \/ CanLock \/ CanWakeUp \/ SpuriousWakeUp
  BY <1>1, FramesQuietly
     DEF CanStart, CanWhile, CanLock, CanWakeUp, SpuriousWakeUp, can_goto
<1>2. CASE CanCheck
  BY <1>2, FramesQuietly, FramesBegin DEF CanCheck, can_goto
<1>3. CASE CanWoken
  BY <1>3, FramesQuietly, FramesBegin DEF CanWoken, can_goto
<1>4. CASE CanReadMode
  <2>1. /\ can_pc = "commands"
        /\ tx_can' = [tx_can EXCEPT ![can_servo] =
              [mode |-> commands[can_servo].mode, position |-> 0]]
        /\ UNCHANGED <<commands, spine_vars, actuation_output>>
    BY <1>4 DEF CanReadMode
  <2>2. CommandsWritten' /\ OneBatchAhead' /\ CommandsRecent'
    BY <2>1, CommandsStay
  <2>3. actuation_output = "pending"
    BY <2>1, CanHasReplies
  <2>4. RecentMode(commands[can_servo].mode)
    BY <1>0, <2>3 DEF FramesInv, CommandsRecent
  <2>5. /\ tx_can'[can_servo].mode = commands[can_servo].mode
        /\ \A s \in Servo \ {can_servo} : tx_can'[s] = tx_can[s]
    BY <1>0, <2>1
  <2>6. CASE commands[can_servo].mode = "kPosition"
    <3>1. can_pc' = "position" /\ UNCHANGED can_servo
      BY <1>4, <2>6 DEF CanReadMode
    <3>2. FramesUpTo(can_servo - 1)
      BY <2>1 DEF FramesInv, FramesMade
    <3>3. \A i \in 1..(can_servo - 1) : i \in Servo \ {can_servo}
      BY <1>0, NextServo, ServosAssumption DEF Servo
    <3>4. FramesUpTo(can_servo - 1)'
      BY <2>1, <2>5, <3>1, <3>2, <3>3
         DEF FramesUpTo, RecentMode, RecentPosition, Moving, Stopping
    <3>5. FramesMade'
      BY <2>1, <2>4, <2>5, <2>6, <3>1, <3>4 DEF FramesMade, RecentMode, Moving
    <3>6. QED
      BY <2>2, <3>5 DEF FramesInv
  <2>7. CASE commands[can_servo].mode = "kStopped"
    <3>1. can_next_servo
      BY <1>4, <2>7 DEF CanReadMode
    <3>2. FramesMade'
      BY <2>1, <2>4, <2>5, <2>7, <3>1, FrameMade
    <3>3. QED
      BY <2>2, <3>2 DEF FramesInv
  <2>8. QED
    BY <1>4, <2>6, <2>7 DEF CanReadMode
<1>5. CASE CanReadPosition
  <2>1. /\ can_pc = "position" /\ can_next_servo
        /\ tx_can' = [tx_can EXCEPT
              ![can_servo].position = commands[can_servo].position]
        /\ UNCHANGED <<commands, spine_vars, actuation_output>>
    BY <1>5 DEF CanReadPosition
  <2>2. CommandsWritten' /\ OneBatchAhead' /\ CommandsRecent'
    BY <2>1, CommandsStay
  <2>3. tx_can[can_servo].mode = "kPosition" /\ Moving
    BY <2>1 DEF FramesInv, FramesMade
  <2>4. RecentPosition(commands[can_servo].position)
    BY <1>0, <2>1, <2>3, CanHasReplies DEF FramesInv, CommandsRecent
  <2>5. /\ tx_can'[can_servo].mode = "kPosition"
        /\ tx_can'[can_servo].position = commands[can_servo].position
        /\ \A s \in Servo \ {can_servo} : tx_can'[s] = tx_can[s]
    BY <1>0, <2>1, <2>3 DEF Command
  <2>6. FramesMade'
    BY <2>1, <2>3, <2>4, <2>5, FrameMade DEF RecentMode
  <2>7. QED
    BY <2>2, <2>6 DEF FramesInv
<1>6. CASE CanTransfer
  BY <1>6, FramesQuietly DEF CanTransfer, can_goto
<1>7. CASE CanWriteReply
  <2>1. can_pc' \notin {"commands", "position", "transfer"}
    BY <1>7 DEF CanWriteReply, can_goto
  <2>2. QED
    BY <1>7, <2>1, FramesQuietly DEF CanWriteReply
<1>8. CASE CanUpdateImu \/ CanEndCycle \/ CanCallback
  BY <1>8, FramesQuietly DEF CanUpdateImu, CanEndCycle, CanCallback, can_goto
<1>9. QED
  BY <1>1, <1>2, <1>3, <1>4, <1>5, <1>6, <1>7, <1>8 DEF CanThread

\* A step of the spine leaves the frames recent if what was recent still is.
LEMMA FramesStay ==
    ASSUME IInv, FramesInv,
           UNCHANGED <<tx_can, can_vars, launched>>,
           actuation_output = "pending" =>
               (Moving => Moving') /\ (Stopping => Stopping')
    PROVE  FramesMade'
<1>1. CASE can_pc \in {"commands", "position", "transfer"}
  <2>1. actuation_output = "pending"
    BY <1>1, CanHasReplies
  <2>2. QED
    BY <2>1 DEF FramesInv, FramesMade, FramesUpTo, RecentMode, RecentPosition
<1>2. CASE can_pc \notin {"commands", "position", "transfer"}
  BY <1>2 DEF FramesMade
<1>3. QED
  BY <1>1, <1>2

LEMMA ObserveSendsRecent ==
    ASSUME IInv, FramesInv, Observe
    PROVE  FramesInv'
<1> USE DEF spine_goto
<1>1. /\ spine_pc = "observe" /\ servo' = 1
      /\ UNCHANGED <<data_vars, can_vars, launched, actuation_output>>
  BY DEF Observe
<1>2. /\ batch \in Command /\ launched \in Command
      /\ \A s \in Servo : 1 <= s
  BY TypeParts, ServosAssumption DEF IInv, PlacesTyped, Servo
<1>3. /\ \A s \in Servo : commands[s].mode = batch.mode
      /\ shutdown \/ \A s \in Servo : commands[s].position = batch.position
      /\ shutdown => batch.mode = "kStopped"
  BY <1>1 DEF FramesInv, CommandsWritten
<1>4. /\ actuation_output = "pending" => batch = launched
      /\ CommandsRecent
  BY <1>1 DEF FramesInv, OneBatchAhead
<1>5. CASE /\ ~shutdown /\ ~shutdown' /\ spine_pc' = "positions"
           /\ batch' = [mode |-> "kPosition",
                        position |-> following(batch.position)]
  <2>1. following(batch.position) # batch.position
    BY <1>2 DEF Command, Batch, following
  <2>2. batch'.mode = "kPosition" /\ batch'.position = following(batch.position)
    BY <1>5
  <2>3. CommandsWritten'
    BY <1>1, <1>2, <1>3, <1>5, <2>2 DEF CommandsWritten
  <2>4. OneBatchAhead'
    BY <1>1, <1>4, <1>5, <2>2 DEF OneBatchAhead
  <2>5. actuation_output = "pending" => Moving' /\ (Stopping => Stopping')
    BY <1>1, <1>4, <2>1, <2>2 DEF Moving, Stopping
  <2>6. CommandsRecent'
    BY <1>1, <1>3, <1>4, <1>5, <2>5
       DEF CommandsRecent, RecentMode, RecentPosition
  <2>7. FramesMade'
    BY <1>1, <2>5, FramesStay
  <2>8. QED
    BY <2>3, <2>4, <2>6, <2>7 DEF FramesInv
<1>6. CASE /\ batch' = [batch EXCEPT !.mode = "kStopped"]
           /\ shutdown' \in {shutdown, TRUE} /\ spine_pc' = "stops"
  <2>1. batch'.mode = "kStopped" /\ batch'.position = batch.position
    BY <1>2, <1>6 DEF Command
  <2>2. CommandsWritten'
    BY <1>1, <1>2, <1>3, <1>6, <2>1 DEF CommandsWritten
  <2>3. OneBatchAhead'
    BY <1>1, <1>4, <1>6, <2>1 DEF OneBatchAhead
  <2>4. (Moving <=> Moving') /\ Stopping'
    BY <1>1, <2>1 DEF Moving, Stopping
  <2>5. CommandsRecent'
    BY <1>1, <1>4, <2>4 DEF CommandsRecent, RecentMode, RecentPosition
  <2>6. FramesMade'
    BY <1>1, <2>4, FramesStay
  <2>7. QED
    BY <2>2, <2>3, <2>5, <2>6 DEF FramesInv
<1>7. CASE UNCHANGED <<batch, shutdown>> /\ spine_pc' = "get"
  <2>1. CommandsWritten' /\ OneBatchAhead'
    BY <1>1, <1>3, <1>4, <1>7 DEF CommandsWritten, OneBatchAhead
  <2>2. (Moving <=> Moving') /\ (Stopping <=> Stopping')
    BY <1>1, <1>7 DEF Moving, Stopping
  <2>3. CommandsRecent'
    BY <1>1, <1>4, <2>2 DEF CommandsRecent, RecentMode, RecentPosition
  <2>4. FramesMade'
    BY <1>1, <2>2, FramesStay
  <2>5. QED
    BY <2>1, <2>3, <2>4 DEF FramesInv
<1>8. QED
  <2>1. CASE ~shutdown /\ UNCHANGED shutdown
    BY <1>5, <1>6, <1>7, <2>1 DEF Observe
  <2>2. CASE shutdown
    BY <1>6, <2>2 DEF Observe
  <2>3. QED
    BY <1>6, <2>1, <2>2 DEF Observe

\* The passes that write: their batch is known before they start.
LEMMA WritesSendRecent ==
    ASSUME IInv, FramesInv, WriteMode \/ WritePosition \/ WriteStop
    PROVE  FramesInv'
<1> USE DEF spine_goto
<1>1. /\ batch \in Command /\ launched \in Command
      /\ servo \in Servo /\ servo \in Nat \ {0} /\ servo <= NbServos
      /\ commands \in [Servo -> Command]
      /\ \A s \in Servo : s \in Nat /\ s <= NbServos
  BY TypeParts, NextServo DEF IInv, PlacesTyped, DataTyped
<1>2. UNCHANGED <<tx_can, can_vars, pass_vars, actuation_output>>
  BY DEF WriteMode, WritePosition, WriteStop
<1>3. \A s \in Servo \ {servo} : commands'[s] = commands[s]
  BY <1>1 DEF WriteMode, WritePosition, WriteStop
<1>4. (Moving <=> Moving') /\ (Stopping <=> Stopping')
  BY <1>2 DEF Moving, Stopping
<1>5. FramesMade'
  BY <1>2, <1>4, FramesStay
<1>6. CASE WriteMode
  <2>1. /\ spine_pc = "positions" /\ spine_pc' = "fields" /\ UNCHANGED servo
        /\ commands'[servo].mode = "kPosition"
        /\ commands'[servo].position = commands[servo].position
    BY <1>1, <1>6 DEF WriteMode, Command
  <2>2. batch.mode = "kPosition"
    BY <2>1 DEF FramesInv, CommandsWritten
  <2>3. OneBatchAhead'
    BY <1>2, <2>1 DEF FramesInv, OneBatchAhead
  <2>4. CommandsWritten'
    <3>1. \A s \in Servo : servo <= s /\ s # servo => servo < s
      BY <1>1
    <3>2. QED
      BY <1>2, <1>3, <2>1, <2>2, <3>1 DEF FramesInv, CommandsWritten
  <2>5. CommandsRecent'
    <3>1. actuation_output = "pending" => Moving
      BY <1>1, <2>1
         DEF FramesInv, OneBatchAhead, Moving, Command, Batch, following
    <3>2. QED
      BY <1>2, <1>3, <1>4, <2>1, <3>1
         DEF FramesInv, CommandsRecent, RecentMode, RecentPosition
  <2>6. QED
    BY <1>5, <2>3, <2>4, <2>5 DEF FramesInv
<1>7. CASE WritePosition
  <2>1. /\ spine_pc = "fields"
        /\ spine_pc' = IF servo < NbServos THEN "positions" ELSE "get"
        /\ servo < NbServos => servo' = servo + 1
        /\ commands'[servo].mode = commands[servo].mode
        /\ commands'[servo].position = batch.position
    BY <1>1, <1>7 DEF WritePosition, Command
  <2>2. /\ batch.mode = "kPosition"
        /\ shutdown => batch.mode = "kStopped"
        /\ \A s \in Servo : commands[s].mode = batch.mode \/ servo < s
        /\ \A s \in Servo : commands[s].position = batch.position \/ servo <= s
    BY <2>1 DEF FramesInv, CommandsWritten
  <2>3. OneBatchAhead'
    BY <1>2, <2>1 DEF FramesInv, OneBatchAhead
  <2>4. CommandsWritten'
    <3>1. \A s \in Servo : servo < s => servo < NbServos /\ servo + 1 <= s
      BY <1>1, ServosAssumption
    <3>2. \A s \in Servo : servo <= s /\ s # servo => servo < s
      BY <1>1
    <3>3. QED
      BY <1>2, <1>3, <2>1, <2>2, <3>1, <3>2 DEF CommandsWritten
  <2>5. CommandsRecent'
    <3>1. actuation_output = "pending" => RecentPosition(batch.position)
      BY DEF FramesInv, OneBatchAhead, RecentPosition
    <3>2. QED
      BY <1>2, <1>3, <1>4, <2>1, <3>1
         DEF FramesInv, CommandsRecent, RecentMode, RecentPosition
  <2>6. QED
    BY <1>5, <2>3, <2>4, <2>5 DEF FramesInv
<1>8. CASE WriteStop
  <2>1. /\ spine_pc = "stops"
        /\ spine_pc' = IF servo < NbServos THEN "stops" ELSE "get"
        /\ servo < NbServos => servo' = servo + 1
        /\ commands'[servo].mode = "kStopped"
        /\ commands'[servo].position = commands[servo].position
    BY <1>1, <1>8 DEF WriteStop, Command
  <2>2. /\ batch.mode = "kStopped"
        /\ \A s \in Servo : commands[s].mode = batch.mode \/ servo <= s
        /\ \A s \in Servo : commands[s].position = batch.position \/ shutdown
    BY <2>1 DEF FramesInv, CommandsWritten
  <2>3. OneBatchAhead'
    BY <1>2, <2>1 DEF FramesInv, OneBatchAhead
  <2>4. CommandsWritten'
    <3>1. \A s \in Servo :
             servo <= s /\ s # servo => servo < NbServos /\ servo + 1 <= s
      BY <1>1, ServosAssumption
    <3>2. QED
      BY <1>2, <1>3, <2>1, <2>2, <3>1 DEF CommandsWritten
  <2>5. CommandsRecent'
    <3>1. Stopping
      BY <2>2 DEF Stopping
    <3>2. QED
      BY <1>2, <1>3, <1>4, <2>1, <3>1
         DEF FramesInv, CommandsRecent, RecentMode, RecentPosition
  <2>6. QED
    BY <1>5, <2>3, <2>4, <2>5 DEF FramesInv
<1>9. QED
  BY <1>6, <1>7, <1>8

LEMMA SpineSendsRecent ==
    ASSUME IInv, FramesInv, SpineThread
    PROVE  FramesInv'
<1> USE DEF spine_goto
<1>1. CASE Observe
  BY <1>1, ObserveSendsRecent
<1>2. CASE WriteMode \/ WritePosition \/ WriteStop
  BY <1>2, WritesSendRecent
<1>3. CASE CommandFails
  <2>1. /\ spine_pc = "positions" /\ spine_pc' = "stops" /\ servo' = 1
        /\ shutdown' = TRUE
        /\ UNCHANGED <<data_vars, can_vars, launched, actuation_output>>
    BY <1>3 DEF CommandFails
  <2>2. batch'.mode = "kStopped" /\ batch'.position = batch.position
    BY <1>3, TypeParts DEF CommandFails, IInv, PlacesTyped, Command
  <2>3. (Moving <=> Moving') /\ Stopping'
    BY <2>1, <2>2 DEF Moving, Stopping
  <2>4. CommandsWritten'
    BY <2>1, <2>2, NextServo, ServosAssumption DEF CommandsWritten, Servo
  <2>5. OneBatchAhead'
    BY <2>1, <2>2 DEF FramesInv, OneBatchAhead
  <2>6. CommandsRecent'
    BY <2>1, <2>3 DEF FramesInv, CommandsRecent, RecentMode, RecentPosition
  <2>7. FramesMade'
    BY <2>1, <2>3, FramesStay
  <2>8. QED
    BY <2>4, <2>5, <2>6, <2>7 DEF FramesInv
<1>4. CASE Cycle
  <2>1. actuation_output = "none" /\ ~ongoing_can_cycle
    BY <1>4 DEF Cycle, IInv, CycleOwner, Writing
  <2>2. /\ spine_pc = "cycle" /\ spine_pc' = "observe" /\ launched' = batch
        /\ UNCHANGED <<data_vars, can_vars, batch, shutdown>>
    BY <1>4, <2>1 DEF Cycle
  <2>3. can_pc \notin {"commands", "position", "transfer"}
    BY <2>1 DEF IInv, CycleOwner
  <2>4. CommandsWritten' /\ OneBatchAhead' /\ FramesMade'
    BY <2>2, <2>3 DEF FramesInv, CommandsWritten, OneBatchAhead, FramesMade
  <2>5. /\ \A s \in Servo : commands[s].mode = batch.mode
        /\ shutdown \/ \A s \in Servo : commands[s].position = batch.position
        /\ shutdown => batch.mode = "kStopped"
    BY <2>2 DEF FramesInv, CommandsWritten
  <2>6. Moving' <=> batch.mode = "kPosition"
    BY <2>2 DEF Moving
  <2>7. Stopping' <=> batch.mode = "kStopped"
    BY <2>2 DEF Stopping
  <2>8. CommandsRecent'
    BY <2>2, <2>5, <2>6, <2>7 DEF CommandsRecent, RecentMode, RecentPosition
  <2>9. QED
    BY <2>4, <2>8 DEF FramesInv
<1>5. CASE Construct \/ GetOutput \/ CopyReply \/ SetDone \/ ReadOngoing
           \/ Notify \/ Join
  <2>1. /\ UNCHANGED <<commands, tx_can, can_vars, pass_vars>>
        /\ spine_pc \notin {"positions", "fields", "stops"}
        /\ spine_pc' \notin {"positions", "fields", "stops"}
    BY <1>5
       DEF Construct, GetOutput, CopyReply, SetDone, ReadOngoing, Notify, Join
  <2>2. actuation_output' # "pending"
    BY <1>5
       DEF Construct, GetOutput, CopyReply, SetDone, ReadOngoing, Notify, Join,
           IInv, CycleOwner, Writing
  <2>3. (Moving <=> Moving') /\ (Stopping <=> Stopping')
    BY <2>1 DEF Moving, Stopping
  <2>4. FramesMade'
    BY <2>1, <2>3, FramesStay
  <2>5. QED
    BY <2>1, <2>2, <2>4
       DEF FramesInv, CommandsWritten, OneBatchAhead, CommandsRecent
<1>6. QED
  BY <1>1, <1>2, <1>3, <1>4, <1>5 DEF SpineThread

-----------------------------------------------------------------------------
(***************************************************************************)
(* Theorems                                                                *)
(***************************************************************************)

THEOREM Pi3HatInvariance == Spec => []IInv
<1>1. Init => IInv
  <2> SUFFICES ASSUME Init PROVE IInv
    OBVIOUS
  <2>1. CycleOwner /\ RepliesCollected
    BY DEF Init, CycleOwner, NeverCyclesTooEarly, RepliesCollected
  <2>2. RepliesCopied
    BY DEF Init, RepliesCopied
  <2>3. QED
    BY <2>1, <2>2, InitTypes DEF IInv
<1>2. IInv /\ [Next]_vars => IInv'
  <2> SUFFICES ASSUME IInv, [Next]_vars PROVE IInv'
    OBVIOUS
  <2>1. CASE CanThread \/ SpuriousWakeUp
    BY <2>1, CanTypes, CanOwner, CanCollects DEF IInv
  <2>2. CASE SpineThread
    BY <2>2, SpineTypes, SpineOwner, SpineCopies DEF IInv
  <2>3. CASE UNCHANGED vars
    BY <2>3
       DEF IInv, TypeOK, CycleOwner, Writing, NeverCyclesTooEarly,
           RepliesCollected, RepliesCopied, RepliesUpTo
  <2>4. QED
    BY <2>1, <2>2, <2>3 DEF Next
<1>3. QED
  BY <1>1, <1>2, PTL DEF Spec

\* The variables that the two threads share keep their types.
THEOREM TypeCorrect == Spec => []TypeOK
<1>1. IInv => TypeOK
  BY DEF IInv
<1>2. QED
  BY <1>1, Pi3HatInvariance, PTL

\* "Cycle cannot be called before the previous one has completed" is never
\* thrown, whatever the interleaving of the two threads.
THEOREM NeverThrows == Spec => []NeverCyclesTooEarly
<1>1. IInv => NeverCyclesTooEarly
  BY DEF IInv, CycleOwner
<1>2. QED
  BY <1>1, Pi3HatInvariance, PTL

\* Before it launches a cycle, the spine has a copy of the replies of the last
\* one, however many servos replied.
THEOREM CopiesLastReplies == Spec => []RepliesOfLastCycle
<1>1. IInv => RepliesOfLastCycle
  BY DEF IInv, RepliesCopied, RepliesOfLastCycle
<1>2. QED
  BY <1>1, Pi3HatInvariance, PTL

\* The commands written without the mutex: the modes that go to the servos are
\* of the pass that launched the cycle or of the one after it, the fields of
\* positions of the last pass that wrote some or of the one after it, for any
\* interleaving and any commands that fail.
THEOREM FramesAreRecent == Spec => []SendsRecentCommands
<1>1. Init => FramesInv
  BY DEF Init, FramesInv, CommandsWritten, OneBatchAhead, CommandsRecent,
         FramesMade, Stop
<1>2. IInv /\ FramesInv /\ [Next]_vars => FramesInv'
  <2> SUFFICES ASSUME IInv, FramesInv, [Next]_vars PROVE FramesInv'
    OBVIOUS
  <2>1. CASE CanThread \/ SpuriousWakeUp
    BY <2>1, CanSendsRecent
  <2>2. CASE SpineThread
    BY <2>2, SpineSendsRecent
  <2>3. CASE UNCHANGED vars
    BY <2>3, FramesQuietly
  <2>4. QED
    BY <2>1, <2>2, <2>3 DEF Next
<1>3. FramesInv => SendsRecentCommands
  BY DEF FramesInv, FramesMade, FramesUpTo, SendsRecentCommands, Servo
<1>4. QED
  BY <1>1, <1>2, <1>3, Pi3HatInvariance, PTL DEF Spec

=============================================================================
