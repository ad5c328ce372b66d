-------------------------- MODULE Pi3HatInterface --------------------------
(***************************************************************************)
(* The two threads of the spine process on a robot: the spine thread,      *)
(* which runs Spine::cycle_actuation and owns the interface, and the CAN   *)
(* thread of upkie/cpp/actuation/Pi3HatInterface.cpp, which executes one   *)
(* communication cycle each time Pi3HatInterface::cycle is called.  They   *)
(* share the servo commands and replies, the flags below, one mutex and    *)
(* one condition variable.  The spine thread leaves its loop after some    *)
(* pass, and destroys the interface.                                       *)
(*                                                                         *)
(* The command of a servo has a mode, and a position which stands for any  *)
(* one of the fields of its `position`: the threads access them one after  *)
(* the other.  Positions are abstracted to the pass that wrote them,       *)
(* counted modulo three: one may be older, the same or newer than another  *)
(* one.  Passes that write stops write modes only.  Replies are abstracted *)
(* to the parity of the cycle that collected them.                         *)
(***************************************************************************)
EXTENDS Naturals

CONSTANTS
    NbServos,
    MemberInitRace    \* whether the CAN thread may outrun the constructor

ASSUME ServosAssumption ==
    /\ NbServos \in Nat \ {0}
    /\ MemberInitRace \in BOOLEAN

VARIABLES
    mutex,                \* who holds mutex_
    waiting,              \* whether can_wait_condition_ has the CAN thread
    ongoing_can_cycle,
    done,
    pi3hat,               \* whether pi3hat_ holds an object
    commands,             \* data_.commands
    replies,              \* data_.replies
    tx_can,               \* frames made from the commands
    rx_count,             \* number of replies of the last CAN cycle
    can_pc, can_servo,    \* CAN thread, and its place in a loop over servos
    spine_pc, servo,      \* spine thread, and its place in a loop over servos
    actuation_output,     \* the future: "none", "pending" or "ready"
    servo_replies,        \* the spine's copy of the replies
    shutdown,             \* whether the spine is in kShutdown, for good
    batch,                \* history: what the spine wrote last
    cycle,                \* parity of the cycle it launched last
    launched              \* history: the batch it launched that cycle with

lock_vars == <<mutex, waiting, ongoing_can_cycle, done>>
data_vars == <<commands, replies, tx_can, rx_count, pi3hat>>
can_vars == <<can_pc, can_servo>>
pass_vars == <<shutdown, batch, cycle, launched>>
spine_vars == <<spine_pc, servo, servo_replies, pass_vars>>

vars == <<lock_vars, data_vars, can_vars, spine_vars, actuation_output>>

Servo == 1..NbServos

Parity == {0, 1}

Batch == 0..2

Mode == {"kStopped", "kPosition"}

\* The mode and position of a command, or of a frame made from one.  Of a
\* batch: the modes of the last pass that wrote commands, and the positions of
\* the last pass that wrote some.
Command == [mode : Mode, position : Batch]

Stop == [mode |-> "kStopped", position |-> 0]

\* The positions of the next pass that writes some.
following(b) == IF b = 2 THEN 0 ELSE b + 1

CanPc == {"start", "while", "lock", "check", "waiting", "woken", "commands",
          "position", "transfer", "replies", "imu", "relock", "callback",
          "returned"}

SpinePc == {"construct", "observe", "positions", "fields", "stops", "get",
            "copy", "cycle", "read_ongoing", "notify", "join", "joined",
            "logic_error"}

TypeOK ==
    /\ mutex \in {"free", "spine", "can"}
    /\ {waiting, ongoing_can_cycle, done, pi3hat, shutdown} \subseteq BOOLEAN
    /\ {commands, tx_can} \subseteq [Servo -> Command]
    /\ replies \in [Servo -> Parity]
    /\ rx_count \in 0..NbServos
    /\ can_pc \in CanPc /\ can_servo \in Servo
    /\ spine_pc \in SpinePc /\ servo \in Servo
    /\ actuation_output \in {"none", "pending", "ready"}
    /\ servo_replies \in UNION {[1..n -> Parity] : n \in 0..NbServos}
    /\ {batch, launched} \subseteq Command /\ cycle \in Parity

Init ==
    /\ mutex = "free"
    /\ waiting = FALSE
    /\ ongoing_can_cycle = FALSE
    /\ done = FALSE
    /\ pi3hat = FALSE
    /\ commands = [s \in Servo |-> Stop]
    /\ replies = [s \in Servo |-> 0]
    /\ tx_can = [s \in Servo |-> Stop]
    /\ rx_count = 0
    /\ can_pc = "start" /\ can_servo = 1
    /\ spine_pc = "construct" /\ servo = 1
    /\ actuation_output = "none"
    /\ servo_replies = [s \in 1..0 |-> 0]
    /\ shutdown = FALSE
    /\ batch = Stop /\ cycle = 0 /\ launched = Stop

-----------------------------------------------------------------------------
(***************************************************************************)
(* CAN thread: run_can_thread and cycle_can_thread                         *)
(***************************************************************************)

can_goto(pc) ==
    /\ can_pc' = pc
    /\ can_servo' = 1

\* The end of the body of the loop over data_.commands.
can_next_servo ==
    IF can_servo < NbServos
    THEN can_pc' = "commands" /\ can_servo' = can_servo + 1
    ELSE can_goto("transfer")

\* The thread starts in the middle of the constructor, whose later members
\* include pi3hat_: MemberInitRace lets it go first.
CanStart ==
    /\ can_pc = "start"
    /\ MemberInitRace \/ spine_pc # "construct"
    /\ pi3hat' = TRUE
    /\ can_goto("while")
    /\ UNCHANGED <<lock_vars, commands, replies, tx_can, rx_count, spine_vars,
                   actuation_output>>

CanWhile ==
    /\ can_pc = "while"
    /\ can_goto(IF done THEN "returned" ELSE "lock")
    /\ UNCHANGED <<lock_vars, data_vars, spine_vars, actuation_output>>

CanLock ==
    /\ can_pc = "lock"
    /\ mutex = "free"
    /\ mutex' = "can"
    /\ can_goto("check")
    /\ UNCHANGED <<waiting, ongoing_can_cycle, done, data_vars,
                   spine_vars, actuation_output>>

\* Both ways release the mutex: to wait, or at the end of the scope.
CanCheck ==
    /\ can_pc = "check"
    /\ mutex' = "free"
    /\ waiting' = ~ongoing_can_cycle
    /\ can_goto(IF ongoing_can_cycle THEN "commands" ELSE "waiting")
    /\ UNCHANGED <<ongoing_can_cycle, done, data_vars, spine_vars,
                   actuation_output>>

CanWakeUp ==
    /\ can_pc = "waiting"
    /\ ~waiting
    /\ mutex = "free"
    /\ mutex' = "can"
    /\ can_goto("woken")
    /\ UNCHANGED <<waiting, ongoing_can_cycle, done, data_vars,
                   spine_vars, actuation_output>>

\* Mistaken: the CAN thread trusts that it was notified of a cycle.
CanWoken_trusting ==
    /\ can_pc = "woken"
    /\ mutex' = "free"
    /\ can_goto(IF done THEN "returned" ELSE "commands")
    /\ UNCHANGED <<waiting, ongoing_can_cycle, done, data_vars,
                   spine_vars, actuation_output>>

CanWoken ==
    /\ can_pc = "woken"
    /\ mutex' = "free"
    /\ can_goto(IF done THEN "returned"
                ELSE IF ongoing_can_cycle THEN "commands" ELSE "while")
    /\ UNCHANGED <<waiting, ongoing_can_cycle, done, data_vars,
                   spine_vars, actuation_output>>

\* A condition variable may wake up without a notification.
SpuriousWakeUp ==
    /\ waiting
    /\ waiting' = FALSE
    /\ UNCHANGED <<mutex, ongoing_can_cycle, done, data_vars,
                   can_vars, spine_vars, actuation_output>>

\* The loop over data_.commands, which makes frames anew: a stop command has
\* nothing but its mode.
CanReadMode ==
    /\ can_pc = "commands"
    /\ tx_can' = [tx_can EXCEPT
          ![can_servo] = [mode |-> commands[can_servo].mode, position |-> 0]]
    /\ \/ /\ commands[can_servo].mode = "kPosition"
          /\ can_pc' = "position"
          /\ UNCHANGED can_servo
       \/ /\ commands[can_servo].mode = "kStopped"
          /\ can_next_servo
    /\ UNCHANGED <<lock_vars, commands, replies, rx_count, pi3hat, spine_vars,
                   actuation_output>>

CanReadPosition ==
    /\ can_pc = "position"
    /\ tx_can' = [tx_can EXCEPT
          ![can_servo].position = commands[can_servo].position]
    /\ can_next_servo
    /\ UNCHANGED <<lock_vars, commands, replies, rx_count, pi3hat, spine_vars,
                   actuation_output>>

\* pi3hat_->Cycle: some of the servos reply, or none.  A null pi3hat_ crashes
\* the process here.
CanTransfer ==
    /\ can_pc = "transfer"
    /\ pi3hat
    /\ rx_count' \in 0..NbServos
    /\ can_goto(IF rx_count' = 0 THEN "imu" ELSE "replies")
    /\ UNCHANGED <<lock_vars, commands, replies, tx_can, pi3hat, spine_vars,
                   actuation_output>>

\* The loop over data_.replies.
CanWriteReply ==
    /\ can_pc = "replies"
    /\ replies' = [replies EXCEPT ![can_servo] = cycle]
    /\ IF can_servo < rx_count
       THEN can_servo' = can_servo + 1 /\ UNCHANGED can_pc
       ELSE can_goto("imu")
    /\ UNCHANGED <<lock_vars, commands, tx_can, rx_count, pi3hat, spine_vars,
                   actuation_output>>

CanUpdateImu ==
    /\ can_pc = "imu"
    /\ can_goto("relock")
    /\ UNCHANGED <<lock_vars, data_vars, spine_vars, actuation_output>>

\* Mistaken: the cycle stays marked as under way.
CanEndCycle_still_ongoing ==
    /\ can_pc = "relock"
    /\ mutex = "free"
    /\ can_goto("callback")
    /\ UNCHANGED <<lock_vars, data_vars, spine_vars, actuation_output>>

\* The second critical section, then the callback of Spine::cycle_actuation,
\* which sets the promise behind the future actuation_output_.
CanEndCycle ==
    /\ can_pc = "relock"
    /\ mutex = "free"
    /\ ongoing_can_cycle' = FALSE
    /\ can_goto("callback")
    /\ UNCHANGED <<mutex, waiting, done, data_vars, spine_vars,
                   actuation_output>>

CanCallback ==
    /\ can_pc = "callback"
    /\ actuation_output' = "ready"
    /\ can_goto("while")
    /\ UNCHANGED <<lock_vars, data_vars, spine_vars>>

-----------------------------------------------------------------------------
(***************************************************************************)
(* Spine thread: the constructor, Spine::cycle_actuation, the destructor   *)
(***************************************************************************)

spine_goto(pc) ==
    /\ spine_pc' = pc
    /\ servo' = 1

\* The members declared after can_thread_ are initialized after it started.
Construct ==
    /\ spine_pc = "construct"
    /\ pi3hat' = FALSE
    /\ spine_goto("observe")
    /\ UNCHANGED <<lock_vars, commands, replies, tx_can, rx_count, can_vars,
                   servo_replies, pass_vars, actuation_output>>

\* Part 1, which reads imu_data_.  In part 2 the state of the spine decides
\* what is written: positions in kStep; stops in kSendStops and kShutdown, or
\* if part 1 throws, which shuts down; nothing in kIdle and kReset, or in kStep
\* if the action has no servo.
Observe ==
    /\ spine_pc = "observe"
    /\ \/ /\ ~shutdown
          /\ batch' = [mode |-> "kPosition",
                       position |-> following(batch.position)]
          /\ spine_goto("positions")
          /\ UNCHANGED shutdown
       \/ /\ batch' = [batch EXCEPT !.mode = "kStopped"]
          /\ shutdown' \in {shutdown, TRUE}
          /\ spine_goto("stops")
       \/ /\ ~shutdown
          /\ spine_goto("get")
          /\ UNCHANGED <<batch, shutdown>>
    /\ UNCHANGED <<lock_vars, data_vars, can_vars, servo_replies, cycle,
                   launched, actuation_output>>

\* Part 2 in kStep: the loop over commands_ writes the mode of a command, then
\* the fields of its position.
WriteMode ==
    /\ spine_pc = "positions"
    /\ commands' = [commands EXCEPT ![servo].mode = "kPosition"]
    /\ spine_pc' = "fields"
    /\ UNCHANGED <<lock_vars, replies, tx_can, rx_count, pi3hat, can_vars,
                   servo, servo_replies, pass_vars, actuation_output>>

WritePosition ==
    /\ spine_pc = "fields"
    /\ commands' = [commands EXCEPT ![servo].position = batch.position]
    /\ IF servo < NbServos
       THEN spine_pc' = "positions" /\ servo' = servo + 1
       ELSE spine_goto("get")
    /\ UNCHANGED <<lock_vars, replies, tx_can, rx_count, pi3hat, can_vars,
                   servo_replies, pass_vars, actuation_output>>

\* The command of some servo is missing or invalid, those of the servos before
\* it are written: what cycle_actuation catches makes it shut down.
CommandFails ==
    /\ spine_pc = "positions"
    /\ shutdown' = TRUE
    /\ batch' = [batch EXCEPT !.mode = "kStopped"]
    /\ spine_goto("stops")
    /\ UNCHANGED <<lock_vars, data_vars, can_vars, servo_replies, cycle,
                   launched, actuation_output>>

\* Interface::write_stop_commands leaves the positions alone.
WriteStop ==
    /\ spine_pc = "stops"
    /\ commands' = [commands EXCEPT ![servo].mode = "kStopped"]
    /\ IF servo < NbServos
       THEN servo' = servo + 1 /\ UNCHANGED spine_pc
       ELSE spine_goto("get")
    /\ UNCHANGED <<lock_vars, replies, tx_can, rx_count, pi3hat, can_vars,
                   servo_replies, pass_vars, actuation_output>>

\* Mistaken: the spine copies replies without waiting for the output.
GetOutput_not_waiting ==
    /\ spine_pc = "get"
    /\ actuation_output' = "none"
    /\ servo_replies' = [i \in 1..0 |-> 0]
    /\ spine_goto(IF rx_count = 0 THEN "cycle" ELSE "copy")
    /\ UNCHANGED <<lock_vars, data_vars, can_vars, pass_vars>>

\* Part 3: actuation_output_.get() blocks until the promise is set, and leaves
\* the future without a value; then the replies are copied.
GetOutput ==
    /\ spine_pc = "get"
    /\ \/ /\ actuation_output = "none"
          /\ spine_goto("cycle")
          /\ UNCHANGED <<servo_replies, actuation_output>>
       \/ /\ actuation_output = "ready"
          /\ actuation_output' = "none"
          /\ servo_replies' = [i \in 1..0 |-> 0]
          /\ spine_goto(IF rx_count = 0 THEN "cycle" ELSE "copy")
    /\ UNCHANGED <<lock_vars, data_vars, can_vars, pass_vars>>

CopyReply ==
    /\ spine_pc = "copy"
    /\ servo_replies' = [i \in 1..servo |->
          IF i = servo THEN replies[servo] ELSE servo_replies[i]]
    /\ IF servo < rx_count
       THEN servo' = servo + 1 /\ UNCHANGED spine_pc
       ELSE spine_goto("cycle")
    /\ UNCHANGED <<lock_vars, data_vars, can_vars, pass_vars, actuation_output>>

\* Mistaken: the CAN thread is not notified.
Cycle_not_notifying ==
    /\ spine_pc = "cycle"
    /\ mutex = "free"
    /\ IF ongoing_can_cycle
       THEN /\ spine_goto("logic_error")
            /\ UNCHANGED <<ongoing_can_cycle, cycle, launched, actuation_output>>
       ELSE /\ ongoing_can_cycle' = TRUE
            /\ cycle' = 1 - cycle
            /\ launched' = batch
            /\ actuation_output' = "pending"
            /\ spine_goto("observe")
    /\ UNCHANGED <<mutex, waiting, done, data_vars, can_vars, servo_replies,
                   shutdown, batch>>

\* Part 4: Pi3HatInterface::cycle, one critical section.
Cycle ==
    /\ spine_pc = "cycle"
    /\ mutex = "free"
    /\ IF ongoing_can_cycle
       THEN /\ spine_goto("logic_error")
            /\ UNCHANGED <<ongoing_can_cycle, waiting, cycle, launched,
                          actuation_output>>
       ELSE /\ ongoing_can_cycle' = TRUE
            /\ waiting' = FALSE
            /\ cycle' = 1 - cycle
            /\ launched' = batch
            /\ actuation_output' = "pending"
            /\ spine_goto("observe")
    /\ UNCHANGED <<mutex, done, data_vars, can_vars, servo_replies,
                   shutdown, batch>>

\* The last pass of the loop, in kShutdown, returns before part 4, then run()
\* returns and the interface is destroyed.
SetDone ==
    /\ spine_pc = "cycle"
    /\ shutdown
    /\ done' = TRUE
    /\ spine_goto("read_ongoing")
    /\ UNCHANGED <<mutex, waiting, ongoing_can_cycle, data_vars, can_vars,
                   servo_replies, pass_vars, actuation_output>>

ReadOngoing ==
    /\ spine_pc = "read_ongoing"
    /\ spine_goto(IF ongoing_can_cycle THEN "join" ELSE "notify")
    /\ UNCHANGED <<lock_vars, data_vars, can_vars, servo_replies, pass_vars,
                   actuation_output>>

\* Mistaken: the destructor joins without notifying.
Notify_nobody ==
    /\ spine_pc = "notify"
    /\ mutex = "free"
    /\ spine_goto("join")
    /\ UNCHANGED <<lock_vars, data_vars, can_vars, servo_replies, pass_vars,
                   actuation_output>>

Notify ==
    /\ spine_pc = "notify"
    /\ mutex = "free"
    /\ waiting' = FALSE
    /\ spine_goto("join")
    /\ UNCHANGED <<mutex, ongoing_can_cycle, done, data_vars, can_vars,
                   servo_replies, pass_vars, actuation_output>>

Join ==
    /\ spine_pc = "join"
    /\ can_pc = "returned"
    /\ spine_goto("joined")
    /\ UNCHANGED <<lock_vars, data_vars, can_vars, servo_replies, pass_vars,
                   actuation_output>>

-----------------------------------------------------------------------------
CanThread ==
    \/ CanStart
    \/ CanWhile
    \/ CanLock
    \/ CanCheck
    \/ CanWakeUp
    \/ CanWoken
    \/ CanReadMode
    \/ CanReadPosition
    \/ CanTransfer
    \/ CanWriteReply
    \/ CanUpdateImu
    \/ CanEndCycle
    \/ CanCallback

SpineThread ==
    \/ Construct
    \/ Observe
    \/ WriteMode
    \/ WritePosition
    \/ CommandFails
    \/ WriteStop
    \/ GetOutput
    \/ CopyReply
    \/ Cycle
    \/ SetDone
    \/ ReadOngoing
    \/ Notify
    \/ Join

Next == CanThread \/ SpineThread \/ SpuriousWakeUp

\* The scheduler runs both threads; nothing makes spurious wake-ups happen.
Fairness == WF_vars(CanThread) /\ WF_vars(SpineThread)

Spec == Init /\ [][Next]_vars

FairSpec == Spec /\ Fairness

-----------------------------------------------------------------------------
\* The exception of Pi3HatInterface::cycle, "Cycle cannot be called before the
\* previous one has completed", is never thrown: the CAN thread lowers its
\* flag before it sets the promise that the spine thread waits for.
NeverCyclesTooEarly == spine_pc # "logic_error"

\* "Results have been copied, so actuation commands and replies are available
\* again to the actuation thread for writing" (Spine.cpp): what the spine
\* copied are the replies of the last cycle it launched, and of no other.
RepliesOfLastCycle ==
    spine_pc = "cycle" =>
        \A i \in DOMAIN servo_replies : servo_replies[i] = cycle

\* Interface.h: "We depend on the implementation of Spine::cycle_actuation to
\* guarantee that commands are not modified while the CAN thread processes
\* them."
CommandsNotModified ==
    [][(can_pc \in {"commands", "position"}) => UNCHANGED commands]_vars

\* A position command could be sent in the cycle under way: the spine launched
\* it with positions, or it has been writing positions since.
Moving == launched.mode = "kPosition" \/ batch.position # launched.position

\* A stop could be sent in the cycle under way.
Stopping == "kStopped" \in {launched.mode, batch.mode}

RecentMode(mode) ==
    /\ mode = "kPosition" => Moving
    /\ mode = "kStopped" => Stopping

RecentPosition(position) ==
    position \in {launched.position, following(launched.position)}

\* What holds in its place, as the spine waits for the output of a cycle before
\* it launches the next one.  The mode that a CAN cycle sends is that of the
\* pass that launched it or of the one after it, even if that one fails; the
\* fields of a position command are those of the last pass that wrote some
\* before it was launched, or of the one after it.
SendsRecentCommands ==
    can_pc = "transfer" =>
        \A s \in Servo :
            /\ RecentMode(tx_can[s].mode)
            /\ tx_can[s].mode = "kPosition" =>
                   RecentPosition(tx_can[s].position)

\* A cycle launched by a pass that left the servos stopped sends no position of
\* a session that is over: its frames are stops, or commands that were written
\* since.
NoPositionOfEarlierSession ==
    can_pc = "transfer" /\ launched.mode = "kStopped" =>
        \A s \in Servo : tx_can[s].mode = "kPosition" =>
            tx_can[s].position = following(launched.position)

\* "Internal Pi3Hat interface. Only use from the CAN thread" (the member
\* pi3hat_): no CAN cycle runs without it.
CyclesWithPi3Hat == can_pc = "transfer" => pi3hat

\* A cycle that was launched is carried out and its output handed over, so
\* that the spine thread does not block forever in actuation_output_.get().
LaunchedCyclesComplete ==
    actuation_output = "pending" ~> actuation_output = "ready"

\* "CAN thread exits when it is notified and this boolean is true" (done_),
\* so that the destructor, which notifies it and joins it, returns.
DestructorReturns == done ~> spine_pc = "joined"

\* It does return if the CAN thread is waiting when it is notified, as the
\* destructor assumes ("thread is waiting for notification").
DestructorReturnsIfWaiting ==
    spine_pc = "notify" /\ waiting ~> spine_pc = "joined"

-----------------------------------------------------------------------------
(***************************************************************************)
(* The inductive invariant                                                 *)
(***************************************************************************)

\* The spine thread in parts 1 and 2, and waiting in part 3.
Writing == {"observe", "positions", "fields", "stops", "get"}

\* A cycle goes from the spine thread that launches it to the CAN thread that
\* carries it out and back, with its output: at most one thread has it.
CycleOwner ==
    /\ ongoing_can_cycle => actuation_output = "pending"
    /\ can_pc \in {"commands", "position", "transfer", "replies", "imu",
                   "relock"} => ongoing_can_cycle
    /\ can_pc = "callback" =>
           ~ongoing_can_cycle /\ actuation_output = "pending"
    /\ actuation_output # "none" => spine_pc \in Writing
    /\ NeverCyclesTooEarly

RepliesUpTo(n) == \A i \in 1..n : replies[i] = cycle

\* The CAN thread has collected what it says it has before it hands it over,
\* and what the spine copies is not written over.
RepliesCollected ==
    /\ can_pc = "replies" =>
           can_servo <= rx_count /\ RepliesUpTo(can_servo - 1)
    /\ \/ can_pc \in {"imu", "relock", "callback"}
       \/ actuation_output = "ready"
       \/ spine_pc = "copy"
       => RepliesUpTo(rx_count)

\* The copy of the spine grows by one reply at a time, and there is none
\* before the first cycle.
RepliesCopied ==
    /\ spine_pc = "copy" =>
           servo <= rx_count /\ DOMAIN servo_replies = 1..(servo - 1)
    /\ spine_pc \in {"copy", "cycle"} =>
           \A i \in DOMAIN servo_replies : servo_replies[i] = cycle
    /\ actuation_output = "none"
             /\ spine_pc \in Writing \cup {"construct"} =>
           DOMAIN servo_replies = 1..0

IInv ==
    /\ TypeOK
    /\ CycleOwner
    /\ RepliesCollected
    /\ RepliesCopied

\* What a pass of the spine writes: all the modes it is to write, and all the
\* positions unless it fails, after which it writes no more of them.
CommandsWritten ==
    /\ \A s \in Servo :
           \/ commands[s].mode = batch.mode
           \/ spine_pc \in {"positions", "stops"} /\ servo <= s
           \/ spine_pc = "fields" /\ servo < s
    /\ \A s \in Servo :
           \/ commands[s].position = batch.position
           \/ spine_pc \in {"positions", "fields"} /\ servo <= s
           \/ shutdown
    /\ spine_pc \in {"positions", "fields"} => batch.mode = "kPosition"
    /\ shutdown \/ spine_pc = "stops" => batch.mode = "kStopped"

\* While a cycle is under way, the spine is one pass ahead of it at most.
OneBatchAhead ==
    actuation_output = "pending" =>
        /\ spine_pc = "observe" => batch = launched
        /\ batch.position \in {launched.position, following(launched.position)}
        /\ spine_pc \in {"positions", "fields"} =>
               batch.position = following(launched.position)

\* What the CAN thread may read while its cycle is under way.
CommandsRecent ==
    actuation_output = "pending" =>
        \A s \in Servo :
            /\ RecentMode(commands[s].mode)
            /\ Moving => RecentPosition(commands[s].position)

FramesUpTo(n) ==
    \A i \in 1..n :
        /\ RecentMode(tx_can[i].mode)
        /\ tx_can[i].mode = "kPosition" => RecentPosition(tx_can[i].position)

\* The frames that the CAN thread has made so far.
FramesMade ==
    /\ can_pc \in {"commands", "position"} => FramesUpTo(can_servo - 1)
    /\ can_pc = "position" => tx_can[can_servo].mode = "kPosition" /\ Moving
    /\ can_pc = "transfer" => FramesUpTo(NbServos)

FramesInv ==
    /\ CommandsWritten
    /\ OneBatchAhead
    /\ CommandsRecent
    /\ FramesMade

=============================================================================
