# Verification of Upkie

TLA+ models of the software that runs Upkie, a wheeled biped robot: the *spine*,
a C++ process that talks to actuators and sensors at a fixed frequency; the
*agent*, a Python process that controls the robot through it, with the
*environments* and wrappers agents are written with; and the scripts that set a robot
up. Spine and agent exchange dictionaries over shared memory, without a lock. Paths
below are relative to the root of the repository.

The spine and its agents:

    AgentInterface.tla      shared memory: request word, size word, buffer
    StateMachine.tla        finite state machine of the spine    EXTENDS AgentInterface
    Spine.tla               Spine::run and Spine::simulate       EXTENDS StateMachine
    SpineInterface.tla      the agent's side of the memory       EXTENDS AgentInterface
    SpineSystem.tla         one spine, its agents, properties    EXTENDS Spine, SpineInterface
    ActuationContract.tla   abstract: what reaches the servos
    CallContract.tla        abstract: what agents call
    MCSpineSystem.tla       instance of SpineSystem for TLC
    Pi3HatInterface.tla     the two threads of the spine on a robot
    SharedMemory.tla        the life of the shared-memory objects
    SpineSystemProofs.tla   types, buffer, answers, refinement   (TLAPS)
    ActuationProofs.tla     stops on the bus, refinement         (TLAPS)
    SharedMemoryProofs.tla  who holds the name                   (TLAPS)

The environments:

    Filters.tla                  clamps and digital filters
    BaseEnv.tla                  the environments of one process and their spines
    BulletForces.tla             forces in the dictionary and in the simulator
    GroundVelocityEnv.tla        UpkieGroundVelocity and the action wrappers
                                     EXTENDS BaseEnv, BulletForces, Filters
    MCGroundVelocity.tla         instance of GroundVelocityEnv for TLC
    ServosEnv.tla                the three servo environments    EXTENDS BaseEnv, Filters
    WheeledInvertedPendulum.tla  the model environment           EXTENDS Filters
    GroundVelocityProofs.tla, ServosProofs.tla, PendulumProofs.tla    (TLAPS)

The setup of a robot:

    AccessPointSetup.tla    setup_wifi_ap.py
    ServoSetup.tla          configure_servos.py
    Setup.tla               the three scripts on one robot
                                EXTENDS AccessPointSetup, ServoSetup

## 1. Inventory

### Components, their state and their operations

**Agent interface** (`upkie/cpp/spine/AgentInterface.cpp`, `Request.h`,
`upkie/spine/request.py`). State: a shared-memory object made of one word for the
request, one word for the size of the dictionary in the buffer, and the buffer.
Operations: `request`, `set_request`, `size`, `data`, `write`; creation with
`O_EXCL`, mapping and unlinking. Correct when no process reads a dictionary that
the other is writing.

**State machine** (`upkie/cpp/spine/StateMachine.cpp`). State: `state_`
(`kSendStops`, `kReset`, `kIdle`, `kStep`, `kShutdown`, `kOver`) and `stop_cycles_`.
Operations: `process_event` for the beginning of a cycle, its end, and an
interrupt. It clears requests when it *enters* some states, which is what the agent
waits for. Correct when a request is cleared after it was served and not before,
when enough stop commands precede a session and an exit, and when a shutdown is
final.

**Spine** (`upkie/cpp/spine/Spine.cpp`). State: the working dictionary, the
actuation interface, the future of the cycle under way, the flag of SIGINT.
Operations: `begin_cycle` (read the request and, if there is one to serve, its
dictionary), `cycle_actuation` (observe, write servo commands, collect the replies
of the last cycle, launch the next), `end_cycle` (write the observation, acknowledge).
`run` does each once per pass; `simulate` cycles the actuators zero, one or several
times, and ends its cycle after the first substep.

**Spine interface** (`upkie/spine/spine_interface.py`). State: a mapping of the shared
memory, and where the caller is in its operation. Operations: `set_action`, `start`,
`stop`; an environment's `reset` is stop then start, its `step` is set_action, its `close`
is stop. Correct when each call returns the observation that follows the dictionary it
wrote.

**Base environment** (`upkie/envs/upkie_base_env.py`), with the default configuration
(`upkie/config/`) and the initial state (`upkie/utils/robot_state*.py`). State: the
configuration, whose nested dictionaries are those of the module; the randomization of
the initial state; the rate limiter; the extras to send with the next action. Operations:
the constructor, `reset`, `step`, `close`, `log`, `bullet_extra`, `update_init_rand`.
Correct when a reset opens a session with the state it drew, and extras are sent once.

**Ground velocity environment** (`upkie_ground_velocity.py`) and **action wrappers**
(`upkie/envs/wrappers/`). State: filtered positions of the legs, an integral, a filtered
action and its time constant. Operations: `reset` and `step`, through the stack.
Correct when the sum of what the wrappers do stays in the action space, and nothing of
an episode goes into the next.

**Servo environments** (`upkie_servos.py`, `upkie_servo_positions.py`,
`upkie_servo_torques.py`). State: the neutral action, which fills in what an action does
not say or what the environment does not listen to. Correct when commands are within
the limits of the robot model, and torques come without position feedback.

**Wheeled inverted pendulum** (`wheeled_inverted_pendulum.py`). State: that of the
pendulum, its acceleration, the dictionary it pretends comes from a spine, the plot.
Operations: `reset`, `step`, `render`. Correct when velocity and acceleration are bounded
and observations are those of its state.

**Filters and clamps** (`upkie/utils/filters.py`, `clamp.py`): functions that these call.

**Setup scripts** (`tools/setup/`). State: files of the system and their backups, a
service, the memories of the servos, the boot parameters. Correct when a script that is
cut loses nothing, and one that returns has set up what it says.

**Pi3Hat interface** (`upkie/cpp/actuation/Pi3HatInterface.cpp`). State: a mutex, a
condition variable, the flags `ongoing_can_cycle_` and `done_`, the commands and the
replies, which both threads access without the mutex. Operations: the CAN thread,
`cycle`, the constructor, the destructor. Correct when each launched cycle is carried
out once on commands nobody is writing, when the replies the spine copies are those
of that cycle, and when the destructor returns.

**Actuation interface** (`upkie/cpp/actuation/Interface.cpp`), **Bullet interface**
(`BulletInterface.cpp`) and **mock interface** (`MockInterface.cpp`). State: servo
commands and replies; for Bullet, also the contacts, the external forces, the masses and
the joint properties that `reset` must restore. Operations: `reset`, `cycle`, `observe`,
`process_action`, `write_position_commands`, `write_stop_commands`.

**Observer pipeline and observers** (`upkie/cpp/observers/`). State: sources and
observers in order; filters and hysteresis of contacts, odometry. An observer that
lacks a key ends the pipeline for that cycle.

**Sensors** (`upkie/cpp/sensors/`). State: the last event of a joystick or a keyboard, a
hysteresis for the warning on the temperature of the processor.

**Synchronous clock** (`upkie/cpp/utils/SynchronousClock.cpp`). State: the next tick,
the number of cycles skipped, the slack.

**Shared-memory lifecycle** (`AgentInterface.cpp`, `clear_shared_memory.h`,
`wait_for_shared_memory.py`, `src/spines/`). A spine that was killed leaves its object
behind, which the next one refuses unless the object is cleared first; agents retry
until the object exists.

**moteus protocol** (`upkie/cpp/actuation/moteus/protocol.h`), **pi3hat IMU frames**,
**observation and reward wrappers**, **robot model**, **examples and other tools**: see
`PROJECT.json`, "components".

### How they interact

The agent and the spine interact through the shared memory only. The state machine
is called by the spine and writes the request word by itself. The spine calls the
actuation interface, whose CAN thread calls back into the spine through a promise.
SIGINT reaches the spine at any time through one flag, and exceptions reach the state
machine as interrupts. Observers and sensors write the working dictionary that the
spine serializes to the agent.

Environments call the spine interface, and anything they call may raise an exception that
none of them catches: what has been updated by then stays updated. Environments of one
process share the nested dictionaries of `SPINE_CONFIG`. In simulation, keys of an action
reach the simulator through a dictionary that later actions are merged into. The setup
scripts interact with the system through files that outlive them.

### What is hard about it

- The buffer has no lock. The request word alone keeps the two processes apart, and
  three parties write it: the agent, the state machine, and an agent that takes the
  place of one that died.
- A cleared request means "served" to the agent; the state machine clears requests for
  other reasons as well (a shutdown, a start that is not valid).
- An agent gives up after 100 ms, while its request is still pending.
- Stop cycles are counted by pre-increments, compared in three different ways, in
  states that exceptions may reach at any point of a pass.
- Commands outlive the pass that wrote them: a state that writes none sends the last.
- Commands and replies cross threads outside of the mutex.
- Environments, wrappers and simulator each remember something that a reset, or the next
  action, must replace, and a call may end by an exception between any two updates.
- Dictionaries are aliased: nested configurations, the copy of the neutral action.
- A script that writes a file truncates it first.

`PROJECT.json` lists each hazard at its line, with the properties that cover it.

## 2. The models

### The shared memory (`AgentInterface.tla`)

`mmap_request`, `mmap_size` and `mmap_data`. A dictionary is a record: its kind and the
number of the call it belongs to. Sizes are identified with the dictionary they are the size
of, so that the size of one dictionary with the bytes of another parses as `Garbage`.
Reading or writing the size and the buffer are two steps, as in the code.

### The spine (`StateMachine.tla`, `Spine.tla`)

`process_cycle_beginning`, `process_cycle_end`, `process_interrupt` and `enter_state` are
operators of the same names on `state`, `stop_cycles` and the request word. The request
word is read in `BeginCycle` and acted upon in `Dispatch`: what the agent does in between
is part of the model. `stop_cycles` wraps at `CounterModulus`, as an `unsigned` does.

| action | code |
|---|---|
| `BeginCycle`, `Dispatch` | `Spine::begin_cycle`, up to the event of the state machine |
| `ReadSize`, `ReadData` | `begin_cycle`: the dictionary, `reset`, a `PalimpsestError` as an interrupt |
| `WriteCommands` | `cycle_actuation`, parts 1 and 2 with their `catch` |
| `Cycle` | `cycle_actuation`, parts 3 and 4, and the early return of the last pass |
| `WriteObservationSize`, `WriteObservation`, `EndCycle` | `end_cycle` |
| `Exit` | the condition of the loop |
| `HandleInterrupt` | `handle_interrupts.cpp` |

`cycles_before` and `cycles_after` count the calls of `cycle_actuation` before and after
`end_cycle`: 1 and 0 in `run`, and as in `simulate` otherwise (3 and 0 for a reset, 1 and
`NbSubsteps - 1` for a step, none in the other states). Servo commands are abstracted to
their mode. `stops_cycled` is a history variable, the number of consecutive cycles that
sent stop commands, up to `kNbStopCycles`.

Faults of the spine are a parameter, `SpineFaults`: SIGINT, a dictionary that does not
deserialize, an exception while observing or writing commands, and an exception that no
handler of the loop catches (the configuration of an interface, an observation too
large), which ends the process.

### The agent (`SpineInterface.tla`)

One agent process at a time; each of its accesses to the memory is a step. `CallMethod`
starts one of `Methods`: `reset`, `step` and `close` of `UpkieBaseEnv`, or a direct
`start`, as scripts without an environment do. `WaitForSpine`, `CheckError`,
`ClearError` are `_wait_for_spine`; `AssertBeforeWrite`, `WriteDictSize`, `WriteDict` are
`_write_dict`; `AssertBeforeRead`, `ReadDictSize`, `ReadDict` are `_read_dict`. `returned`
is what the last operation returned, with the number of its call. Faults are a parameter,
`AgentFaults`: the deadline, a dictionary larger than the mapping, and a death of the
agent at any point of a call, after which another agent connects.

### The actuation contract (`ActuationContract.tla`)

What the servos see, without the agent or the loop: stop commands at any time, position
commands in an active phase only, that phase after `NbStops` cycles of stops in a row, a
final shutdown. `SpineSystem` implements it under the mapping `phase`, `stops <-
stops_cycled`.

### The call contract (`CallContract.tla`)

What the spine promises to agents, without the memory: one request at a time, each with a
dictionary that is taken once at most and in order, answered, and let fall (`Raise`, `Take`,
`Answer`, `Settle`); a caller that gives up leaves its request behind (`GiveUp`), and the next
one cannot raise its own before it has fallen; a call that returns (`Return`) has the
observation of its own dictionary. `GetsItBack` names the only two calls that return their
own dictionary instead: a configuration that was never taken, or any call to a spine that is `over`.
`SpineSystem` implements it: `taken <- served`, `over <- ShuttingDown`; `waiting` is
the dictionary of an operation that has raised its request, `pending` that of the
request word, and `answered` says that both size and bytes are those of the answer. A
dictionary that is half written, by either side, answers nothing.

### The two threads (`Pi3HatInterface.tla`)

`mutex`, `waiting` (the wait set of the condition variable), the flags, and data accessed
servo by servo, so that two threads can be in the middle of the same array. The CAN thread
is `CanStart` to `CanCallback`; the spine thread is the constructor, `cycle_actuation`
pass after pass, and the destructor. The command of a servo has a mode and a position, which
stands for any one of the fields of its `position`: the threads access them one after the other.
Positions carry the number, modulo three, of the pass that wrote them, and replies the parity of
the cycle that collected them.

| action | code |
|---|---|
| `Observe` | parts 1 and 2 of `cycle_actuation` up to the loops: `kStep` writes positions; `kSendStops`, `kShutdown` and an exception write stops; `kIdle` and `kReset` write nothing |
| `WriteMode`, `WritePosition` | `write_position_commands`, servo by servo, the mode first |
| `CommandFails` | its four exceptions, before the command of a servo is touched; the spine shuts down |
| `WriteStop` | `write_stop_commands`, which writes modes only |
| `CanReadMode`, `CanReadPosition` | the loop of `cycle_can_thread`: a frame with a stop has no position |

`launched` and `batch` are history variables: the modes that the spine wrote last, and the
number of the pass that wrote positions last. `shutdown` is the state `kShutdown`, which no
position follows, and without which the loop does not end. Spurious wake-ups are possible at any
time. `MemberInitRace` says whether the CAN thread may start before the
constructor has initialized the members that follow it, which is up to the scheduler;
it is FALSE in the runs, because the null pointer it leads to would end their behaviours.

### The life of the objects (`SharedMemory.tla`)

`SpineSystem` starts where a spine is running and an agent has mapped its object.
`SharedMemory` is about how they got there: several programs (`Spines`, of which those in
`Clearing` clear the name first, as `bullet_spine` does and `pi3hat_spine` does not), several
agents, one name, and the objects it refers to in turn. Objects are numbered in the order
of their creation.

| action | code |
|---|---|
| `ClearOpen`, `ClearUnlink` | `clear_shared_memory`, whose two system calls are two steps |
| `Create`, `Allocate` | the constructor of `AgentInterface`: `O_CREAT \| O_EXCL`, then `ftruncate` and `mmap` |
| `ConstructStateMachine`, `ConstructSpine` | the two places of a start that set the request to `kNone` |
| `Serve` | all the rest of `Spine::run`: a raised request is taken down |
| `Exit` | the destructor, which unlinks the *name* |
| `Open`, `Map`, `Unregister` | `wait_for_shared_memory`: trials, the mapping, the resource tracker |
| `RaiseRequest`, `Return`, `Close` | calls of an agent, `SpineInterface.__del__` |

Faults are a parameter again: any process may be killed at any step, an allocation may
fail (the exception leaves the constructor, so that no destructor runs), and an agent may be
killed while the resource tracker of its Python process has the object registered, in which
case the tracker unlinks the name some time later (`TrackerUnlink`). `OneAtATime` is the
discipline of the user: a spine is started when no other is alive. `orphaned` and
`tracker_unlinked` are history variables.

### The environments of a process (`BaseEnv.tla`)

A call of the spine is one step here, which answers or raises an exception whether it was
served or not; `SpineSystem` has the details of the calls, and where a spine may be left. A
configuration is the nested key that a user overrides, and the reset state: whose, from
which call, and how far from the nominal state. Extras are numbered.

| action | code |
|---|---|
| `Construct` | `__init__`: `nested_update` on the shared dictionaries, before what may raise |
| `BaseReset` | `reset`: stop, rate limiter, `sample_state`, start; either call of the spine may raise |
| `BaseStep` | `step` past `get_spine_action`: the extras are merged and cleared, then sent |
| `BaseStepRefused`, `BaseStepUnready` | `step` when `get_spine_action` raises; without a rate limiter |
| `Log`, `BulletExtra` | `log`, `bullet_extra` |
| `UpdateInitRand` | `update_init_rand` |
| `Close` | `close`, `__del__` |

`asked` is a history variable: what the user wants with the next action. The spine's own
state is two values: `stopped`, where a start is served, and `idle`, where it is
acknowledged only. An earlier agent may have left it in either.

### Ground velocity (`GroundVelocityEnv.tla`, `BulletForces.tla`)

`Step` and `Reset` go through the whole stack: `DifferentiateAction_step` integrates and
clips, `AddLagToAction_step` filters, `NoisifyAction_action` adds noise and clips, `EnvStep` is
`get_spine_action`, where `RandomPush` adds its forces, and `BaseStep`. Numbers are points
of a lattice, and the output of a low-pass filter is one of the two points around the exact
one. `BulletForces` follows forces into the working dictionary of the spine (`update`) and
`external_forces_` of the simulator (`process_forces`), link by link: nothing ever removes the
force of a link there, another force on the same link replaces it, and dictionaries that do
not name the link leave it. `RandomPush` names the `torso`; each extra of the user names the links
that `ExtraLinks` gives it, maybe none, and takes the place of the whole key `bullet`
(`upkie_base_env.py`:253), push included. Names that are not links of the robot are ignored by
the simulator, and left out. `measured` is a history variable.

### Servos (`ServosEnv.tla`)

Several environments of the three kinds in one process. `get_spine_action` takes each value
from the action if the mask lets it through, else from the neutral action, and clamps it;
`NaN` is a model value that clamps do not change, under any key. Policies may give it for all of
them. `EditNeutralAction` is a caller who fills in the dictionary that `get_neutral_action`
returned, whose nested dictionaries are the environment's own, with `NaN` or a number. `command`
has the action of the policy next to the servo action made of it.

### The inverted pendulum (`WheeledInvertedPendulum.tla`)

`Reset`, `Step`, `render` over `state`, `accel`, the plot and the two observations. (The
state is a value: `reset` returns the array itself, which later steps edit in place, so that
an agent who keeps it sees it change.) The dynamics are those of the code around the
vertical, in units where all numbers are integers. The import of `matplotlive` may fail, and
`render` raises in the middle of `step`. `commanded` is a history variable.

### Setup (`AccessPointSetup.tla`, `ServoSetup.tla`, `Setup.tla`)

The access-point script is a list of `Operations`: shell commands (`Run`, with effects on the
system that are external), and `EnsureContents`, which checks a file, copies it to a backup,
truncates it and writes it, one step each. `RunFails`, `ScriptIsKilled` and `Reboot` may come
between any two steps. `run_shell_command` of `ServoSetup` sets one parameter of one servo in its
memory, or has it write them; a power cycle forgets what was not written. The several settings
that make one parameter (a pair of limits) are one step. `CpuIsolationStep`
truncates and writes the boot parameters.

## 3. What is checked

| run | what it shows |
|---|---|
| `robot_any_caller` | safety of the protocol and of the servos on a robot, with every fault and any order of methods: `ExclusiveBuffer`, `ServesTheRightDictionary`, `NeverAnswersAnotherCall`, `StopsOnBus`, `StopsSentBeforeReset`, `AgentNeverDropsRequest`, `ServedOnceInOrder`, `ShutdownIsFinal`; the two contracts (`ImplementsContract`, `ImplementsCalls`) |
| `robot_liveness` | `CallsReturn`, `RequestsAreAnswered`, `InterruptExits` under fairness |
| `simulation` | the same protocol in front of a simulator, whose pass is in another order: calls get their answers (`AnswersItsCallUntilShutdown`), and the types and the handshake behind the proofs hold (`IInv`) |
| `pi3hat_threads` | no early cycle (`NeverCyclesTooEarly`), replies of the right cycle (`RepliesOfLastCycle`), frames of commands recent enough, written without the mutex (`SendsRecentCommands`), no lost cycle (`LaunchedCyclesComplete`), and a destructor that returns in the case it assumes (`DestructorReturnsIfWaiting`) |
| `shared_memory` | spines started one at a time, killed at any step: the one that runs keeps the name (`LiveSpineIsReachable`), `bullet_spine` is not refused because of leftovers (`ClearingSpineStarts`), which only spines that died leave (`NothingLeftBehind`), and no spine starts on an object that an agent has mapped (`StartsOnFreshObject`) |
| `ground_velocity` | the whole stack of wrappers: nothing to clamp at its end (`NeverClamped`), episodes that start softly (`SoftStart`), legs that go to neutral from where they are (`LegsGoToNeutral`), pushes that last one step, unless an extra takes the place of what would end them (`PushIsThatOfTheStep`), extras sent once (`ExtrasReachTheNextStep`) |
| `servos` | two environments with a shared configuration: commands within limits, and no `NaN` but where the policy or the neutral action has it (`CommandsWithinLimits`); no position feedback in an environment of torques (`NoPositionFeedbackUnlessAsked`); each reset is served with its own state (`EveryResetIsServed`), drawn from the randomization of that time (`DrawnFromCurrentRandomization`) |
| `pendulum` | the two clamps make a bounded filter (`GroundFollowsBoundedFilter`); observations are those of the state (`ObservationIsCurrent`) and agree with each other (`ImuAgreesWithOdometry`), calls that raise included |
| `setup` | scripts cut at any step and run again: no original lost (`OriginalIsKept`), no boot parameters lost (`KeepsBootParameters`), no servo half configured (`NoPartialServoConfiguration`), an access point once its script has returned (`ConfiguredWhenDone`) |

The other three runs show where the code does not do what its documents say:

| run | disagreement |
|---|---|
| `interrupted_call` | a call under way when the spine is interrupted returns its own dictionary |
| `stale_error` | a valid `kStop` or `kStart` raised just after an agent cleared an error is replaced by `kError` |
| `pi3hat_destructor` | the destructor's notification is lost if the CAN thread does not wait yet, and its join never returns |

### More disagreements

Five are properties that a module states and that its model violates, without a run of
their own; a configuration with the property alone shows each:

- `OneSpinePerName` (`SharedMemory`, with `OneAtATime = FALSE`): `bullet_spine` clears the name
  of a spine that runs, and both run.
- `OnlyServedRequestsAreCleared` (`SharedMemory`): a request raised as soon as the object exists
  is cleared by the constructor of the spine, unserved (`Spine.cpp`:55).
- `CommandsNotModified` (`Pi3HatInterface`): commands are written (`Spine.cpp`:204) while the CAN
  thread reads those of the cycle before, which `Interface.h`:146 says never happens. What holds is
  `SendsRecentCommands`: the mode that is sent is of the pass that launched the cycle or of the next
  one, and the position of the last pass that wrote some before the launch or of the next one.
  Hence a limit of `SpineSystem`, whose `Cycle` takes the commands as they are at its
  launch: a cycle launched in `kReset`, `kIdle` or `kStep` may send those of the pass after it. In
  `kSendStops` and `kShutdown` it sends stops all the same, as no pass that follows one of these
  is in `kStep`.
- `NoPositionOfEarlierSession` (`Pi3HatInterface`): stop commands leave the positions alone
  (`Interface.h`:107), and the first pass of the next session writes the mode of a command before
  its position (`Interface.cpp`:118). A CAN cycle that reads in between sends `kPosition` with
  fields of the last session, or the default ones of the first.
- `CyclesWithPi3Hat` (`Pi3HatInterface`, with `MemberInitRace = TRUE`): the thread starts before
  `pi3hat_` is initialized (`Pi3HatInterface.cpp`:24).

The others show in the models themselves:

- `start()` on a spine that is already started is acknowledged but not served, so that it
  returns the configuration it wrote (which is why `AnswersItsCallUntilShutdown` leaves
  `start` out, and why `EveryResetIsServed` needs the stop that comes before).
- A shutdown sends `kNbStopCycles - 1` cycles of stops, because its last pass launches none
  (`Finish` of `ActuationContract` asks for no more).
- In simulation the state `kSendStops` cycles nothing, so that the next reset cycles the position
  commands of the last session: what is said of stops is said of the run loop only. A push
  lasts over the cycles of the next reset as well (`ServeReset`).
- `bullet_extra` says "for the next step" (`upkie_base_env.py`:320), but the simulator keeps its
  forces until others on the same links replace them (`BulletForces`). With `RandomPush`,
  which names the torso in each step, this goes for extras on other links; and in the step of an
  extra that does not name the torso, or has no external forces at all, the push of the step
  before goes on, as the extra replaces the key that would have ended it
  (`TakesThePlaceOfPush` in `PushIsThatOfTheStep`).
- Limits do not stop `NaN`. Its documented use is to disable position control
  (`upkie_servos.py`:38), but `clamp_and_warn` returns it for every key, as comparisons with it
  are false (`clamp.py`:53), and the check of maximum torques in the spine
  (`Interface.cpp`:104) lets it through for the same reason. `CommandsWithinLimits` says what
  holds: a `NaN` that is sent is one that the policy or a caller has put there.
- A `spine_config` that overrides nested keys does so for every environment of the process
  (`nested_update`).
- The first observation of the pendulum after a reset has the acceleration of the last step
  before it (`Reset`).
- `configure_cpu_isolation.py` returns "already configured" without having taken the first-boot
  assistant out (`AlreadyConfigured`), although its note says that it does.
- `setup_wifi_ap.py` starts a service that a run with earlier arguments may have started
  already: the new ones wait for a reboot (`Started`), which is why `ConfiguredWhenDone` speaks
  of the next reboot. A power cut between two of its steps leaves no access point at all
  until the script is run again.

### Bounds

- `kNbStopCycles` is 5, its value in the code. `CounterModulus` stands for 2^32 and is 8:
  the counter wraps after the last comparison with `kNbStopCycles` can be made, which is
  all that its width changes.
- `MaxCalls`, the number of dictionaries agents may write, is 3 for safety and 2 for
  liveness: three are enough for a call that timed out, one after it, and a third that
  could receive the answer of either. `stop`, which writes none, is not bounded.
- `NbSubsteps` is 3 in simulation: a first, a middle and a last substep.
- `MaxObjects` is 2, so that one spine can replace another; `Retries` is 2, so that a trial can
  fail and be followed by one that succeeds or by the last one; there is one program that
  clears the name and one that does not, and two agents: one that stays connected to
  an object that is gone, and one that connects to the new one.
- `NbServos` is 2: a first and a last one, enough for one array to hold data of two cycles. Three
  numbers of passes are enough to tell positions that are older, the same and newer.
- Ground velocity: `MaxGroundVelocity` is 3, above `MaxDerivative + MaxNoise`, so that a soft
  start is not all there is; `TimeConstants` are 2 and 3 periods, on both sides of the
  limit of the filter; two resets, so that one comes after an episode; one extra, logged or
  prepended. There are two links, and `MCExtraLinks` has the extra name the one that is not
  pushed: this is the case where forces go on. An extra on the torso does to it what `RandomPush`
  does, and one that names no link does nothing.
- Servos: all limits are 1, with values of -2 and 2 to clamp. Two environments, one of which has
  a mask and the other overrides the shared configuration; one reset of each, in either order,
  on spines in either state; heights, which are drawn upward only, up to 1; one edit of a
  neutral action; two keys, one of which is `NaN` when it is neutral. `kd_scale` and
  `velocity` are not among them, so the runs say nothing of the damping that torque
  environments have from the neutral action.
- Pendulum: velocity up to 3 and acceleration up to 2, so that both clamps act in one step, with
  actions one above; a pitch of 6 is a fall, and steps go on until 12 in position or
  pitch (`MaxPosition`, `MaxPitch`), so that falls happen on both sides and steps follow them.
- Setup: two runs of the access-point script, with the same or other arguments; two servos, a
  first and a last one; the other two scripts any number of times.

Deadlock is not checked: a spine that has exited, an agent that nobody calls and a joined
thread all stop, as they should, and objects run out in `SharedMemory`. Users may stop calling
an environment, and a robot whose boot parameters were truncated does not come back.

### Fairness

`FairSpec` of `SpineSystem` assumes that the spine's loop goes on (`Spine::run` is a loop
without blocking calls on the agent) and that an agent inside a call executes its next
statement (it polls, `_wait_for_spine` has no sleep that could be lost). It does not
assume that a deadline comes: `CallsReturn` is the work of the spine and not of
`TimeoutError`. Nothing is assumed of the user, of SIGINT, of faults or of restarts.
`FairSpec` of `Pi3HatInterface` assumes that both threads are scheduled. It assumes no
spurious wake-up: those would hide a lost notification. Environments and scripts only do
what they are called for: their properties are safety, and need no fairness.

## 4. What is proved

The proofs are checked by TLAPS for every value of the constants, under the assumptions
that the modules name (`MaxCallsAssumption`, `StopCyclesAssumption`, `SpineAssumption`,
`AgentAssumption`, `SharedMemoryAssumption`, `BaseEnvAssumption`,
`GroundVelocityAssumption`, the two `ServosAssumption`, `PendulumAssumption`,
`AccessPointAssumption`, `ServoAssumption`): the bounds are numbers, the counter's modulus is
larger than the number of stop cycles, the faults, methods and wrappers are the ones listed.
TLC evaluates them in each run. TLC also checked every inductive invariant on the constants of
the runs before it was proved. All safety properties of the passing runs, invariants and
action properties, are proved, and so are the refinements of the two contracts.

`SpineSystemProofs`, first part: `Invariance` (`Spec => []IInv`), and from it `TypeCorrect` and
`BufferIsExclusive`. `ExclusiveBuffer` is not inductive: nothing in it says why the spine
could not start to read when the agent starts to write. `IInv` adds the `Handshake`: a
request stays raised while the spine serves it and is the one it is about to dispatch, and
it is down while the agent is past its wait; then the two cannot be in the buffer
together, as the spine is there only in `kReset` or `kStep`. Three parts serve the others:
`NeverBeginsMidRequest` (these two states last one pass), `LoopPosition` (counts of cycles do
not go below zero) and `CallBudget` (calls do not go past the bound). The proof has one step
per action, for both loops and every set of faults. `RequestIsTheSpines` follows from `Handshake`:
when the agent writes the request word, it is down or an error.

`SpineSystemProofs`, second part: `DataInvariance`, about what is in the buffer, and from it
`RightDictionary`, `AnswersOwnCall`, `AnswersUntilShutdown` and `ServedInOrder`. The two
processes write one buffer in turns, in two steps each (size, then bytes), and nothing in
the memory says whose dictionary it is. `DataInv` does, place by place: `requested` is the
dictionary of the call under way and `answer` that of the spine, `BufferIs` one of
them is there whole; `Handover` says which while the request is up, `OwnCall` which when the
agent reads; `Newer` orders the calls of the agent with the last one served, so that what is
left of a call that timed out is older than any later call and never its answer.
`ShuttingDown` is the exception, a call that is waiting when the spine is interrupted:
the request is cleared without an answer, and the agent reads its own dictionary back.

`SpineSystemProofs`, third part: `ProtocolImplementsCalls` (`Spec => Calls!Spec`), for both loops,
every fault and any order of methods. It needs one more invariant, `WaitsForItsOwn`: the request
that is up is that of the operation that waits, the buffer has nothing but the dictionary and
the answer of that operation, and once the request is down the call was answered or its
dictionary never served, unless the spine shuts down. `DataInv` alone does not say
what a `start` from another state than `kSendStops` finds, because its properties leave `start` out.
The proof maps each step: `AssertBeforeWrite` to `Prepare`, `WriteRequest` to `Raise`, `ReadDict` to
`Return`, deadlines, errors and deaths to `GiveUp`, `ReadData` to `Take` (also where it
throws), `WriteObservation` to `Answer`, `EndCycle` and the refusals of `Dispatch` to `Settle`,
interrupts to `ShutDown`, and all other steps to a stutter.

`ActuationProofs`, for the run loop (`~Simulating`): `StopInvariance`
(`Spec => []StopCount`), from which `NoPositionsWhileStopped` and `StopsPrecedeReset`
follow, and `RunImplementsContract` (`Spec => Contract!Spec`). `StopCount` relates the
counter of the state machine with the cycles that sent stops: `stops_cycled` is at least
`stop_cycles`, or has reached `kNbStopCycles`, and is one ahead at the end of a pass, except
in the last pass of a shutdown, which counts but does not cycle. `ShutdownStaysFinal` is for both
loops, on one condition: in `simulate`, `kNbStopCycles` must be more than one. An exception
raised by one of the cycles after `end_cycle` is an interrupt that comes after the state
machine may have reached `kOver`, and would start the shutdown again; with two stop cycles or
more, no pass of a shutdown both ends it and cycles (`OneCountPerPass`). The code has 5.

`SharedMemoryProofs`: for any number of programs, agents, trials and objects, if spines are
started one at a time then `RunningSpineKeepsItsName`, `ClearedNameIsFree` and
`ExitedSpinesLeaveNothing`. None of the three is inductive: a spine that runs could lose its
name to the `ClearUnlink` or the `Exit` of another one. `NameIsHeld` says that at most one
spine is alive, that the name is its own from `Create` on, and that a program which cleared
it finds it free when it gets to `Create`; `PlacesAgree` says which places have an object.
The assumption matters (`OneSpinePerName` fails without it), and `tracker_unlinked` in the
properties is the one way that remains to lose a name with it: the three say nothing of two
spines at once, nor of a name that a tracker has taken. `TypeCorrect` and `FreshObjects`
need no assumption: `O_EXCL` gives a new object to each spine, which nobody can have opened
(`NothingAhead`).

`Pi3HatProofs`, for any number of servos, and whether or not the CAN thread outruns the
constructor: `NeverThrows` and `CopiesLastReplies`, from `Pi3HatInvariance`. `CycleOwner` follows a
cycle from thread to thread, through `ongoing_can_cycle` and the future `actuation_output`, so that
the spine launches one only when it has been handed the last one back. `RepliesCollected`
says how far the CAN thread has filled its array with the replies of this cycle, and that all
are there from then until the spine has copied them; `RepliesCopied` says the same of the copy.
`FramesAreRecent` is about the commands, which no lock protects: `FramesInv` says that the spine
has written them all when it launches a cycle, unless a command has failed, after which modes are
stops for good (`CommandsWritten`); that it is at most one pass ahead of the cycle under way, as it
blocks on the output before it launches another (`OneBatchAhead`); what the CAN thread may read
meanwhile (`CommandsRecent`), and what the frames made so far are of (`FramesMade`). A mode
and a position are read in two steps, so neither alone is enough: positions are recent only
while some pass in sight moves the servos (`Moving`), which a `kPosition` that was read implies.

`SetupProofs`, for any arguments, runs and servos: `KeepsTheOriginal`, `Configures`,
`WholeServoConfiguration` and `BootParametersAreKept`. The invariants are along the script.
`BackupsInOrder`: a run touches only the backups of its own number, each when it gets to its
file (which needs that no operation is twice in the list), and has the original in one of
them before it truncates; `RunSoFar`: what the run has been through stays done until its
end. `CommandsSoFar`, on the division of a command's number into a round and a servo
(`NextCommand`): a run that is in the round that writes has given all parameters to all
servos. `CpuInv`: there is one line to write at most, and it has the other parameters.

`GroundVelocityProofs`: `StackStaysInActionSpace`, `LegsStayOnTheWay`, `LagNeverAsserts`,
`PushesLastOneStep`, `EpisodesStartSoftly` and `ExtrasAreSentOnce`, for any wrappers, bounds,
noise and time constants. Lemma `Stack` follows an action down: the low-pass filter stays
between its last output and its input (`LowPass`), and the others clip, so each wrapper
hands the next a velocity of the action space, if the integral and the filtered action
were in it (`WrapperTypes`). `SoftStart` needs more, that both are zero when a reset has returned
(`AtRest`), and lemma `StackFromRest` bounds what a stack at rest passes on.
`ExtrasAsAsked` says that the extras are what the user asked for, at all times. `ForcesAgree` says
that the simulator has the forces of the merged dictionary on the links that this names;
`ForcesStep` and `PushStep` say what a step makes of them, for any links that the
extras name: a stack with `RandomPush` has a force to send to the torso in each step that no
extra takes the place of.

`ServosProofs`: `CommandsAreWithinLimits`, `TorqueEnvsCommandNoPosition`, `ResetsAreServed` and
`SessionsStartAsDrawn`, for any environments in one process, joints and keys. `NeutralTypes` says
that neutral actions hold numbers and `NaN`, like the actions of policies (`PolicyValues`), so that
all values are clamped alike (`Clamped`), and a `NaN` that is sent was in one of the two
(`Sources`); neutral positions are `NaN` until they are edited (`TorqueOnly`). A reset
stops the spine before it draws and starts: its start is served, with what was drawn
(`ResetServes`); `SessionTypes` gives the shared dictionary its fields.

`PendulumProofs`: `ObservationsAreCurrent`, `GroundIsFiltered` and `ImuFollowsOdometry`, for any
bounds, uncertainty and fall pitch. The two clamps are the bounded filter only if the velocity
is within its bounds already (`TwoClamps`), which is what `Bounded` keeps; `Current` says
that the dictionary of the spine is that of the state unless a call has raised.

### What is only model-checked

Liveness, which is out of the prover's reach: `CallsReturn`, `RequestsAreAnswered` and
`InterruptExits` of `SpineSystem`, `LaunchedCyclesComplete` and `DestructorReturnsIfWaiting` of
`Pi3HatInterface`. `StopCount` and the actuation contract do not hold in simulation, where `kSendStops`
cycles nothing, and are proved and checked for the run loop.

## 5. What is not modelled

- The contents of dictionaries and their serialization: kinds and calls are told apart,
  values are not, but for the keys that environments and simulator are about.
- Observations, but for those of the pendulum: environments compute them from the answer of
  the spine alone. With them, the observation wrappers and rewards; one of these has a
  state, the last action in `AddActionToObservation`, which a reset does not clear.
- Weak memory: accesses of a process to the shared memory take effect in order. The
  request word is the last thing written by both sides. So do those of the two threads; were
  the mode and the position of a command seen in another order, `SendsRecentCommands` would
  say the same, as it relates neither to the other's pass.
- What a power cut does to files that are not synced. In `AccessPointSetup` each write is durable
  at once and in order; `setup_wifi_ap.py` does not sync a backup (line 131 or 151) before it
  truncates the original (line 155), so a file system that reorders them may lose both.
  `OriginalIsKept` and `ConfiguredWhenDone` assume that it does not. The suffix of backups
  is a time in seconds (line 30), and is taken to be another one in each run: on a clock that
  repeats itself after a reboot, a run may overwrite the backups of an earlier one.
- Time: the deadline of a call may come at any moment of its wait. `SynchronousClock` counts
  overruns in real time, which no other model has.
- Two agents that call at once, which nothing in the code prevents or supports. (In
  `SharedMemory` two agents may be connected, and their requests are a flag.)
- The permissions of the object and failures of its opening other than those of a name that
  exists or does not.
- Floating-point computations: physics, observers' filters, IMU rotations, the nonlinear
  dynamics of the pendulum. Filters and clamps are on integers.
- The observer pipeline, the sensors and the contacts of Bullet: what they do is in the contents of
  observations, and their sources (a joystick's queue, the physics engine) are outside of the
  repository. Known hazards there: observers that follow one that failed keep older
  outputs; a joystick event that is queued while the spine stops reaches the next session; a
  reset registers contacts again without forgetting the previous ones; `imu_data_` is
  written by the CAN thread while the spine thread reads it.
- The moteus protocol (reading and writing of frames, byte by byte), the robot model (a
  parser without a state), examples, packaging, and tools other than `tools/setup`.
- In the setup scripts, `set_config_var`, which nothing calls; how lines of files are
  edited: a file is what its script makes of it, or not.

## 6. Plan

What is left, in order:

1. `SynchronousClock` on integers, `ObserverPipeline` under the passes of `Spine`, `MoteusProtocol`
   on bounded inputs.
