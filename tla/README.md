# Formal models of the vacuum cleaner

TLA+ models of the robot's control software: what is modelled, what TLC checks
on small instances, what TLAPS proves for every value of the constants, and
where the program and its documents disagree. Paths are relative to the
repository's `src/` directory.

## The system

The robot consists of four programs and an app:

```
 Android app --TCP--> core (Python, Raspberry Pi) --UART--> A1 (Arduino) --I2C--> power controller
                      main, Wi-Fi, Bluetooth,               wheels, motors,       button, relay,
                      reader and algorithm threads          sensors, LEDs         charger
```

| Part | State it keeps | Operations | Talks to |
| --- | --- | --- | --- |
| **AlgorithmManager** `motherboard/core/algo` | `ExecutionState` (state, pause reason), working thread, selected algorithm | `start`, `pause`, `resume`, `stop`, `set_algorithm`; an algorithm thread with `loop`, `on_prepare`, `on_pause`, `on_resume`, `on_finish` | called by the Wi-Fi thread and by the core loop; its threads drive A1 |
| **Core** `motherboard/core/core.py` | `_operation_shut_down`, the services | initialisation; the loop (shutdown, lid, dust box, Bluetooth button); shutdown; reboot | all others |
| **A1 communicator** `motherboard/core/a1` | id counter, list of responses, sensor data | `send_instruction`, `Job.expect`, the reader thread | A1, by lines over the UART |
| **A1 firmware** `motherboard/a1` | wheels, motors, buzzer with their request ids, power state, turn-off timer | one line is one instruction; timer interrupt; ticks | the core; the power controller over I2C |
| **Power controller** `power-controller` | status, relay, error, charging | button, I2C commands | cuts or gives power to everything else |
| **Request service** `motherboard/core/utils/request_handler`, `wifi` | connection, queue of requests | accept, read, serve one request at a time, answer | the app; calls the endpoints |
| **Wi-Fi endpoints** `motherboard/core/wifi/endpoints` | none of their own | cleaning, algorithms, movement, motors, PID, power, information | AlgorithmManager, A1, Core |
| **Bluetooth service** `motherboard/core/blservice` | thread, pairing flag, events | start, stop, pair, serve | the core loop through a set of events |
| **Configuration** `motherboard/core/utils/config.py`, arguments of `algo_manager.py` | one file, and one per algorithm | read, write in place | endpoints, core |
| **Android app** `android-app` | connection, awaited responses, view models | send, await with a timeout, broadcast | the request service |

What is hard here: three kinds of threads of the core share the
`ExecutionState`, the UART and the list of responses without locks; A1's single
slots for a request id are overwritten by the next request; the board's `loop()`
and its I2C interrupt write one status; the power is cut by a timer that knows
nothing of the operating system it cuts off, possibly in the middle of a file;
what was saved reaches the card when the operating system likes; some waits have
no timeout; and reader threads and queued requests outlive the connection they belong to.
Every hazard found is listed
with its line in `PROJECT.json`.

What makes the parts correct:

- *AlgorithmManager*: one thread drives the robot; idle means no thread; a stop
  that succeeded means a robot at rest; a paused robot is quiet; an open lid
  brings the robot to rest; every stop is answered.
- *Power*: only a long press cuts the power of a core, or of its operating
  system, that is not done; each shutdown ends with the power off; the status and the error the board shows are true.
- *A1 and communicator*: each executed instruction is answered once, the answer
  reaches the job that asked, and "done" means done.
- *Request service*: requests are served in order, an answer goes to the client
  that asked while it is there, no client that stays is left or kept waiting,
  and one that closes is left.
- *Settings*: a file is torn only by a power cut, what the app was told is saved
  stays saved (over a cut once it is on the card), and it is what the robot uses.
- *Bluetooth*: no round of the core loop gets stuck in a join or waits for a
  device, no latched press and no error is lost.

## Modules

| Module | Models | Kind |
| --- | --- | --- |
| `CleaningLifecycle` | what the manager promises the app | abstract specification |
| `AlgorithmManager` | manager, core loop, algorithm threads, start/pause/resume/stop requests | detailed specification, refines `CleaningLifecycle` |
| `MCAlgorithmManager` | symmetry of the threads | instances for TLC |
| `AlgorithmManagerProofs` | who drives, and when | proofs |
| `LifecycleProofs` | where the robot is at rest, and the refinement | proofs, extends `AlgorithmManagerProofs` |
| `PowerController` | the board: button, relay, status, I2C commands | component (no `Next` of its own: its environment is `PowerChain`) |
| `PowerChain` | board, A1's power part, the core's life from boot to power cut | composition, extends `PowerController` |
| `PowerLifecycle` | what the power controller promises: press, boot, shutdown, power cut | abstract specification, implemented by `PowerChain` |
| `MCPowerChain` | a calm and a rough world | instances for TLC |
| `PowerChainProofs` | | proofs |
| `A1Jobs` | communicator, UART, A1's instruction handler, wheels and motors | composition of the two ends of the UART |
| `RemoteCalls` | what a thread may rely on when it has A1 execute something | abstract specification, implemented by `A1Jobs` |
| `A1JobsProofs` | | proofs |
| `RequestService` | clients, service thread, a reader thread per connection | detailed specification |
| `RequestServiceProofs` | | proofs |
| `Settings` | the files in memory and on the card, the core's initialisation, the requests that save, power cuts and boots | detailed specification |
| `MCSettings` | what the files hold before the first life | instances for TLC |
| `SettingsProofs` | when files are torn, and what the robot uses of them | proofs |
| `SettingsKeptProofs` | what the files keep, and why the initialisation fails | proofs, extends `SettingsProofs` |
| `BluetoothService` | button, core loop, LED, service thread, pairing thread | composition of the three threads |
| `BluetoothProofs` | | proofs |

Definitions keep the names of the code where they can; `PROJECT.json` maps each
one to its lines. A definition preceded by "Slip:" is the same step with a
plausible mistake. None is part of a specification: it is put in the place of
the step below it to see that the properties notice.

### AlgorithmManager

A step is what a thread does between two accesses to shared state, so `pause()`
is three steps (test, reason, state), `stop()` is five. `pc` holds the place of
each thread: `main` is the core loop, `wifi` the thread that serves the app, and
each element of `Thread` an object that `start()` may create. An algorithm
thread's labels are the handlers of `Simple` (`prepare`, `walk`, `backing`, ...)
and the tests of `_algorithm_loop`; a handler's A1 jobs are one step (`JobDone`)
that brings wheels and motors where the handler wants them, or an exception
(`JobRaises`). Each turn of the inner loop looks at the bumpers and then at the
cliffs (`bumpers`, `cliffs`; `WayIsClear`, `Obstacle`): the cliffs also after a
bumper was left because of a break event. `Smart` has empty handlers: only control moves.

Simplifications, each of which allows what the code does: the loop's test of the
shutdown flag is read together with the state; the sensors, which only main
reads, are read together; the two reads of `stop()` are one. Speeds, parameters,
execution history and voices are left out. `ProcessUp` states the interpreter's
rule that a process ends when the main thread and all non-daemon threads have
(the Wi-Fi thread is a daemon, an algorithm thread is not). With `EarlyClients`
a client is served while the core is still initialising, which is possible
because `core.py:110` starts the service before `core.py:113` sets the
algorithm.

`Lifecycle` maps the manager onto `CleaningLifecycle`: the execution state is
the phase, the robot is active unless it stands with its motors off, and the
lifecycle is overruled from the moment the core loop has seen the lid open or
the dust box out. Until then the phases follow each other and every stop ends
idle; an idle robot is at rest even afterwards.

### PowerController and PowerChain

`loop()` is three steps (`ReadButton`, `WriteStatus`, `SetRelay`) between which
the interrupt's `OnReceive` may come. The chain adds A1's copy of the status,
its timer, and the core from boot to halt. Time is reduced to the facts listed
at the head of `PowerChain`: seconds outlast a round of an Arduino's loop
(`BoardSettled`), with `slowBoot` the 15 seconds of the timer end before the
system has booted again, and with `slowHalt` they may end before it has gone
down. `pressAtCut` allows a button released in the very
round of `loop()` that cuts the power, `a1Faults` lets any job fail. These
circumstances are a constant set of *worlds*, of which a behaviour lives in one:
the properties that need a calm one say so (`Calm`). A calm world has no dying
core loop at all, whether for A1 or for one of the reasons that are in the other
modules (`core.py:148`, `core.py:166`). How the core's process is started at boot
is outside the repository: it is assumed that it is.

A core loop that fails sets the error, and takes its process along only if no
algorithm or pairing thread is alive: they are no daemons. Else the process is
`"lingering"`, and its Wi-Fi thread serves on, reboots included (`AskReboot`,
`OsReboot`), so that the system may go down and come up with the error still
shown. `"hung"` is the initialisation that waits for ever for the answer to its
beep (`BeepHangs`).

`Power` maps the chain onto `PowerLifecycle`: the board's status is the phase; a
press that `loop()` has read and not yet written is the button (`Button`); the
core's process (`Process`) is starting until it tells A1 that it is initialised,
and over when the operating system has gone down (`OsHalts`, not the command
`shutdown`) with the timer running, even if it boots once more before the power
is cut. A1's copy of the status, its timer and
the core's way through the shutdown are hidden. A world that is not calm is
`disturbed`, and there nothing but the ranges is promised.

### A1Jobs

A request is represented by its place in `log`, the lines written to the UART;
what the program compares is `log[r].id`. The lines keep their order both ways:
`taken` and `arrived` count what the other side has read. `Lose` drops a line
(garbled, cut off by the reading timeout, or answered by an error code without
an id). `Send` counts the id and `Write` reads it once more, as `_generate_uid`
does; `Find` and `Pop` are the comparison and the `pop(index)` of
`Job.response`. Timeouts may run out at any moment, moves and turns have none.
With `Switches` a thread switch may fall into `_generate_uid` or between `Find`
and `Pop`; `write_line` itself is atomic. A1's steps come in any order because
the timer interrupt that drives the wheels may fall anywhere in its loop.
`Instructions` says which thread sends what, and which of its jobs it expects.
Distances, speeds and the PID regulator are left out, and the buzzer, which
keeps one request id the way a motor does.

`Calls` maps the jobs onto `RemoteCalls`: a line written is a call made, a line
taken or lost is a call that is through, and an outcome is what its caller was
told. Ids, the list of responses, the reader thread, wheels and motors are
hidden, and so is which thread expects a job.

### RequestService

A request is its place in `log`, the lines the clients sent. `wire` is what is
on its way in each socket, `queue` the service's `Queue`, and `closed` the one
flag `is_connection_closed` that all connections share. `StartHandling` clears
the flag and starts the connection's reader thread; `Leave`, `Take` and
`Perform` are the loop of `_keep_handling_incoming_requests`. A reader thread looks at the flag
(`Check`), reads from the communicator's connection *of that moment*
(`on[k]`), and puts what it has read (`Put`) even when the client has gone since.
Reader threads and the queue outlive their connection: one that looks at the
flag only after the next connection has cleared it reads from the next client
(`Strayed`). A client may close in order (what it sent still arrives), reset
(what was on its way is gone), or go in the middle of a line (`ReadFails`). Two ends that
the code has and the properties name: the reader dies on a line that does not
parse (`Died`), and a send that fails ends the service thread (`"failed"`). Or it
may be lost (`Vanish`): then the core learns of it only when the kernel gives up
an answer that nobody acknowledges (`GivenUp`), and without an answer never.
Of an endpoint only the kind of its answer counts.

### Settings

`files` holds what each file is: absent, torn (it does not parse), outdated (an
older version's arguments), or its content. Every save of the code opens with
mode `w` and then dumps, so it is `Truncate` and `Fill`; two threads at one file
may leave a mixture. `files` is what the programs of the running system see,
`card` what has come to the SD card: nobody calls `fsync`, so the system writes a
file back when it likes (`Sync`). `main` runs the core's initialisation (`GetPid`,
`SendPid`, `GetSelected`, `SetAlgorithm`, `Load`, ...) and `wifi` the requests, in
the same actions where they run the same functions.

`Boot` begins a life of the process. It ends with its main thread (`Exit`) or with
the system's going down (`Halt`), which keep the files and write them back, or
with the power (`PowerCut`), which leaves what the card has. A torn file raises in
the thread that reads it: the initialisation fails for ever, or the app is
answered an error. A1 parses some values as PID settings (`Accepted`) and refuses
others: those of five or more characters, as 0.125. The request saves such a value
and answers without waiting for A1's refusal, the initialisation waits, and fails.

`may` is a history variable: what the files may hold by the requests so far; a
request adds its values when it arrives and makes them the only ones when it is
answered. A power cut takes it back, for each file that was not written back yet,
to what the card has.

### BluetoothService

The button's latch (`Report`, `TakePress`, `ReadAgain`: the property of
`models.py:173-177` reads it twice and may return a press without clearing it),
the loop's two tests, `enable_pairing` with its join, and one event per round
(`Pop`, `Show`). The events are a set, so that they keep neither order nor
repetitions. The service's thread ends on any exception after emitting `error`
(`Raise`, `EmitError`), and `Thread.start` on an ended thread raises, which ends
the core loop (`StartAnd`), as does a job of the LED that fails (`LedFails`). The pairing thread clears the flag before it emits
its event and ends. What the service does with a client is in `RequestService`.

## Runs

| Run | Asks | Bounds, and why they are enough |
| --- | --- | --- |
| `manager_safety` (552,000 states) | `TypeOK`, `OneDriver`, `StoppedIsAtRest`, `ParkedIsQuiet`, `StopUndoneOnlyByCoreLoop` | two threads (an ended one stands for a new one), every command, one sensor, A1 faults, early clients. One algorithm: with two, an initialisation overtaken by an early client replaces the algorithm of a running thread, and `ParkedIsQuiet` and `StoppedIsAtRest` then fail |
| `manager_promises` (163,000) | `ImplementsLifecycle`, `AlgorithmKept`, `OpenStopsRobot`, `ClosedResumes` | one thread, both algorithms, both sensors, every request but the shutdown, no faults: each of these ends what is promised |
| `stop_lost` | *violated:* every stop is answered | one thread, the lid |
| `shutdown_moves` | *violated:* nothing moves at shutdown | one thread |
| `power` (19,900) | `TypeOK`, `ShownIsTrue`, `ShutdownUnderWay`, `ImplementsPower`, `BootIsAcknowledged`, `ShutdownEndsOff` | the calm world and the one where everything is allowed. `ShutdownUnderWay`, `ImplementsPower` and `ShutdownEndsOff` are about the first: with reboots or faults none of them holds (`power_stale`; a dead core never arms the timer) |
| `power_stale` | *violated:* a running core keeps its power | the reboot request |
| `a1_jobs` (672,000) | `TypeOK`, `AnsweredOnce`, `DoneMeansRest`, `ImplementsCalls`, `MoveEnds` | three threads, one motor, three lines: two requests that disturb each other and a third that takes what was left; the third id has a fifth digit; faults |
| `a1_preempted` | *violated:* every executed instruction is answered | two lines |
| `request_service` (672,000) | `TypeOK`, `InOrder`, `AnswerHome`, `NothingLost`, `LeavesOnlyClosed`, `Released`, `Answered` | two connections and three lines: a request left in the queue, its reader still running, and what the next client sends. Endpoints that raise answer as unknown ones do, so one of the two kinds is enough |
| `settings` (995,000) | `TypeOK`, `TornOnlyByCrash`, `SettingsKept`, `A1InStep`, `AppliedIsSaved`, `DiesOnlyOfTorn`, `ComesUp` | both algorithms, three values of everything, of which A1 refuses one, files as of an old or a used robot, two requests of which one may be early, any number of write-backs, power cuts and boots: a request, a cut in the middle of it or before it is on the card, and one that meets what it left |
| `bluetooth` (464,000) | `TypeOK`, `RoundsEnd`, `JoinIsShort`, `LedShowsLast`, `PressHeeded`, `ErrorShown` | none: presses, clients, failures and pairings without limit |
| `pairing_again` | *violated:* a long press offers pairing | |

The deadlock test is off because the systems stop: the app may send nothing
more, a powered-off robot waits for its button, `MaxRequests` ends the sending,
and a core loop that has failed does nothing. `PowerChain`, `AlgorithmManager`
and `BluetoothService` have no bounds on their length: TLC explores every
reachable state. `A1Jobs` is bounded by `MaxRequests` lines, `RequestService` by
`MaxConnections` and `MaxRequests`, `Settings` by `MaxRequests`.

Fairness is weak fairness throughout:

- threads of the core: the interpreter switches every few milliseconds, so a
  thread that can step does. What users, clients, the app, the sensors and
  faults do is never forced, nor is a timeout's exception before the answer.
- both Arduinos repeat `loop()` for ever; the UART transmits; a wheel that is
  driven reaches its distance; A1 answers a job (`JobDone`) where faults are off.
- an operating system told to go down or come up does.
- handlers of requests return, and three minutes of pairing are over some time.

### What the runs found

1. **A stop can be lost** (`stop_lost`): the core loop tests the state, the
   Wi-Fi thread writes `STOPPED`, the core loop writes `PAUSED` or `RUNNING`
   over it (`algo_manager.py:163-170`). `join()` then never returns and the app
   is not served again. `StopUndoneOnlyByCoreLoop`, checked and proved, says
   that this is the only way to lose it.
2. **The robot may move when the operating system goes down**
   (`shutdown_moves`): `_shut_down_core` stops neither the wheels nor the
   algorithm thread.
3. **A timer never cleared** (`power_stale`): after a shutdown overtaken by a
   reboot request, the next press cuts the power under a running core.
4. **A preempted move is never answered** (`a1_preempted`): A1 keeps one request
   id for the wheels; the job has no timeout and its thread waits for ever.
5. **Pairing works once** (`pairing_again`): the second long press joins the
   thread of the first and starts none, but has set the flag that makes the core
   loop ignore every later one.

Facts of the code that the models show and that bound what the properties say:

- *Core loop:* the app's pause or stop, served between the core loop's test of
  the state and its call of `pause()`, makes the call raise, which ends the core loop
  (`core.py:148`); `OpenStopsRobot` and `ClosedResumes` exempt it.
- *Power:* the cut does not wait for the operating system, as `README.md:32` and
  `power-controller/README.md:2` ("Once it is done") say it does: a 15 second timer
  runs, and a system that takes longer is cut in the middle (`slowHalt`);
  `ImplementsPower` and `CutAfterCalmShutdown` hold because a calm world has none.
- *A1:* with `Switches` two requests may share an id and one thread may pop
  another's response (`OwnResponse` is then violated); after 65536 instructions
  responses nobody expected may match again.
- *Request service:* a reader that dies on a garbled line leaves the flag
  `False`, and the service serves a client that is gone until the process ends,
  against `handler.py:40`; without the exemption of `Died`, `Released` is
  violated, and without that of `Strayed`, `InOrder` and `LeavesOnlyClosed`;
  `NothingLost` needs both. A send that fails ends the service. A client
  that is lost without a word keeps the service for ever, though `handler.py:40`
  says "If connection is lost/closed, the function is released": nothing in
  `comunicator.py` sets a timeout or keepalive. With `link[connection] \in
  {"closed", "lost"}` in it, `Released` is violated.
- *Settings:* a file torn by a power cut is never repaired: the core fails at
  every boot. So it does, without any fault, once the app has saved PID values
  that A1 refuses (`pid.py:45-50`, `core.py:119`), for which it was answered ok;
  `DiesOnlyOfTorn` says that nothing else in the files, but a request served too
  early, makes it fail. What was saved and answered may be lost, or torn, by a
  power cut before it is on the card (`config.py:67` and `algo_manager.py:324` do
  not `fsync`). An initialisation whose beep is not answered waits for ever
  (`robot.py:152`). A request during the initialisation may be undone by it, or
  tear a file. `set-algorithm` during a cleaning is refused after it has saved.
- *Bluetooth:* a press after the service's thread has ended kills the core loop,
  and so does a failed job of the LED; a failed pairing leaves the flag set. A press
  made while another one is latched is dropped (`models.py:229`): `PressHeeded` is
  about those that were latched.

## Proofs

All from the named assumptions on the constants in the modules
(`ConstantsAssumption`, `ChainAssumption`, `JobsAssumption`,
`ServiceAssumption`, `SettingsAssumption`, `SavedAssumption`), which only say
what the constants range over.

**AlgorithmManagerProofs** (`IInv == TypeOK /\ ThreadInv /\ RequestInv`).
`OneDriver` is not inductive: that `start()` makes no second thread depends on
what the Wi-Fi thread knows between its steps. `ThreadInv` records it: a living
thread is the working thread and the state is not idle; at `startRunning` and
`startThread` there is no working thread; at `clearThread` the working thread
has ended. The core loop cannot disturb this since it writes neither
`_working_thread` nor `IDLE`. Proved: `TypeCorrect`, `Exclusion` (`OneDriver`),
`StoppedIsClosed` (the half of
`StoppedIsAtRest` about the thread), and the action properties
`RunningAlgorithmIsKept` (`AlgorithmKept`) and `OnlyCoreLoopUndoesStop`
(`StopUndoneOnlyByCoreLoop`).

**LifecycleProofs** (`RobotInv`, `TestedInv`, over the `IInv` above). What the
robot does depends on the algorithm its thread runs: `AlgorithmInv` says that
the empty `Smart` never gets to a driving label, `RestInv` that without a living
or crashed thread the robot is at rest. Under `Steady` (Smart is not registered,
or there are neither early clients nor faults) follow `ParkedRobotIsQuiet`
(`ParkedIsQuiet`) and `StoppedRobotRests` (`StoppedIsAtRest`). For the
refinement `TestedInv` records what each writer of the state has tested: until
the core loop has seen something open, what the Wi-Fi thread tested still holds
when it writes. `ManagerImplementsLifecycle`, without early clients and faults:
every behaviour of the manager satisfies `Init` and `[][Next]_vars` of
`CleaningLifecycle` under the mapping.

**PowerChainProofs** (`IInv == Types /\ PowerBacksStatus /\ WriteInv /\
ErrorInv`). The interrupt may write the status between `loop()`'s test and its
write; `WriteInv` says that a `SHUTTING_DOWN` about to be written still has its
relay closed, `ErrorInv` that an error lives only with the power, and belongs to a
core loop that has failed: what runs since is what is left of its process, or a
system that comes up and takes the error back before its loop starts. `CalmInv`: in a calm world an armed timer means that the core
is on its way down. `StuckInv`, on top of it, says what the board shows at each
place of the core (`ShownInv`): the button may shut down only a core that has
said it is up, and what `loop()` decided is written before the core's `sleep(5)`
is over, so that A1 has read `SHUTTING_DOWN` when the core asks for the timer.
`LateInv`: a shutdown that `loop()` has decided is written while the robot is still
on, or already shutting down. Proved: `TypeCorrect`, `BoardShowsTruth`
(`ShownIsTrue`), `CalmCutWaits` (`CutAfterCalmShutdown`: only a long press cuts the
power of a running core in a calm world), `NoShutdownStuck` (`ShutdownUnderWay`,
the safety half of `ShutdownEndsOff`), and `ChainImplementsPower`
(`ImplementsPower`): every behaviour of the chain is one of `PowerLifecycle`. Its
proof takes the steps one by one: those of the board are a press, what the press
asks for, and the relay; A1's only visible step is the cut; of the core's, coming
up, asking for the shutdown and its end are visible. The invariants are what maps
them: `ShownInv` that a press switches on only a robot without power, `CalmInv`
that A1 cuts only the power of a process and a system that are done.

**A1JobsProofs** (`IInv == TypeOK /\ FoundInv /\ A1Inv /\ OutcomeInv`).
`DoneMeansRest` needs to know whose answer the wheels owe: `WheelsInv` (a noted
move is executed and unanswered; wheels that move without one only walk),
`LastInv` (while the wheels move, an unpreempted move is the noted one),
`MotorsInv` (the same for motors) and `OutcomeInv` (what the core holds was
answered). A finished, unpreempted move was answered, so it is not the noted
one, so the wheels do not move. Proved: `TypeCorrect`, `NoAnswerTwice`
(`AnsweredOnce`), `FinishedMoveRests` (`DoneMeansRest`): for any number of
requests, after ids have come round, with thread switches anywhere and lines
lost, since A1 owes these to none of the core's comparisons. The core owes
`OwnResponse` to its ids: `JobsTakeTheirOwn` proves it for any threads and any
number of lines up to the number of ids, without `Switches` (with them, or once
the ids have come round, it is false). `IdsInv`: a line's id is its number,
since one thread at a time counts and writes; `PopsInv`: one thread at a time
pops, and what it found is still at its place. `JobsImplementCalls`
(`ImplementsCalls`) needs no such assumption: every behaviour of the jobs is one
of `RemoteCalls`, in which the own answer is promised only if `Dependable`.
What maps the steps: `IInv` for A1's (a late answer is to a request executed and
not answered), `KeptInv` (`OwnInv`, if dependable) and `PendingInv` for the
core's (a job that is going to be expected was not done yet, and is expected by
one thread, once).

**RequestServiceProofs** (`ServiceInv == TypeOK /\ ReadersInv /\ LeftInv /\
RequestsInv /\ AnswerHome`). `ReadersInv`: reader threads read from their own
connection or a later one, and one that is closing has seen its client gone.
`LeftInv`: unless one has strayed, each client before the present one is gone
and its thread has told so; so the flag, when it is set, speaks of the present
client. `RequestsInv`: what is queued comes from a client accepted by now and
parses. A client that is lost needs nothing new: to the service it is one that is
still there. Proved, for any number of connections and requests:
`ServiceTypeCorrect`, `AnswersGoHome` (`AnswerHome`), `ServiceLeavesOnlyClosed`
(`LeavesOnlyClosed`), and three more that each need more:

- `ServedInOrder` (`InOrder`), from `OrderInv`. That the answers are in order
  says nothing about the next one: what a reader holds is younger than what is
  queued, which is younger than what is performed and served (`StagesInv`), and
  what is on the wire is in order and younger than all that was taken from it
  (`WireInv`). A stray reader breaks it, so all of it is under `~Strayed`.
- `ServiceLosesNothing` (`NothingLost`), from `SentInv` (only who has connected
  has sent) and one lemma per thread, `Flow`: a step leaves a request where it
  is, moves it on, or drops it with its client gone.
- `ServiceWatched`: while the service is at a connection, the flag is set or the
  reader thread is there that will set it, unless it died, for only
  `StartHandling` takes the flag back, and it starts that thread (`WatchInv`).

**SettingsProofs** (`SafeInv == LifeTypeOK /\ JobInv /\ TurnsInv /\
TornOnlyByCrash`, `UsedInv == KindInv /\ PidInv /\ AppliedInv`). Without an early
request only one thread is at the files (`TurnsInv`), so a file is torn only
between its truncation and its filling. The card matters only to `PowerCut`: that
it holds what a file may hold (`CardTypeOK`) is a lemma of its own, for every step
but that one leaves it alone or copies a file. The second invariant speaks of `Disk`,
what a file will hold when the save in progress is done, and says at each label
what the thread's job, the files, the algorithm and A1 have in common, where A1
has the saved settings or refuses them (`Follows`). Proved,
for any algorithms, values, requests and power cuts: `SettingsTypeCorrect`,
`TornFilesExplained` (`TornOnlyByCrash`), `SavedPidInStep` (`A1InStep`),
`SavedAlgorithmApplied` (`AppliedIsSaved`).

**SettingsKeptProofs** (`KeptInv == early \/ MayInv /\ FilesKept /\ SavesKept /\
JobsKept`, over the two above). `SettingsKept` speaks of files at rest; between
a truncation and its filling the content is in a thread, which read it from the
file, took it from the request, or made it up as the default. So
`SavesKept` says that whatever is about to be written was promised, `JobsKept`
that a request's own values are (and at its answer are in the files, which is
when they become the only ones), and `MayInv` that the default is promised
wherever something may be missing, because the initialisation writes it there.
That a power cut keeps all this is `CutKept`: what is promised goes back with the
file. Proved: `SettingsPromised` (the invariant), `SettingsAreKept` (`SettingsKept`).
`OnlyTornIsFatal` (`DiesOnlyOfTorn`, from `FatalInv`) needs besides that no
cleaning is going on when the initialisation selects the algorithm (`WorkInv`),
which would refuse it, and that the settings A1 has refused are still those in the
file when the initialisation is dead (`PidRefused`).

**BluetoothProofs** (`BluetoothInv == TypeOK /\ PairingInv /\ LedInv`). The module has no constants and the run visits every state; the
proofs say why. `PairingInv`: the flag is cleared only at the end of a pairing,
so whoever finds it clear joins a thread that has only its last steps to do.
`LedInv`: an event emitted into the empty set is the only one until it is shown.
Proved: `BluetoothTypeCorrect`, `JoinNeverWaits`, `LedCorrect`.

Every invariant and every action property of the passing runs is proved, some of
them under the conditions named above, which the run that checks them meets.
Only model-checked is liveness, which the prover does not handle:
`OpenStopsRobot`, `ClosedResumes`, the lifecycle's promise that a stop ends idle
(the rest of `ImplementsLifecycle` is proved), `ShutdownEndsOff`,
`BootIsAcknowledged`, `MoveEnds`, `Released`, `Answered`, `ComesUp`, `RoundsEnd`,
`PressHeeded` and `ErrorShown`. For some of them a theorem proves what they rest
on: `NoShutdownStuck` for `ShutdownEndsOff` (a shutdown that is shown is on its
way), `JoinNeverWaits` for `RoundsEnd`, `ServiceWatched` for `Released` (somebody is there to set the flag),
`ServiceLosesNothing` for `Answered` (the request is still somewhere). That the
threads, scheduled fairly, then get there is what TLC checks. The properties of
the other five runs are violated: there the result is the counterexample.

## Not modelled

- *Android app:* the environment of `RequestService`, whose clients connect,
  send, close, reset and vanish whenever they like. Its own state (awaited responses, a
  timeout of 5 seconds, view models) is on another machine and changes nothing
  on the robot but by the requests it sends; its layout and navigation even less.
- *Drivers* of clock, display, temperature, range finders, buttons and LEDs:
  device input and output; battery and charging, which are only displayed.
- *The buzzer* (a slot for a request id as a motor's; that its answer may never
  come is in `PowerChain` and `Settings`), *speeds and the PID
  regulator* (numbers on which no property of the documents depends), the
  *history of executions* (a TODO in the code), *voices and
  logs*, the *scheduler*, which refreshes the Wi-Fi LED, and the *parameters'
  schema* of an algorithm beyond whether its file fits.
- *Remote Python console, circuit boards:* no part of the running robot.

What could be added next: the buzzer in `A1Jobs`; the app's `RequestHandler` as
a client of `RequestService`, for what it takes a late answer for.
