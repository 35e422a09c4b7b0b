-------------------------- MODULE AlgorithmManager --------------------------
(***************************************************************************)
(* Who may drive the robot, and when: the AlgorithmManager of the core     *)
(* (motherboard/core/algo/algo_manager.py) with the three kinds of thread  *)
(* that share its ExecutionState without a lock:                           *)
(*   "main"   the core loop (core.py): pauses when the lid is opened or    *)
(*            the dust box is taken out, resumes, and shuts the robot down *)
(*   "wifi"   the Wi-Fi service: serves the app's requests one at a time   *)
(*   Thread   the algorithm threads that start() creates                   *)
(* A step is what a thread does between two accesses to shared state.      *)
(***************************************************************************)
EXTENDS FiniteSets

CONSTANTS
  Thread,        \* the Thread objects start() may create
  Algorithms,    \* registered algorithms the app may select
  Commands,      \* requests the app sends
  Sensors,       \* which of {"lid", "dustBox"} the user may open and close
  A1Faults,      \* may an A1 job be refused or time out (an exception)?
  EarlyClients   \* may the app be served before the core is initialised?

None == "none"
Manual == "_manual_pause_"

\* Lid closed, dust box in: what the sensors must report for the robot to clean.
AllClosed == {"lid", "dustBox"}
AllCommands == {"start", "pause", "resume", "stop", "setAlgorithm", "shutdown"}

ASSUME ConstantsAssumption ==
  /\ Thread \cap {"main", "wifi", None} = {}
  /\ Algorithms \subseteq {"simple", "smart"} /\ Algorithms # {}
  /\ Commands \subseteq AllCommands
  /\ Sensors \subseteq AllClosed
  /\ A1Faults \in BOOLEAN
  /\ EarlyClients \in BOOLEAN

VARIABLES
  state,         \* ExecutionState._state
  pauseReason,   \* ExecutionState._pause_reason
  workingThread, \* AlgorithmManager._working_thread
  algorithm,     \* AlgorithmManager._algorithm
  pc,            \* where each thread is
  detected,      \* the pause reason the core loop is about to give
  fine,          \* the sensors whose state allows cleaning (lid closed, box in)
  shutdownAsked, \* Core._operation_shut_down, or the button's power state
  request,       \* the app's last request
  reply,         \* what it was answered: None while it is being served
  wheels,        \* "still" or "moving", as last commanded to A1
  motors         \* brushes and vacuum: "off", "idling" (paused), "cleaning"

manager == <<state, pauseReason, workingThread, algorithm>>
app == <<request, reply>>
robot == <<wheels, motors>>
vars == <<manager, pc, detected, fine, shutdownAsked, app, robot>>

State == {"IDLE", "RUNNING", "PAUSED", "STOPPED"}
Callers == {"main", "wifi"}

SharedLabel == {"pauseCheck", "setReason", "setPaused", "resumeCheck", "setRunning"}
MainLabel == SharedLabel \cup
  {"boot", "bootAssign", "loop", "elif", "disableMotors", "armCut", "osShutdown",
   "finished", "dead", "halted"}
WifiLabel == SharedLabel \cup
  {"ready", "startCheck", "startRunning", "startThread", "stopCheck", "setStopped",
   "join", "clearThread", "setIdle", "algorithmCheck", "algorithmAssign"}
ClosedLabel == {"unborn", "closed", "crashed"}
WorkerLabel == ClosedLabel \cup
  {"prepare", "outer", "walk", "inner", "speed", "bumpers", "backing", "turning", "cliffs",
   "cliffBacking", "cliffTurning", "afterLoop", "onPause", "parked", "onResume", "checkStop", "onFinish"}

Alive(t) == pc[t] \notin ClosedLabel
At(p, label) == pc[p] = label
Goto(p, label) == pc' = [pc EXCEPT ![p] = label]

(***************************************************************************)
(* When the main thread has ended, the interpreter waits for the           *)
(* non-daemon algorithm thread only; the Wi-Fi thread is a daemon.         *)
(***************************************************************************)
ProcessUp ==
  \/ pc["main"] \notin {"finished", "dead", "halted"}
  \/ pc["main"] # "halted" /\ \E t \in Thread : Alive(t)

Init ==
  /\ state = "IDLE" /\ pauseReason = None
  /\ workingThread = None /\ algorithm = None
  /\ pc = [p \in Callers \cup Thread |->
             IF p = "main" THEN "boot" ELSE IF p = "wifi" THEN "ready" ELSE "unborn"]
  /\ detected = None
  /\ fine \in {AllClosed \ s : s \in SUBSET Sensors}
  /\ shutdownAsked = FALSE
  /\ request = None /\ reply = None
  /\ wheels = "still" /\ motors = "off"

-----------------------------------------------------------------------------
(* pause() and resume(), called by the core loop and by the Wi-Fi thread.   *)

\* Slip: the Wi-Fi thread returns into the core loop.
ReturnsToLoop(p) == "loop"
Returns(p) == IF p = "main" THEN "loop" ELSE "ready"
Raises(p) == IF p = "main" THEN "dead" ELSE "ready"
Answer(p, r) == /\ reply' = IF p = "wifi" THEN r ELSE reply
                /\ UNCHANGED request
GivenReason(p) == IF p = "main" THEN detected ELSE Manual

\* Slip: pause() and resume() do not look at the state.
CheckStateDropped(p, at, expected, next) ==
  /\ At(p, at) /\ Goto(p, next)
  /\ UNCHANGED <<manager, detected, fine, shutdownAsked, app, robot>>

\* An exception ends the core loop (core.py:92-98); to the app it is an error reply.
CheckState(p, at, expected, next) ==
  /\ At(p, at)
  /\ IF state = expected
     THEN Goto(p, next) /\ UNCHANGED app
     ELSE Goto(p, Raises(p)) /\ Answer(p, "error")
  /\ UNCHANGED <<manager, detected, fine, shutdownAsked, robot>>

PauseCheck(p) == CheckState(p, "pauseCheck", "RUNNING", "setReason")

PauseSetReason(p) ==
  /\ At(p, "setReason")
  /\ pauseReason' = GivenReason(p)
  /\ Goto(p, "setPaused")
  /\ UNCHANGED <<state, workingThread, algorithm, detected, fine, shutdownAsked, app, robot>>

PauseSetState(p) ==
  /\ At(p, "setPaused")
  /\ state' = "PAUSED"
  /\ Goto(p, Returns(p)) /\ Answer(p, "ok")
  /\ UNCHANGED <<pauseReason, workingThread, algorithm, detected, fine, shutdownAsked, robot>>

ResumeCheck(p) == CheckState(p, "resumeCheck", "PAUSED", "setRunning")

ResumeSetState(p) ==
  /\ At(p, "setRunning")
  /\ state' = "RUNNING"
  /\ Goto(p, Returns(p)) /\ Answer(p, "ok")
  /\ UNCHANGED <<pauseReason, workingThread, algorithm, detected, fine, shutdownAsked, robot>>

PauseOrResume(p) ==
  PauseCheck(p) \/ PauseSetReason(p) \/ PauseSetState(p) \/ ResumeCheck(p) \/ ResumeSetState(p)

-----------------------------------------------------------------------------
(* The Wi-Fi thread.                                                        *)

FirstLabel(c) ==
  CASE c = "start" -> "startCheck" [] c = "pause" -> "pauseCheck"
    [] c = "resume" -> "resumeCheck" [] c = "stop" -> "stopCheck"
    [] c = "setAlgorithm" -> "algorithmCheck"

WifiUnchanged == UNCHANGED <<detected, fine, robot>>

Receive(c) ==
  /\ ProcessUp
  /\ At("wifi", "ready")
  /\ EarlyClients \/ pc["main"] \notin {"boot", "bootAssign"}
  /\ request' = c
  /\ IF c = "shutdown"
     THEN shutdownAsked' = TRUE /\ reply' = "ok" /\ UNCHANGED pc
     ELSE Goto("wifi", FirstLabel(c)) /\ reply' = None /\ UNCHANGED shutdownAsked
  /\ UNCHANGED manager /\ WifiUnchanged

StartCheck ==
  /\ At("wifi", "startCheck")
  /\ IF state = "IDLE" /\ workingThread = None /\ algorithm # None
     THEN Goto("wifi", "startRunning") /\ UNCHANGED app
     ELSE Goto("wifi", "ready") /\ Answer("wifi", "error")
  /\ UNCHANGED <<manager, shutdownAsked>> /\ WifiUnchanged

StartSetRunning ==
  /\ At("wifi", "startRunning")
  /\ state' = "RUNNING"
  /\ Goto("wifi", "startThread")
  /\ UNCHANGED <<pauseReason, workingThread, algorithm, shutdownAsked, app>> /\ WifiUnchanged

\* A Thread object runs once; an ended one that nobody refers to may stand for a new one.
StartThread(t) ==
  /\ At("wifi", "startThread")
  /\ ~Alive(t)
  /\ workingThread' = t
  /\ pc' = [pc EXCEPT !["wifi"] = "ready", ![t] = "prepare"]
  /\ Answer("wifi", "ok")
  /\ UNCHANGED <<state, pauseReason, algorithm, shutdownAsked>> /\ WifiUnchanged

StopCheck ==
  /\ At("wifi", "stopCheck")
  /\ IF state \in {"IDLE", "STOPPED"}
     THEN Goto("wifi", "ready") /\ Answer("wifi", "error")
     ELSE Goto("wifi", "setStopped") /\ UNCHANGED app
  /\ UNCHANGED <<manager, shutdownAsked>> /\ WifiUnchanged

StopSetStopped ==
  /\ At("wifi", "setStopped")
  /\ state' = "STOPPED"
  /\ Goto("wifi", "join")
  /\ UNCHANGED <<pauseReason, workingThread, algorithm, shutdownAsked, app>> /\ WifiUnchanged

\* Slip: stop() does not wait for the thread.
StopWithoutJoin ==
  /\ At("wifi", "join")
  /\ Goto("wifi", "clearThread")
  /\ UNCHANGED <<manager, shutdownAsked, app>> /\ WifiUnchanged

\* None.join() raises an AttributeError: the app gets an error, STOPPED stays.
StopJoin ==
  /\ At("wifi", "join")
  /\ IF workingThread = None
     THEN Goto("wifi", "ready") /\ Answer("wifi", "error")
     ELSE ~Alive(workingThread) /\ Goto("wifi", "clearThread") /\ UNCHANGED app
  /\ UNCHANGED <<manager, shutdownAsked>> /\ WifiUnchanged

StopClearThread ==
  /\ At("wifi", "clearThread")
  /\ workingThread' = None
  /\ Goto("wifi", "setIdle")
  /\ UNCHANGED <<state, pauseReason, algorithm, shutdownAsked, app>> /\ WifiUnchanged

StopSetIdle ==
  /\ At("wifi", "setIdle")
  /\ state' = "IDLE"
  /\ Goto("wifi", "ready") /\ Answer("wifi", "ok")
  /\ UNCHANGED <<pauseReason, workingThread, algorithm, shutdownAsked>> /\ WifiUnchanged

\* Slip: the algorithm may be replaced in any state.
AlgorithmUnchecked ==
  /\ At("wifi", "algorithmCheck")
  /\ Goto("wifi", "algorithmAssign")
  /\ UNCHANGED <<manager, shutdownAsked, app>> /\ WifiUnchanged

AlgorithmCheck ==
  /\ At("wifi", "algorithmCheck")
  /\ IF state = "IDLE"
     THEN Goto("wifi", "algorithmAssign") /\ UNCHANGED app
     ELSE Goto("wifi", "ready") /\ Answer("wifi", "error")
  /\ UNCHANGED <<manager, shutdownAsked>> /\ WifiUnchanged

AlgorithmAssign(a) ==
  /\ At("wifi", "algorithmAssign")
  /\ algorithm' = a
  /\ Goto("wifi", "ready") /\ Answer("wifi", "ok")
  /\ UNCHANGED <<state, pauseReason, workingThread, shutdownAsked>> /\ WifiUnchanged

Wifi ==
  /\ ProcessUp
  /\ \/ PauseOrResume("wifi")
     \/ StartCheck \/ StartSetRunning \/ \E t \in Thread : StartThread(t)
     \/ StopCheck \/ StopSetStopped \/ StopJoin \/ StopClearThread \/ StopSetIdle
     \/ AlgorithmCheck \/ \E a \in Algorithms : AlgorithmAssign(a)

-----------------------------------------------------------------------------
(* The main thread: initialisation, core loop, shutdown.                    *)

MainUnchanged == UNCHANGED <<fine, shutdownAsked, app>>

\* set_algorithm() of the configured algorithm, with the Wi-Fi service already up.
BootCheck ==
  /\ At("main", "boot")
  /\ Goto("main", IF state = "IDLE" THEN "bootAssign" ELSE "dead")
  /\ UNCHANGED <<manager, detected, robot>> /\ MainUnchanged

BootAssign(a) ==
  /\ At("main", "bootAssign")
  /\ algorithm' = a
  /\ Goto("main", "loop")
  /\ UNCHANGED <<state, pauseReason, workingThread, detected, robot>> /\ MainUnchanged

LoopSeesShutdown ==
  /\ At("main", "loop") /\ shutdownAsked
  /\ Goto("main", "disableMotors")
  /\ UNCHANGED <<manager, detected, robot>> /\ MainUnchanged

\* Slip: the dust box is not looked at.
LoopSeesOpenLid ==
  /\ At("main", "loop") /\ ~shutdownAsked
  /\ state = "RUNNING" /\ "lid" \notin fine
  /\ detected' = "lid"
  /\ Goto("main", "pauseCheck")
  /\ UNCHANGED <<manager, robot>> /\ MainUnchanged

\* The lid is looked at before the dust box.
LoopSeesOpen ==
  /\ At("main", "loop") /\ ~shutdownAsked
  /\ state = "RUNNING" /\ fine # AllClosed
  /\ detected' = IF "lid" \notin fine THEN "lid" ELSE "dustBox"
  /\ Goto("main", "pauseCheck")
  /\ UNCHANGED <<manager, robot>> /\ MainUnchanged

LoopNotRunning ==
  /\ At("main", "loop") /\ ~shutdownAsked
  /\ state # "RUNNING"
  /\ Goto("main", "elif")
  /\ UNCHANGED <<manager, detected, robot>> /\ MainUnchanged

\* Slip: a dust box that is back resumes nothing.
ElifPausedByLid ==
  /\ At("main", "elif")
  /\ Goto("main", IF state = "PAUSED" /\ pauseReason = "lid" /\ "lid" \in fine
                  THEN "resumeCheck" ELSE "loop")
  /\ UNCHANGED <<manager, detected, robot>> /\ MainUnchanged

ElifPaused ==
  /\ At("main", "elif")
  /\ Goto("main", IF state = "PAUSED" /\ pauseReason \in fine THEN "resumeCheck" ELSE "loop")
  /\ UNCHANGED <<manager, detected, robot>> /\ MainUnchanged

\* _shut_down_core: the four motor jobs, then A1 is told, then the operating system.
DisableMotors ==
  /\ At("main", "disableMotors")
  /\ motors' = "off"
  /\ Goto("main", "armCut")
  /\ UNCHANGED <<manager, detected, wheels>> /\ MainUnchanged

ArmPowerCut ==
  /\ At("main", "armCut")
  /\ Goto("main", "osShutdown")
  /\ UNCHANGED <<manager, detected, robot>> /\ MainUnchanged

OsShutdown ==
  /\ At("main", "osShutdown")
  /\ Goto("main", "finished")
  /\ UNCHANGED <<manager, detected, robot>> /\ MainUnchanged

\* The operating system going down kills what is left of the process.
Killed ==
  /\ At("main", "finished")
  /\ Goto("main", "halted")
  /\ UNCHANGED <<manager, detected, robot>> /\ MainUnchanged

\* Any A1 job main waits for may be refused or time out: the exception ends the loop.
\* (One refused motor job out of four counts as no motor disabled.)
MainFault ==
  /\ A1Faults
  /\ pc["main"] \in {"boot", "loop", "disableMotors", "armCut"}
  /\ Goto("main", "dead")
  /\ UNCHANGED <<manager, detected, robot>> /\ MainUnchanged

Main ==
  \/ PauseOrResume("main")
  \/ BootCheck \/ \E a \in Algorithms : BootAssign(a)
  \/ LoopSeesShutdown \/ LoopSeesOpen \/ LoopNotRunning \/ ElifPaused
  \/ DisableMotors \/ ArmPowerCut \/ OsShutdown

-----------------------------------------------------------------------------
(* The algorithm thread: _algorithm_loop around the Simple algorithm. The   *)
(* Smart algorithm has empty handlers, so only control moves.               *)

IsBreakEvent == state \in {"PAUSED", "STOPPED"}
WorkerUnchanged == UNCHANGED <<manager, detected, fine, shutdownAsked, app>>

\* Slip: on_finish leaves the motors as they are.
AimKeepsMotors(label) ==
  [wheels |-> CASE label \in {"walk", "speed"} -> "moving"
                [] label \in {"prepare", "onResume"} -> wheels
                [] OTHER -> "still",
   motors |-> CASE label \in {"prepare", "onResume"} -> "cleaning"
                [] label = "onPause" -> "idling"
                [] OTHER -> motors]

\* What the robot does once A1 has carried out the jobs of a handler.
Aim(label) ==
  [wheels |-> CASE label \in {"walk", "speed"} -> "moving"
                [] label \in {"backing", "turning", "cliffBacking", "cliffTurning",
                              "onPause", "onFinish"} -> "still"
                [] OTHER -> wheels,
   motors |-> CASE label \in {"prepare", "onResume"} -> "cleaning"
                [] label = "onPause" -> "idling"
                [] label = "onFinish" -> "off"
                [] OTHER -> motors]

JobLabel == {"prepare", "walk", "speed", "backing", "turning", "cliffBacking", "cliffTurning",
             "onPause", "onResume", "onFinish"}

\* What a job leads to: the label after it.
AfterJob(label) ==
  CASE label \in {"prepare", "turning"} -> "outer"
    [] label = "speed" -> "bumpers"
    [] label = "backing" -> IF IsBreakEvent THEN "cliffs" ELSE "turning"
    [] label = "cliffBacking" -> "cliffTurning"
    [] label \in {"walk", "cliffTurning"} -> "inner"
    [] label = "onPause" -> "parked"
    [] label = "onResume" -> "checkStop"
    [] label = "onFinish" -> "closed"

\* The jobs of the handler are answered. The turn after a backward move is sent at once.
JobDone(t) ==
  /\ pc[t] \in JobLabel
  /\ LET next == AfterJob(pc[t]) IN
     /\ Goto(t, next)
     /\ IF algorithm = "simple"
        THEN /\ wheels' = IF next \in {"turning", "cliffTurning"} THEN "moving"
                         ELSE Aim(pc[t]).wheels
             /\ motors' = Aim(pc[t]).motors
        ELSE UNCHANGED robot
  /\ WorkerUnchanged

\* A job that A1 refuses or leaves unanswered raises in the thread, which nobody
\* catches: the thread dies, the ExecutionState stays. A1 may have obeyed or not.
JobRaises(t) ==
  /\ A1Faults /\ algorithm = "simple"
  /\ pc[t] \in JobLabel
  /\ Goto(t, "crashed")
  /\ wheels' \in {wheels, Aim(pc[t]).wheels}
  /\ motors' \in {motors, Aim(pc[t]).motors}
  /\ WorkerUnchanged

OuterTest(t) ==
  /\ At(t, "outer")
  /\ Goto(t, IF IsBreakEvent \/ algorithm = "smart" THEN "afterLoop" ELSE "walk")
  /\ UNCHANGED robot /\ WorkerUnchanged

InnerBreak(t) ==
  /\ At(t, "inner") /\ IsBreakEvent
  /\ Goto(t, "outer")
  /\ UNCHANGED robot /\ WorkerUnchanged

\* The distance ahead changed: walk_forward at another speed.
CorrectSpeed(t) ==
  /\ At(t, "inner") /\ ~IsBreakEvent
  /\ Goto(t, "speed")
  /\ UNCHANGED robot /\ WorkerUnchanged

\* A bumper or a cliff sensor triggers: a backward move is sent. A break event that came
\* after the loop's test, while the speed was corrected or the robot stepped back, stops
\* neither check.
Obstacle(t) ==
  /\ \/ At(t, "inner") /\ ~IsBreakEvent
     \/ pc[t] \in {"bumpers", "cliffs"}
  /\ \/ Goto(t, "backing") /\ pc[t] # "cliffs"
     \/ Goto(t, "cliffBacking")
  /\ wheels' = "moving"
  /\ UNCHANGED motors /\ WorkerUnchanged

\* Neither does, and the loop tests again.
WayIsClear(t) ==
  /\ pc[t] \in {"bumpers", "cliffs"}
  /\ Goto(t, "inner")
  /\ UNCHANGED robot /\ WorkerUnchanged

\* Slip: on_pause is not called.
AfterLoopParks(t) ==
  /\ At(t, "afterLoop")
  /\ Goto(t, IF state = "PAUSED" THEN "parked" ELSE "checkStop")
  /\ UNCHANGED robot /\ WorkerUnchanged

AfterLoop(t) ==
  /\ At(t, "afterLoop")
  /\ Goto(t, IF state = "PAUSED" THEN "onPause" ELSE "checkStop")
  /\ UNCHANGED robot /\ WorkerUnchanged

\* Slip: a paused thread does not look for STOPPED.
UnparkOnResumeOnly(t) ==
  /\ At(t, "parked") /\ state = "RUNNING"
  /\ Goto(t, "onResume")
  /\ UNCHANGED robot /\ WorkerUnchanged

\* _block_while_is_paused
Unpark(t) ==
  /\ At(t, "parked")
  /\ \/ state = "RUNNING" /\ Goto(t, "onResume")
     \/ state = "STOPPED" /\ Goto(t, "checkStop")
  /\ UNCHANGED robot /\ WorkerUnchanged

CheckStop(t) ==
  /\ At(t, "checkStop")
  /\ Goto(t, IF state = "STOPPED" THEN "onFinish" ELSE "outer")
  /\ UNCHANGED robot /\ WorkerUnchanged

WorkerStep(t) ==
  /\ pc["main"] # "halted"
  /\ \/ JobDone(t) \/ OuterTest(t) \/ InnerBreak(t) \/ AfterLoop(t)
     \/ WayIsClear(t) \/ Unpark(t) \/ CheckStop(t)

WorkerEvent(t) ==
  /\ pc["main"] # "halted"
  /\ \/ JobRaises(t) \/ CorrectSpeed(t) \/ Obstacle(t)

-----------------------------------------------------------------------------
(* The user opens or closes the lid, takes out or puts back the dust box.   *)

Touch(s) ==
  /\ fine' = IF s \in fine THEN fine \ {s} ELSE fine \cup {s}
  /\ UNCHANGED <<manager, pc, detected, shutdownAsked, app, robot>>

Next ==
  \/ \E c \in Commands : Receive(c)
  \/ Wifi
  \/ Main \/ MainFault
  \/ \E t \in Thread : WorkerStep(t) \/ WorkerEvent(t)
  \/ Killed
  \/ \E s \in Sensors : Touch(s)

Spec == Init /\ [][Next]_vars

(***************************************************************************)
(* The interpreter switches threads every few milliseconds, so a thread    *)
(* that can step does; A1 answers every job it is given (JobDone). What    *)
(* the user, the app and the sensors do is not forced.                     *)
(***************************************************************************)
Fairness ==
  /\ WF_vars(Wifi) /\ WF_vars(Main) /\ WF_vars(Killed)
  /\ \A t \in Thread : WF_vars(WorkerStep(t))

FairSpec == Spec /\ Fairness

-----------------------------------------------------------------------------
PcTypeOK ==
  /\ pc \in [Callers \cup Thread -> MainLabel \cup WifiLabel \cup WorkerLabel]
  /\ pc["main"] \in MainLabel /\ pc["wifi"] \in WifiLabel
  /\ \A t \in Thread : pc[t] \in WorkerLabel

TypeOK ==
  /\ state \in State
  /\ pauseReason \in {None, Manual, "lid", "dustBox"}
  /\ workingThread \in Thread \cup {None}
  /\ algorithm \in Algorithms \cup {None}
  /\ PcTypeOK
  /\ detected \in {None, "lid", "dustBox"}
  /\ fine \subseteq AllClosed
  /\ shutdownAsked \in BOOLEAN
  /\ request \in Commands \cup {None} /\ reply \in {None, "ok", "error"}
  /\ wheels \in {"still", "moving"} /\ motors \in {"off", "idling", "cleaning"}

NoThread == \A t \in Thread : ~Alive(t)
Quiet == wheels = "still" /\ motors # "cleaning"

\* However the app's requests and the core loop interleave, at most one algorithm
\* thread drives the robot, and IDLE, the state in which start() and set_algorithm() are
\* allowed, is only ever seen when none does, whatever writes raced before.
OneDriver ==
  /\ \A t, u \in Thread : Alive(t) /\ Alive(u) => t = u
  /\ state = "IDLE" => NoThread

\* When the app is told that stop succeeded, the thread is closed, and unless it
\* died on an A1 fault the robot is at rest: on_finish() ran to its end.
StoppedIsAtRest ==
  request = "stop" /\ reply = "ok" =>
    /\ NoThread
    /\ (\A t \in Thread : pc[t] # "crashed") => wheels = "still" /\ motors = "off"

\* While the thread waits in _block_while_is_paused the robot stands still with its
\* motors idling, on whatever path the pause was reached.
ParkedIsQuiet == (\E t \in Thread : pc[t] = "parked") => Quiet

\* A running algorithm is not replaced, except by the core's own initialisation,
\* whose check an early client may overtake.
AlgorithmKept ==
  [][~NoThread /\ ~At("main", "bootAssign") => algorithm' = algorithm]_vars

\* A stop that was ordered is undone by nobody but the core loop, caught between
\* its test of the state and its write.
StopUndoneOnlyByCoreLoop ==
  [][state = "STOPPED" /\ state' # "STOPPED" =>
       \/ state' = "IDLE" /\ NoThread
       \/ pc["main"] \in {"setPaused", "setRunning"}]_vars

\* "Stops algorithm execution and waits until thread is closed" (algo_manager.py:182):
\* once the user leaves the lid and the dust box alone, every stop request is answered.
\* Not so when the core loop's pause or resume overwrites STOPPED.
StopIsAnswered ==
  <>[](fine = AllClosed) => []((request = "stop" /\ reply = None) => <>(reply # None))

\* The manager implements the cleaning lifecycle: the ExecutionState is its phase, a stop
\* that is ordered ends idle, and it all holds until the core loop has seen the lid open or
\* the dust box out (from then on `detected' is set).
Lifecycle == INSTANCE CleaningLifecycle WITH
  phase <- CASE state = "IDLE" -> "idle" [] state = "RUNNING" -> "cleaning"
             [] state = "PAUSED" -> "paused" [] state = "STOPPED" -> "stopping",
  active <- ~(wheels = "still" /\ motors = "off"),
  overruled <- detected # None

ImplementsLifecycle == Lifecycle!Spec

\* From now on the user leaves what is closed closed and the rest open, the app asks for
\* nothing but a stop, and no pause or stop of the app has ended the core loop (core.py:148).
SettlesAs(f) ==
  fine = f /\ (At("wifi", "ready") \/ request = "stop") /\ ~At("main", "dead")

\* Once the lid stays open or the dust box out, the robot ends up at rest, whatever the app
\* and the user did before.
OpenStopsRobot == \A f \in SUBSET AllClosed \ {AllClosed} : <>[]SettlesAs(f) => <>[]Quiet

\* Once both stay closed, no cleaning stays paused on account of the sensors, however the
\* app's pauses and the core loop's crossed before.
ClosedResumes ==
  <>[]SettlesAs(AllClosed) => <>[](state = "PAUSED" => pauseReason = Manual)

\* "Disable all motors..." (core.py:196): when the operating system has gone down,
\* nothing the core commanded is still moving.
NothingMovesAtShutdown == At("main", "halted") => wheels = "still" /\ motors = "off"
=============================================================================
