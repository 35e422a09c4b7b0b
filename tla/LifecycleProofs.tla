---------------------------- MODULE LifecycleProofs ----------------------------
(***************************************************************************)
(* What the AlgorithmManager does with the robot, proved from the          *)
(* invariant of AlgorithmManagerProofs: where its wheels and motors are at *)
(* rest, and that the manager implements CleaningLifecycle.                *)
(*                                                                         *)
(* An early client's algorithm may be replaced under its thread, and a     *)
(* robot whose thread has died may be taken over by the empty algorithm    *)
(* Smart: so either Smart is not registered, or neither happens.           *)
(***************************************************************************)
EXTENDS AlgorithmManagerProofs

Steady == "smart" \notin Algorithms \/ (~EarlyClients /\ ~A1Faults)

Rest == wheels = "still" /\ motors = "off"
DriveLabel == {"walk", "inner", "speed", "bumpers", "backing", "turning", "cliffs",
               "cliffBacking", "cliffTurning"}

\* A living thread has an algorithm; that of Smart never gets to drive.
AlgorithmInv ==
  /\ pc["wifi"] \in {"startRunning", "startThread"} => algorithm # None
  /\ \A t \in Thread : Alive(t) =>
       algorithm # None /\ (algorithm = "smart" => Rest /\ pc[t] \notin DriveLabel)

\* Before the initialisation has ended nobody is served, unless there are early clients.
BootInv ==
  ~EarlyClients /\ pc["main"] \in {"boot", "bootAssign"} => pc["wifi"] = "ready" /\ NoThread

\* The robot is at rest when no thread is alive and none has died of a fault.
RestInv ==
  /\ ~A1Faults => \A t \in Thread : pc[t] # "crashed"
  /\ NoThread /\ (\A t \in Thread : pc[t] # "crashed") => Rest

RobotInv == AlgorithmInv /\ BootInv /\ RestInv /\ ParkedIsQuiet

USE DEF State, Callers, SharedLabel, MainLabel, WifiLabel, ClosedLabel, WorkerLabel, At,
        AllClosed, None, Manual, AllCommands, manager, app, robot

LEMMA InitRobot == Init => RobotInv
<1> SUFFICES ASSUME Init PROVE RobotInv
  OBVIOUS
<1>1. pc["wifi"] = "ready" /\ \A t \in Thread : pc[t] = "unborn"
  BY ThreadsAreDistinct DEF Init
<1>2. Rest
  BY DEF Init, Rest
<1> QED
  BY <1>1, <1>2 DEF RobotInv, AlgorithmInv, BootInv, RestInv, ParkedIsQuiet, NoThread, Alive
-----------------------------------------------------------------------------
(* The callers: they start threads, but only the shutdown touches the robot. *)

\* No thread of the robot moves, and neither does the robot: the motors may go off.
LEMMA OthersKeepRobot ==
  ASSUME RobotInv, \A t \in Thread : pc'[t] = pc[t], UNCHANGED wheels,
         motors' \in {motors, "off"},
         AlgorithmInv' \/ (UNCHANGED algorithm /\ pc'["wifi"] \notin {"startRunning", "startThread"}),
         BootInv'
  PROVE RobotInv'
<1>1. Rest => Rest'
  BY DEF Rest
<1>2. RestInv'
  BY <1>1 DEF RobotInv, RestInv, NoThread, Alive
<1>3. ParkedIsQuiet'
  BY DEF RobotInv, ParkedIsQuiet, Quiet
<1>4. AlgorithmInv'
  BY <1>1 DEF RobotInv, AlgorithmInv, Alive
<1> QED
  BY <1>2, <1>3, <1>4 DEF RobotInv

LEMMA MainKeepsRobot ==
  ASSUME Steady, IInv, RobotInv, Main \/ MainFault \/ Killed PROVE RobotInv'
<1> USE DEF MainUnchanged
<1>1. /\ \E label : Goto("main", label)
      /\ UNCHANGED wheels /\ motors' \in {motors, "off"}
      /\ \/ UNCHANGED algorithm
         \/ pc["main"] = "bootAssign" /\ algorithm' \in Algorithms
  <2>1. CASE PauseOrResume("main")
    BY <2>1 DEF PauseOrResume, PauseCheck, PauseSetReason, PauseSetState, ResumeCheck,
                ResumeSetState, CheckState, Answer
  <2>2. CASE BootCheck \/ \E a \in Algorithms : BootAssign(a)
    BY <2>2 DEF BootCheck, BootAssign
  <2>3. CASE LoopSeesShutdown \/ LoopSeesOpen \/ LoopNotRunning \/ ElifPaused
    BY <2>3 DEF LoopSeesShutdown, LoopSeesOpen, LoopNotRunning, ElifPaused
  <2>4. CASE DisableMotors \/ ArmPowerCut \/ OsShutdown \/ MainFault \/ Killed
    BY <2>4 DEF DisableMotors, ArmPowerCut, OsShutdown, MainFault, Killed
  <2> QED
    BY <2>1, <2>2, <2>3, <2>4 DEF Main
<1>2. pc'["wifi"] = pc["wifi"] /\ \A t \in Thread : pc'[t] = pc[t]
  BY <1>1, ThreadsAreDistinct DEF Goto, IInv, TypeOK, PcTypeOK
<1>3. pc'["main"] \in {"boot", "bootAssign"} => pc["main"] \in {"boot", "bootAssign"}
  <2> USE ThreadsAreDistinct DEF Goto, IInv, TypeOK, PcTypeOK
  <2>1. CASE PauseOrResume("main")
    BY <2>1 DEF PauseOrResume, PauseCheck, PauseSetReason, PauseSetState, ResumeCheck,
                ResumeSetState, CheckState, Returns, Raises
  <2>2. CASE BootCheck \/ \E a \in Algorithms : BootAssign(a)
    BY <2>2 DEF BootCheck, BootAssign
  <2>3. CASE LoopSeesShutdown \/ LoopSeesOpen \/ LoopNotRunning \/ ElifPaused
    BY <2>3 DEF LoopSeesShutdown, LoopSeesOpen, LoopNotRunning, ElifPaused
  <2>4. CASE DisableMotors \/ ArmPowerCut \/ OsShutdown \/ MainFault \/ Killed
    BY <2>4 DEF DisableMotors, ArmPowerCut, OsShutdown, MainFault, Killed
  <2> QED
    BY <2>1, <2>2, <2>3, <2>4 DEF Main
<1>4. BootInv'
  BY <1>2, <1>3 DEF RobotInv, BootInv, NoThread, Alive
<1>5. AlgorithmInv'
  <2>1. Rest => Rest'
    BY <1>1 DEF Rest
  <2>2. CASE UNCHANGED algorithm
    BY <1>2, <2>1, <2>2 DEF RobotInv, AlgorithmInv, Alive
  <2>3. CASE pc["main"] = "bootAssign" /\ algorithm' \in Algorithms
    <3>1. algorithm' # None
      BY <2>3, ConstantsAssumption
    <3>2. algorithm' # "smart" \/ NoThread
      BY <2>3 DEF Steady, RobotInv, BootInv
    <3> QED
      BY <1>2, <3>1, <3>2 DEF RobotInv, AlgorithmInv, Alive, NoThread
  <2> QED
    BY <1>1, <2>2, <2>3
<1> QED
  BY <1>1, <1>2, <1>4, <1>5, OthersKeepRobot

\* start(): the thread comes to life with an algorithm, on a robot at rest.
LEMMA StartKeepsRobot ==
  ASSUME Steady, IInv, RobotInv, NEW t \in Thread, StartThread(t), pc["main"] \notin {"boot", "bootAssign"} \/ EarlyClients
  PROVE RobotInv'
<1>1. NoThread
  BY ThreadsAreDistinct DEF StartThread, IInv, ThreadInv, NoThread
<1>2. /\ pc' = [pc EXCEPT !["wifi"] = "ready", ![t] = "prepare"]
      /\ UNCHANGED <<algorithm, wheels, motors>>
  BY DEF StartThread, WifiUnchanged
<1>3. /\ pc'["wifi"] = "ready" /\ pc'["main"] = pc["main"] /\ pc'[t] = "prepare"
      /\ \A u \in Thread \ {t} : pc'[u] = pc[u]
  BY <1>2, StartGoto DEF IInv, TypeOK
<1>4. algorithm # None /\ (algorithm = "smart" => Rest)
  <2>1. algorithm \in Algorithms
    BY DEF StartThread, RobotInv, AlgorithmInv, IInv, TypeOK
  <2>2. algorithm = "smart" => \A u \in Thread : pc[u] # "crashed"
    BY <2>1 DEF Steady, RobotInv, RestInv
  <2> QED
    BY <1>1, <2>1, <2>2, ConstantsAssumption DEF RobotInv, RestInv
<1>5. AlgorithmInv'
  BY <1>1, <1>2, <1>3, <1>4 DEF AlgorithmInv, Rest, NoThread, Alive, DriveLabel
<1>6. BootInv'
  BY <1>3 DEF BootInv
<1>7. RestInv' /\ ParkedIsQuiet'
  <2>1. ~NoThread'
    BY <1>3 DEF NoThread, Alive
  <2> QED
    BY <1>1, <1>3, <2>1 DEF RobotInv, RestInv, ParkedIsQuiet, NoThread, Alive
<1> QED
  BY <1>5, <1>6, <1>7 DEF RobotInv

LEMMA WifiKeepsRobot ==
  ASSUME Steady, IInv, RobotInv, Wifi \/ \E c \in Commands : Receive(c) PROVE RobotInv'
<1> USE DEF WifiUnchanged
<1>1. CASE \E t \in Thread : StartThread(t)
  BY <1>1, StartKeepsRobot DEF RobotInv, BootInv, StartThread
<1>2. ASSUME ~\E t \in Thread : StartThread(t)
      PROVE /\ UNCHANGED robot
            /\ \/ \E label : Goto("wifi", label)
               \/ UNCHANGED pc
            /\ pc["wifi"] = "ready" => EarlyClients \/ pc["main"] \notin {"boot", "bootAssign"}
            /\ \/ UNCHANGED algorithm
               \/ pc["wifi"] = "algorithmAssign" /\ algorithm' \in Algorithms
  <2>1. CASE PauseOrResume("wifi")
    BY <2>1 DEF PauseOrResume, PauseCheck, PauseSetReason, PauseSetState, ResumeCheck,
                ResumeSetState, CheckState, Answer
  <2>2. CASE StartCheck \/ StartSetRunning
    BY <2>2 DEF StartCheck, StartSetRunning
  <2>3. CASE StopCheck \/ StopSetStopped \/ StopJoin \/ StopClearThread \/ StopSetIdle
    BY <2>3 DEF StopCheck, StopSetStopped, StopJoin, StopClearThread, StopSetIdle
  <2>4. CASE AlgorithmCheck \/ \E a \in Algorithms : AlgorithmAssign(a)
    BY <2>4 DEF AlgorithmCheck, AlgorithmAssign
  <2>5. CASE \E c \in Commands : Receive(c)
    BY <2>5 DEF Receive
  <2> QED
    BY <1>2, <2>1, <2>2, <2>3, <2>4, <2>5 DEF Wifi
<1>3. ASSUME ~\E t \in Thread : StartThread(t) PROVE RobotInv'
  <2>1. pc'["main"] = pc["main"] /\ \A t \in Thread : pc'[t] = pc[t]
    <3>1. ASSUME NEW label, Goto("wifi", label)
          PROVE  pc'["main"] = pc["main"] /\ \A t \in Thread : pc'[t] = pc[t]
      BY <3>1, OthersStay, ThreadsAreDistinct DEF IInv, TypeOK
    <3> QED
      BY <1>2, <1>3, <3>1
  <2>2. BootInv'
    BY <1>2, <1>3, <2>1 DEF RobotInv, BootInv
  <2>3. pc'["wifi"] \in {"startRunning", "startThread"} => algorithm' # None
    <3>1. \A label : Goto("wifi", label) => pc'["wifi"] = label
      BY WifiAlone DEF IInv, TypeOK
    <3>2. CASE PauseOrResume("wifi")
      BY <3>1, <3>2 DEF PauseOrResume, PauseCheck, PauseSetReason, PauseSetState, ResumeCheck,
                  ResumeSetState, CheckState, Returns, Raises
    <3>3. CASE StartCheck \/ StartSetRunning
      BY <3>1, <3>3 DEF StartCheck, StartSetRunning, RobotInv, AlgorithmInv
    <3>4. CASE StopCheck \/ StopSetStopped \/ StopJoin \/ StopClearThread \/ StopSetIdle
      BY <3>1, <3>4 DEF StopCheck, StopSetStopped, StopJoin, StopClearThread, StopSetIdle
    <3>5. CASE AlgorithmCheck \/ \E a \in Algorithms : AlgorithmAssign(a)
      BY <3>1, <3>5 DEF AlgorithmCheck, AlgorithmAssign
    <3>6. ASSUME NEW c \in Commands, Receive(c) PROVE pc'["wifi"] \notin {"startRunning", "startThread"}
      BY <3>1, <3>6, ConstantsAssumption DEF Receive, FirstLabel
    <3> QED
      BY <1>3, <3>2, <3>3, <3>4, <3>5, <3>6 DEF Wifi
  <2>4. \A t \in Thread : Alive(t) => UNCHANGED algorithm
    BY <1>2, <1>3 DEF IInv, ThreadInv, NoThread
  <2>5. AlgorithmInv'
    BY <1>2, <1>3, <2>1, <2>3, <2>4 DEF RobotInv, AlgorithmInv, Rest, Alive
  <2> QED
    BY <1>2, <1>3, <2>1, <2>2, <2>5, OthersKeepRobot
<1> QED
  BY <1>1, <1>3
-----------------------------------------------------------------------------
(* The algorithm thread that is alive, and no other one, drives the robot.  *)

LEMMA WorkerKeepsRobot ==
  ASSUME Steady, IInv, RobotInv, NEW t \in Thread, WorkerStep(t) \/ WorkerEvent(t)
  PROVE  RobotInv'
<1> USE DEF WorkerUnchanged
<1>1. Alive(t) /\ \A u \in Thread \ {t} : ~Alive(u)
  <2>1. Alive(t)
    BY DEF WorkerStep, WorkerEvent, JobDone, JobRaises, OuterTest, InnerBreak, CorrectSpeed,
           Obstacle, WayIsClear, AfterLoop, CheckStop, Unpark, Alive, JobLabel
  <2> QED
    BY <2>1 DEF IInv, ThreadInv
<1>2. algorithm # None /\ (algorithm = "smart" => Rest /\ pc[t] \notin DriveLabel)
  BY <1>1 DEF RobotInv, AlgorithmInv
<1>3. algorithm \in {"simple", "smart"} /\ UNCHANGED algorithm
  <2>1. algorithm \in {"simple", "smart"}
    BY <1>2, ConstantsAssumption DEF IInv, TypeOK
  <2>2. UNCHANGED algorithm
    BY DEF WorkerStep, WorkerEvent, JobDone, JobRaises, OuterTest, InnerBreak, CorrectSpeed,
           Obstacle, WayIsClear, AfterLoop, CheckStop, Unpark
  <2> QED
    BY <2>1, <2>2
<1>4. \A label : Goto(t, label) =>
        /\ pc'[t] = label /\ pc'["wifi"] = pc["wifi"] /\ pc'["main"] = pc["main"]
        /\ \A u \in Thread \ {t} : pc'[u] = pc[u]
  BY ThreadsAreDistinct DEF Goto, IInv, TypeOK, PcTypeOK
\* It suffices to look at this thread and the robot.
<1>5. ASSUME NEW label, Goto(t, label),
             label = "crashed" => A1Faults,
             algorithm = "smart" => UNCHANGED robot /\ label \notin DriveLabel,
             label \in ClosedLabel => label = "crashed" \/ (label = "closed" /\ Rest'),
             label = "parked" => Quiet'
      PROVE RobotInv'
  <2>1. AlgorithmInv'
    BY <1>1, <1>2, <1>3, <1>4, <1>5 DEF RobotInv, AlgorithmInv, Rest, Alive
  <2>2. BootInv'
    BY <1>1, <1>4, <1>5 DEF RobotInv, BootInv, NoThread
  <2>3. RestInv'
    BY <1>1, <1>4, <1>5 DEF RobotInv, RestInv, NoThread, Alive
  <2>4. ParkedIsQuiet'
    BY <1>1, <1>4, <1>5 DEF ParkedIsQuiet, Alive
  <2> QED
    BY <2>1, <2>2, <2>3, <2>4 DEF RobotInv
<1>6. CASE JobDone(t)
  <2> DEFINE next == AfterJob(pc[t])
  <2>1. Goto(t, next) /\ pc[t] \in JobLabel
    BY <1>6 DEF JobDone
  <2>2. next # "crashed" /\ (next \in ClosedLabel => next = "closed" /\ pc[t] = "onFinish")
        /\ (next = "parked" => pc[t] = "onPause")
        /\ (next \in DriveLabel => pc[t] \in DriveLabel)
    BY <2>1 DEF AfterJob, JobLabel, DriveLabel
  <2>3. CASE algorithm = "smart"
    <3>1. UNCHANGED robot /\ Rest
      BY <1>2, <1>6, <2>3 DEF JobDone
    <3>2. Rest' /\ Quiet'
      BY <3>1 DEF Rest, Quiet
    <3> QED
      BY <1>2, <1>5, <2>1, <2>2, <2>3, <3>1, <3>2
  <2>4. CASE algorithm = "simple"
    <3>1. pc[t] = "onFinish" => Rest'
      BY <1>6, <2>2, <2>4 DEF JobDone, Aim, Rest, AfterJob
    <3>2. pc[t] = "onPause" => Quiet'
      BY <1>6, <2>2, <2>4 DEF JobDone, Aim, Quiet, AfterJob
    <3> QED
      BY <1>5, <2>1, <2>2, <2>4, <3>1, <3>2
  <2> QED
    BY <1>3, <2>3, <2>4
<1>7. CASE JobRaises(t)
  BY <1>5, <1>7 DEF JobRaises
<1>8. CASE OuterTest(t)
  BY <1>5, <1>8 DEF OuterTest, DriveLabel
<1>9. CASE InnerBreak(t) \/ CorrectSpeed(t) \/ Obstacle(t) \/ WayIsClear(t)
  <2>1. algorithm # "smart"
    BY <1>2, <1>9 DEF InnerBreak, CorrectSpeed, Obstacle, WayIsClear, DriveLabel
  <2>2. \E label \in {"outer", "inner", "speed", "backing", "cliffBacking"} : Goto(t, label)
    BY <1>9 DEF InnerBreak, CorrectSpeed, Obstacle, WayIsClear
  <2> QED
    BY <1>5, <2>1, <2>2
<1>10. CASE AfterLoop(t) \/ CheckStop(t) \/ Unpark(t)
  <2>1. /\ UNCHANGED robot
        /\ \E label \in {"onPause", "checkStop", "onFinish", "outer", "onResume"} : Goto(t, label)
    BY <1>10 DEF AfterLoop, CheckStop, Unpark
  <2> QED
    BY <1>5, <2>1 DEF DriveLabel
<1> QED
  BY <1>6, <1>7, <1>8, <1>9, <1>10 DEF WorkerStep, WorkerEvent

LEMMA NextRobot == Steady /\ IInv /\ RobotInv /\ [Next]_vars => RobotInv'
<1> SUFFICES ASSUME Steady, IInv, RobotInv, [Next]_vars PROVE RobotInv'
  OBVIOUS
<1>1. CASE UNCHANGED vars \/ \E s \in Sensors : Touch(s)
  <2>1. UNCHANGED <<manager, pc, robot>>
    BY <1>1 DEF vars, Touch
  <2> QED
    BY <2>1 DEF RobotInv, AlgorithmInv, BootInv, RestInv, ParkedIsQuiet, Quiet, Rest, NoThread,
        Alive
<1> QED
  BY <1>1, MainKeepsRobot, WifiKeepsRobot, WorkerKeepsRobot DEF Next

LEMMA RobotInvariance == ASSUME Steady PROVE Spec => [](IInv /\ RobotInv)
<1>1. Init => IInv /\ RobotInv
  BY InitIInv, InitRobot
<1>2. IInv /\ RobotInv /\ [Next]_vars => (IInv /\ RobotInv)'
  BY NextIInv, NextRobot
<1> QED
  BY <1>1, <1>2, PTL DEF Spec

\* A thread that waits for the end of a pause has stopped the wheels and throttled the
\* motors before, on every path to the pause.
THEOREM ParkedRobotIsQuiet == ASSUME Steady PROVE Spec => []ParkedIsQuiet
<1>1. IInv /\ RobotInv => ParkedIsQuiet
  BY DEF RobotInv
<1> QED
  BY <1>1, RobotInvariance, PTL

\* When the app is told that stop succeeded, on_finish has stopped the wheels and the motors,
\* unless the thread had died of a fault.
THEOREM StoppedRobotRests == ASSUME Steady PROVE Spec => []StoppedIsAtRest
<1>1. IInv /\ RobotInv => StoppedIsAtRest
  BY DEF IInv, RequestInv, RobotInv, RestInv, Rest, StoppedIsAtRest
<1> QED
  BY <1>1, RobotInvariance, PTL
-----------------------------------------------------------------------------
(* The refinement of CleaningLifecycle (its safety), without faults and      *)
(* early clients. Until the core loop has seen something open it writes no   *)
(* state, so that what the Wi-Fi thread tested still holds when it writes.   *)

Orderly == ~EarlyClients /\ ~A1Faults

TestedInv ==
  /\ pauseReason \in {"lid", "dustBox"} => detected # None
  /\ pc["main"] \in SharedLabel => detected # None
  /\ pc["wifi"] = "setStopped" => state \in {"RUNNING", "PAUSED"}
  /\ detected = None =>
       /\ pc["wifi"] \in {"setReason", "setPaused"} => state = "RUNNING"
       /\ pc["wifi"] = "setRunning" => state = "PAUSED"
       /\ pc["wifi"] = "startRunning" => state = "IDLE"
       /\ pc["wifi"] \in {"join", "clearThread", "setIdle"} => state = "STOPPED"

\* What a step of the callers may do to the state: where it came from, when nothing interfered.
Transition ==
  \/ UNCHANGED state
  \/ state = "IDLE" /\ state' = "RUNNING"
  \/ state = "RUNNING" /\ state' = "PAUSED"
  \/ state = "PAUSED" /\ state' = "RUNNING"
  \/ state \in {"RUNNING", "PAUSED"} /\ state' = "STOPPED"
  \/ state = "STOPPED" /\ state' = "IDLE" /\ Rest
  \/ detected # None /\ (state' \in {"RUNNING", "PAUSED"} \/ (state' = "IDLE" /\ Rest))

LEMMA InitTested == Init => TestedInv
BY ThreadsAreDistinct DEF Init, TestedInv

LEMMA MainTested ==
  ASSUME IInv, TestedInv, Main \/ MainFault \/ Killed
  PROVE  TestedInv' /\ Transition /\ (detected # None => detected' # None)
         /\ (UNCHANGED state \/ UNCHANGED <<robot, detected>>)
         /\ (UNCHANGED robot \/ UNCHANGED detected)
<1> USE DEF MainUnchanged
<1>1. \A label : Goto("main", label) => pc'["main"] = label /\ pc'["wifi"] = pc["wifi"]
  BY ThreadsAreDistinct DEF Goto, IInv, TypeOK, PcTypeOK
<1>2. detected \in {None, "lid", "dustBox"} /\ fine \subseteq AllClosed
  BY DEF IInv, TypeOK
<1>3. CASE PauseOrResume("main")
  <2>1. pc["main"] \in SharedLabel /\ UNCHANGED <<robot, detected>>
    BY <1>3 DEF PauseOrResume, PauseCheck, PauseSetReason, PauseSetState, ResumeCheck,
                ResumeSetState, CheckState
  <2>2. detected # None
    BY <2>1 DEF TestedInv
  <2>3. state' \in {state, "RUNNING", "PAUSED"}
    BY <1>3 DEF PauseOrResume, PauseCheck, PauseSetReason, PauseSetState, ResumeCheck,
                ResumeSetState, CheckState
  <2>4. pc'["wifi"] = pc["wifi"]
    BY <1>1, <1>3 DEF PauseOrResume, PauseCheck, PauseSetReason, PauseSetState, ResumeCheck,
                ResumeSetState, CheckState
  <2> QED
    BY <2>1, <2>2, <2>3, <2>4 DEF TestedInv, Transition
<1>4. CASE BootCheck \/ \E a \in Algorithms : BootAssign(a)
  BY <1>1, <1>4 DEF BootCheck, BootAssign, TestedInv, Transition
<1>5. CASE LoopSeesOpen
  BY <1>1, <1>5 DEF LoopSeesOpen, TestedInv, Transition
<1>6. CASE ElifPaused
  <2>1. pauseReason \in fine => pauseReason \in {"lid", "dustBox"}
    BY <1>2
  <2>2. pc'["wifi"] = pc["wifi"] /\ (pc'["main"] = "loop" \/ detected # None)
    BY <1>1, <1>6, <2>1 DEF ElifPaused, TestedInv
  <2>3. UNCHANGED <<manager, robot, detected>>
    BY <1>6 DEF ElifPaused
  <2> QED
    BY <2>2, <2>3 DEF TestedInv, Transition
<1>7. CASE LoopSeesShutdown \/ LoopNotRunning
  BY <1>1, <1>7 DEF LoopSeesShutdown, LoopNotRunning, TestedInv, Transition
<1>8. CASE DisableMotors \/ ArmPowerCut \/ OsShutdown \/ MainFault \/ Killed
  BY <1>1, <1>8 DEF DisableMotors, ArmPowerCut, OsShutdown, MainFault, Killed, TestedInv, Transition
<1> QED
  BY <1>3, <1>4, <1>5, <1>6, <1>7, <1>8 DEF Main

LEMMA WifiTested ==
  ASSUME Orderly, IInv, RobotInv, TestedInv, Wifi \/ \E c \in Commands : Receive(c)
  PROVE  TestedInv' /\ Transition /\ UNCHANGED <<robot, detected>>
<1> USE DEF WifiUnchanged
<1>1. /\ \A label : Goto("wifi", label) => pc'["wifi"] = label /\ pc'["main"] = pc["main"]
      /\ pauseReason \in {None, Manual, "lid", "dustBox"}
  BY ThreadsAreDistinct DEF Goto, IInv, TypeOK, PcTypeOK
<1>2. CASE PauseOrResume("wifi")
  <2>1. CASE PauseCheck("wifi") \/ ResumeCheck("wifi")
    BY <1>1, <2>1 DEF PauseCheck, ResumeCheck, CheckState, Raises, TestedInv, Transition
  <2>2. CASE PauseSetReason("wifi")
    BY <1>1, <2>2 DEF PauseSetReason, GivenReason, TestedInv, Transition
  <2>3. CASE PauseSetState("wifi")
    BY <1>1, <2>3 DEF PauseSetState, Returns, TestedInv, Transition
  <2>4. CASE ResumeSetState("wifi")
    BY <1>1, <2>4 DEF ResumeSetState, Returns, TestedInv, Transition
  <2> QED
    BY <1>2, <2>1, <2>2, <2>3, <2>4 DEF PauseOrResume
<1>3. CASE StartCheck \/ StartSetRunning
  BY <1>1, <1>3 DEF StartCheck, StartSetRunning, TestedInv, Transition
<1>4. ASSUME NEW t \in Thread, StartThread(t)
      PROVE  TestedInv' /\ Transition /\ UNCHANGED <<robot, detected>>
  <2>1. pc'["wifi"] = "ready" /\ pc'["main"] = pc["main"]
    BY <1>4, ThreadsAreDistinct DEF StartThread, IInv, TypeOK, PcTypeOK
  <2> QED
    BY <1>4, <2>1 DEF StartThread, TestedInv, Transition
<1>5. CASE StopCheck \/ StopSetStopped \/ StopJoin \/ StopClearThread
  BY <1>1, <1>5 DEF StopCheck, StopSetStopped, StopJoin, StopClearThread, TestedInv, Transition, IInv, TypeOK
<1>6. CASE StopSetIdle
  <2>1. Rest
    BY <1>6, ThreadsAreDistinct DEF StopSetIdle, IInv, ThreadInv, NoThread, RobotInv, RestInv, Orderly
  <2> QED
    BY <1>1, <1>6, <2>1 DEF StopSetIdle, TestedInv, Transition
<1>7. CASE AlgorithmCheck \/ \E a \in Algorithms : AlgorithmAssign(a)
  BY <1>1, <1>7 DEF AlgorithmCheck, AlgorithmAssign, TestedInv, Transition
<1>8. ASSUME NEW c \in Commands, Receive(c)
      PROVE  TestedInv' /\ Transition /\ UNCHANGED <<robot, detected>>
  <2>1. /\ UNCHANGED <<manager, robot, detected>>
        /\ UNCHANGED pc \/ \E label \in {"startCheck", "pauseCheck", "resumeCheck", "stopCheck",
                                         "algorithmCheck"} : Goto("wifi", label)
    BY <1>8, ConstantsAssumption DEF Receive, FirstLabel
  <2> QED
    BY <1>1, <2>1 DEF TestedInv, Transition
<1> QED
  BY <1>2, <1>3, <1>4, <1>5, <1>6, <1>7, <1>8 DEF Wifi

\* The algorithm's thread acts while the state is not IDLE.
LEMMA WorkerTested ==
  ASSUME IInv, TestedInv, NEW t \in Thread, WorkerStep(t) \/ WorkerEvent(t)
  PROVE  TestedInv' /\ UNCHANGED <<state, detected>> /\ state # "IDLE"
<1> USE DEF WorkerUnchanged
<1>1. UNCHANGED <<manager, detected>> /\ Alive(t) /\ \E label : Goto(t, label)
  BY DEF WorkerStep, WorkerEvent, JobDone, JobRaises, OuterTest, InnerBreak, CorrectSpeed,
         Obstacle, WayIsClear, AfterLoop, CheckStop, Unpark, Alive, JobLabel
<1>2. pc'["wifi"] = pc["wifi"] /\ pc'["main"] = pc["main"]
  BY <1>1, ThreadsAreDistinct DEF Goto, IInv, TypeOK, PcTypeOK
<1> QED
  BY <1>1, <1>2 DEF TestedInv, IInv, ThreadInv

LEMMA NextTested == Orderly /\ IInv /\ RobotInv /\ TestedInv /\ [Next]_vars => TestedInv'
<1>1. ASSUME TestedInv, UNCHANGED vars \/ \E s \in Sensors : Touch(s) PROVE TestedInv'
  BY <1>1 DEF vars, Touch, TestedInv
<1> QED
  BY <1>1, MainTested, WifiTested, WorkerTested DEF Next

-----------------------------------------------------------------------------
(* Each kind of step, seen as one of the lifecycle.                         *)

USE DEF Lifecycle!vars

LEMMA TransitionMaps ==
  ASSUME IInv, IInv', Transition, UNCHANGED <<robot, detected>>
  PROVE  [Lifecycle!Next]_(Lifecycle!vars)
<1>1. state \in State /\ state' \in State
  BY DEF IInv, TypeOK
<1> QED
  BY <1>1 DEF Transition, Rest, Lifecycle!Next, Lifecycle!Begin, Lifecycle!Pause,
     Lifecycle!Resume, Lifecycle!Stop, Lifecycle!Finish, Lifecycle!Overwrite

LEMMA InterferenceMaps ==
  ASSUME IInv, UNCHANGED <<state, robot>>, detected # None => detected' # None
  PROVE  [Lifecycle!Next]_(Lifecycle!vars)
BY DEF Lifecycle!Next, Lifecycle!Interfere

LEMMA ActionMaps ==
  ASSUME IInv, UNCHANGED <<state, detected>>, state = "IDLE" => Rest /\ Rest'
  PROVE  [Lifecycle!Next]_(Lifecycle!vars)
<1>1. state \in State
  BY DEF IInv, TypeOK
<1> QED
  BY <1>1 DEF Rest, Lifecycle!Next, Lifecycle!Act

LEMMA IdleRests == Orderly /\ IInv /\ RobotInv /\ state = "IDLE" => Rest
BY DEF Orderly, IInv, ThreadInv, NoThread, RobotInv, RestInv

LEMMA StepMaps ==
  ASSUME Orderly, IInv, IInv', RobotInv, RobotInv', TestedInv, [Next]_vars
  PROVE  [Lifecycle!Next]_(Lifecycle!vars)
<1>1. CASE Main \/ MainFault \/ Killed
  <2>1. CASE UNCHANGED <<robot, detected>>
    BY <1>1, <2>1, MainTested, TransitionMaps
  <2>2. CASE UNCHANGED <<state, robot>>
    BY <1>1, <2>2, MainTested, InterferenceMaps
  <2>3. CASE UNCHANGED <<state, detected>>
    <3>1. state' = "IDLE" => Rest'
      BY DEF Orderly, IInv, ThreadInv, NoThread, RobotInv, RestInv
    <3> QED
      BY <2>3, <3>1, IdleRests, ActionMaps
  <2> QED
    BY <1>1, <2>1, <2>2, <2>3, MainTested
<1>2. CASE Wifi \/ \E c \in Commands : Receive(c)
  BY <1>2, WifiTested, TransitionMaps
<1>3. ASSUME NEW t \in Thread, WorkerStep(t) \/ WorkerEvent(t)
      PROVE  [Lifecycle!Next]_(Lifecycle!vars)
  BY <1>3, WorkerTested, ActionMaps
<1>4. CASE UNCHANGED vars \/ \E s \in Sensors : Touch(s)
  BY <1>4, InterferenceMaps DEF vars, Touch
<1> QED
  BY <1>1, <1>2, <1>3, <1>4 DEF Next

\* Without faults and early clients the manager implements the cleaning lifecycle, for any
\* number of threads and any algorithms: the states follow one another as it says until the
\* core loop interferes, and a robot whose state is IDLE never drives nor brushes.
THEOREM ManagerImplementsLifecycle ==
  ASSUME Orderly
  PROVE  Spec => Lifecycle!Init /\ [][Lifecycle!Next]_(Lifecycle!vars)
<1>1. Steady
  BY DEF Orderly, Steady
<1>2. Init => Lifecycle!Init /\ TestedInv
  BY InitTested DEF Init, Lifecycle!Init
<1>3. IInv /\ RobotInv /\ TestedInv /\ [Next]_vars => TestedInv'
  BY NextTested
<1>4. IInv /\ IInv' /\ RobotInv /\ RobotInv' /\ TestedInv /\ [Next]_vars
        => [Lifecycle!Next]_(Lifecycle!vars)
  BY StepMaps
<1>5. Spec => [](IInv /\ RobotInv)
  BY <1>1, RobotInvariance
<1> QED
  BY <1>2, <1>3, <1>4, <1>5, PTL DEF Spec
=============================================================================
