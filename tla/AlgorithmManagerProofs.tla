----------------------- MODULE AlgorithmManagerProofs -----------------------
(***************************************************************************)
(* Safety of AlgorithmManager for any set of threads, commands, sensors    *)
(* and algorithms, with or without A1 faults and early clients.            *)
(***************************************************************************)
EXTENDS AlgorithmManager, TLAPS

\* What the Wi-Fi thread knows about the algorithm threads at each of its labels.
\* (The core loop and the algorithm threads cannot disturb it: they write neither
\* _working_thread nor IDLE.)
ThreadInv ==
  /\ \A t \in Thread : Alive(t) => workingThread = t /\ state # "IDLE"
  /\ pc["wifi"] \in {"startRunning", "startThread", "setIdle"} => workingThread = None
  /\ pc["wifi"] = "startThread" => state # "IDLE"
  /\ pc["wifi"] = "clearThread" => workingThread \in Thread /\ ~Alive(workingThread)
  /\ pc["wifi"] = "algorithmAssign" => NoThread
  /\ pc["wifi"] \in {"setReason", "setPaused", "setRunning", "startRunning"} => state # "STOPPED"

\* Which labels the Wi-Fi thread visits while it serves a stop, and after it.
StopLabel == {"stopCheck", "setStopped", "join", "clearThread", "setIdle"}

RequestInv ==
  /\ request = "stop" => pc["wifi"] \in StopLabel \cup {"ready"}
  /\ request = "stop" /\ reply = "ok" => NoThread /\ pc["wifi"] = "ready"

IInv == TypeOK /\ ThreadInv /\ RequestInv

LEMMA ThreadsAreDistinct ==
  /\ "main" \notin Thread /\ "wifi" \notin Thread /\ None \notin Thread
  /\ "main" \in Callers \cup Thread /\ "wifi" \in Callers \cup Thread
  /\ Thread \subseteq Callers \cup Thread
BY ConstantsAssumption DEF Callers

USE DEF State, Callers, SharedLabel, MainLabel, WifiLabel, ClosedLabel, WorkerLabel, At,
        AllClosed, None, Manual, AllCommands, manager, app, robot

\* Every action moves one thread to one label of its own; start() moves two threads.
LEMMA MainGoto ==
  ASSUME PcTypeOK, NEW label \in MainLabel, Goto("main", label) PROVE PcTypeOK'
BY ThreadsAreDistinct DEF PcTypeOK, Goto

LEMMA WifiGoto ==
  ASSUME PcTypeOK, NEW label \in WifiLabel, Goto("wifi", label) PROVE PcTypeOK'
BY ThreadsAreDistinct DEF PcTypeOK, Goto

LEMMA WorkerGoto ==
  ASSUME PcTypeOK, NEW t \in Thread, NEW label \in WorkerLabel, Goto(t, label) PROVE PcTypeOK'
BY ThreadsAreDistinct DEF PcTypeOK, Goto

\* The others stay where they are.
LEMMA OthersStay ==
  ASSUME PcTypeOK, NEW p \in Callers \cup Thread, NEW label, Goto(p, label)
  PROVE  pc'[p] = label /\ \A q \in (Callers \cup Thread) \ {p} : pc'[q] = pc[q]
<1>1. pc \in [Callers \cup Thread -> MainLabel \cup WifiLabel \cup WorkerLabel]
  BY DEF PcTypeOK
<1> QED
  BY <1>1 DEF Goto

\* start() lets its caller go on and the thread begin.
LEMMA StartGoto ==
  ASSUME PcTypeOK, NEW t \in Thread, pc' = [pc EXCEPT !["wifi"] = "ready", ![t] = "prepare"]
  PROVE  /\ PcTypeOK'
         /\ pc'["wifi"] = "ready" /\ pc'["main"] = pc["main"] /\ pc'[t] = "prepare"
         /\ \A u \in Thread \ {t} : pc'[u] = pc[u]
<1>1. pc \in [Callers \cup Thread -> MainLabel \cup WifiLabel \cup WorkerLabel]
  BY DEF PcTypeOK
<1>2. /\ pc'["wifi"] = "ready" /\ pc'["main"] = pc["main"] /\ pc'[t] = "prepare"
      /\ \A u \in Thread \ {t} : pc'[u] = pc[u]
  BY <1>1, ThreadsAreDistinct
<1>3. "ready" \in WifiLabel /\ "prepare" \in WorkerLabel
  OBVIOUS
<1> HIDE DEF MainLabel, WifiLabel, WorkerLabel
<1>4. pc' \in [Callers \cup Thread -> MainLabel \cup WifiLabel \cup WorkerLabel]
  BY <1>1, <1>3
<1> QED
  BY <1>2, <1>3, <1>4 DEF PcTypeOK

LEMMA CallerGoto ==
  ASSUME PcTypeOK, NEW p \in Callers, NEW label \in SharedLabel \cup {Returns(p), Raises(p)},
         Goto(p, label)
  PROVE PcTypeOK'
BY MainGoto, WifiGoto DEF Returns, Raises

LEMMA InitIInv == Init => IInv
<1> SUFFICES ASSUME Init PROVE IInv
  OBVIOUS
<1>1. TypeOK
  BY ThreadsAreDistinct DEF Init, TypeOK, PcTypeOK
<1>2. ThreadInv
  BY ThreadsAreDistinct DEF Init, ThreadInv, Alive
<1>3. RequestInv
  BY DEF Init, RequestInv
<1>4. QED
  BY <1>1, <1>2, <1>3 DEF IInv
-----------------------------------------------------------------------------
(* Type correctness, one step per action.                                   *)

LEMMA CallerTypes ==
  ASSUME TypeOK, NEW p \in Callers, PauseOrResume(p) PROVE TypeOK'
<1>1. CASE PauseCheck(p)
  BY <1>1, CallerGoto DEF PauseCheck, CheckState, Answer, TypeOK
<1>2. CASE PauseSetReason(p)
  BY <1>2, CallerGoto DEF PauseSetReason, GivenReason, TypeOK
<1>3. CASE PauseSetState(p)
  BY <1>3, CallerGoto DEF PauseSetState, Answer, TypeOK
<1>4. CASE ResumeCheck(p)
  BY <1>4, CallerGoto DEF ResumeCheck, CheckState, Answer, TypeOK
<1>5. CASE ResumeSetState(p)
  BY <1>5, CallerGoto DEF ResumeSetState, Answer, TypeOK
<1>6. QED
  BY <1>1, <1>2, <1>3, <1>4, <1>5 DEF PauseOrResume

LEMMA WifiTypes ==
  ASSUME TypeOK, Wifi \/ \E c \in Commands : Receive(c) PROVE TypeOK'
<1> USE DEF WifiUnchanged
<1>1. ASSUME NEW c \in Commands, Receive(c) PROVE TypeOK'
  <2>1. shutdownAsked' \in BOOLEAN /\ request' \in Commands \cup {None}
        /\ reply' \in {None, "ok", "error"}
    BY <1>1 DEF Receive, TypeOK
  <2>2. CASE c = "shutdown"
    BY <1>1, <2>1, <2>2 DEF Receive, TypeOK, PcTypeOK
  <2>3. CASE c # "shutdown"
    <3>1. FirstLabel(c) \in WifiLabel
      BY <2>3, ConstantsAssumption DEF FirstLabel
    <3>2. PcTypeOK'
      BY <1>1, <2>3, <3>1, WifiGoto DEF Receive, TypeOK
    <3>3. QED
      BY <1>1, <2>1, <3>2 DEF Receive, TypeOK
  <2>4. QED
    BY <2>2, <2>3
<1>2. CASE PauseOrResume("wifi")
  BY <1>2, CallerTypes
<1>3. CASE StartCheck
  BY <1>3, WifiGoto DEF StartCheck, Answer, TypeOK
<1>4. CASE StartSetRunning
  BY <1>4, WifiGoto DEF StartSetRunning, TypeOK
<1>5. ASSUME NEW t \in Thread, StartThread(t) PROVE TypeOK'
  <2>1. pc' = [pc EXCEPT !["wifi"] = "ready", ![t] = "prepare"]
    BY <1>5 DEF StartThread
  <2>2. PcTypeOK'
    BY <2>1, StartGoto DEF TypeOK
  <2>3. QED
    BY <1>5, <2>2 DEF StartThread, Answer, TypeOK
<1>6. CASE StopCheck
  BY <1>6, WifiGoto DEF StopCheck, Answer, TypeOK
<1>7. CASE StopSetStopped
  BY <1>7, WifiGoto DEF StopSetStopped, TypeOK
<1>8. CASE StopJoin
  BY <1>8, WifiGoto DEF StopJoin, Answer, TypeOK
<1>9. CASE StopClearThread
  BY <1>9, WifiGoto DEF StopClearThread, TypeOK
<1>10. CASE StopSetIdle
  BY <1>10, WifiGoto DEF StopSetIdle, Answer, TypeOK
<1>11. CASE AlgorithmCheck
  BY <1>11, WifiGoto DEF AlgorithmCheck, Answer, TypeOK
<1>12. ASSUME NEW a \in Algorithms, AlgorithmAssign(a) PROVE TypeOK'
  BY <1>12, WifiGoto DEF AlgorithmAssign, Answer, TypeOK
<1>13. QED
  BY <1>1, <1>2, <1>3, <1>4, <1>5, <1>6, <1>7, <1>8, <1>9, <1>10, <1>11, <1>12 DEF Wifi

LEMMA MainTypes ==
  ASSUME TypeOK, Main \/ MainFault \/ Killed PROVE TypeOK'
<1> USE DEF MainUnchanged
<1>1. CASE PauseOrResume("main")
  BY <1>1, CallerTypes
<1>2. CASE BootCheck
  BY <1>2, MainGoto DEF BootCheck, TypeOK
<1>3. ASSUME NEW a \in Algorithms, BootAssign(a) PROVE TypeOK'
  BY <1>3, MainGoto DEF BootAssign, TypeOK
<1>4. CASE LoopSeesShutdown \/ LoopNotRunning \/ ElifPaused
  BY <1>4, MainGoto DEF LoopSeesShutdown, LoopNotRunning, ElifPaused, TypeOK
<1>5. CASE LoopSeesOpen
  BY <1>5, MainGoto DEF LoopSeesOpen, TypeOK
<1>6. CASE DisableMotors \/ ArmPowerCut \/ OsShutdown
  BY <1>6, MainGoto DEF DisableMotors, ArmPowerCut, OsShutdown, TypeOK
<1>7. CASE MainFault \/ Killed
  BY <1>7, MainGoto DEF MainFault, Killed, TypeOK
<1>8. QED
  BY <1>1, <1>2, <1>3, <1>4, <1>5, <1>6, <1>7 DEF Main

LEMMA WorkerTypes ==
  ASSUME TypeOK, NEW t \in Thread, WorkerStep(t) \/ WorkerEvent(t)
  PROVE TypeOK'
<1> USE DEF WorkerUnchanged
<1>1. \A label : Aim(label).wheels \in {"still", "moving"}
                /\ Aim(label).motors \in {"off", "idling", "cleaning"}
  BY DEF Aim, TypeOK
<1>2. CASE JobDone(t)
  <2>1. AfterJob(pc[t]) \in WorkerLabel
    BY <1>2 DEF JobDone, JobLabel, AfterJob
  <2>2. wheels' \in {"still", "moving"} /\ motors' \in {"off", "idling", "cleaning"}
    BY <1>1, <1>2 DEF JobDone, TypeOK
  <2>3. QED
    BY <1>2, <2>1, <2>2, WorkerGoto DEF JobDone, TypeOK
<1>3. CASE JobRaises(t)
  <2>1. wheels' \in {"still", "moving"} /\ motors' \in {"off", "idling", "cleaning"}
    BY <1>1, <1>3 DEF JobRaises, TypeOK
  <2>2. PcTypeOK'
    BY <1>3, WorkerGoto DEF JobRaises, TypeOK
  <2>3. QED
    BY <1>3, <2>1, <2>2 DEF JobRaises, TypeOK
<1>4. CASE OuterTest(t) \/ InnerBreak(t) \/ CorrectSpeed(t) \/ AfterLoop(t) \/ CheckStop(t)
  <2>1. CASE OuterTest(t) \/ InnerBreak(t)
    BY <2>1, WorkerGoto DEF OuterTest, InnerBreak, TypeOK
  <2>2. CASE CorrectSpeed(t) \/ AfterLoop(t) \/ CheckStop(t)
    BY <2>2, WorkerGoto DEF CorrectSpeed, AfterLoop, CheckStop, TypeOK
  <2>3. QED
    BY <1>4, <2>1, <2>2
<1>5. CASE Obstacle(t) \/ WayIsClear(t)
  BY <1>5, WorkerGoto DEF Obstacle, WayIsClear, TypeOK
<1>6. CASE Unpark(t)
  BY <1>6, WorkerGoto DEF Unpark, TypeOK
<1>7. QED
  BY <1>2, <1>3, <1>4, <1>5, <1>6 DEF WorkerStep, WorkerEvent

LEMMA NextTypes == TypeOK /\ [Next]_vars => TypeOK'
<1> SUFFICES ASSUME TypeOK, [Next]_vars PROVE TypeOK'
  OBVIOUS
<1>1. ASSUME NEW s \in Sensors, Touch(s) PROVE TypeOK'
  BY <1>1, ConstantsAssumption DEF Touch, TypeOK, PcTypeOK
<1>2. CASE UNCHANGED vars
  BY <1>2 DEF vars, TypeOK, PcTypeOK
<1>3. QED
  BY <1>1, <1>2, WifiTypes, MainTypes, WorkerTypes DEF Next

\* The types of every variable, whatever the threads do to each other.
THEOREM TypeCorrect == Spec => []TypeOK
<1>1. Init => TypeOK
  BY InitIInv DEF IInv
<1>2. QED
  BY <1>1, NextTypes, PTL DEF Spec
-----------------------------------------------------------------------------
(* The invariant: steps of the core loop, the algorithm threads and the     *)
(* user first, then one lemma per method the Wi-Fi thread is in.            *)

\* Nothing but start() gives life to a thread, nothing but stop() writes IDLE or STOPPED.
LEMMA OthersKeep ==
  ASSUME IInv, UNCHANGED <<workingThread, app>>, pc'["wifi"] = pc["wifi"],
         state' \in {"IDLE", "STOPPED"} => state' = state,
         \A t \in Thread : Alive(t)' => Alive(t)
  PROVE ThreadInv' /\ RequestInv'
<1>1. ThreadInv'
  <2>1. \A t \in Thread : Alive(t)' => workingThread' = t /\ state' # "IDLE"
    BY DEF IInv, ThreadInv
  <2>2. pc'["wifi"] = "startThread" => state' # "IDLE"
    BY DEF IInv, ThreadInv
  <2>3. pc'["wifi"] \in {"startRunning", "startThread", "setIdle"} => workingThread' = None
    BY DEF IInv, ThreadInv
  <2>4. pc'["wifi"] = "clearThread" => workingThread' \in Thread /\ ~Alive(workingThread)'
    BY DEF IInv, ThreadInv, Alive
  <2>5. pc'["wifi"] = "algorithmAssign" => NoThread'
    BY DEF IInv, ThreadInv, NoThread
  <2>6. pc'["wifi"] \in {"setReason", "setPaused", "setRunning", "startRunning"}
          => state' # "STOPPED"
    BY DEF IInv, ThreadInv
  <2>7. QED
    BY <2>1, <2>2, <2>3, <2>4, <2>5, <2>6 DEF ThreadInv
<1>2. RequestInv'
  BY DEF IInv, RequestInv, NoThread
<1>3. QED
  BY <1>1, <1>2

\* A step of the main thread moves no other thread.
LEMMA MainAlone ==
  ASSUME PcTypeOK, NEW label, Goto("main", label)
  PROVE pc'["wifi"] = pc["wifi"] /\ \A t \in Thread : Alive(t)' => Alive(t)
BY ThreadsAreDistinct DEF PcTypeOK, Goto, Alive

\* A step of the Wi-Fi thread moves no other thread, unless it starts one.
LEMMA WifiAlone ==
  ASSUME PcTypeOK, NEW label, Goto("wifi", label)
  PROVE pc'["wifi"] = label /\ \A t \in Thread : pc'[t] = pc[t]
BY ThreadsAreDistinct DEF PcTypeOK, Goto

LEMMA WorkerAlone ==
  ASSUME PcTypeOK, NEW t \in Thread, Alive(t), NEW label, Goto(t, label)
  PROVE pc'["wifi"] = pc["wifi"] /\ \A u \in Thread : Alive(u)' => Alive(u)
BY ThreadsAreDistinct DEF PcTypeOK, Goto, Alive

LEMMA MainKeeps ==
  ASSUME IInv, Main \/ MainFault \/ Killed PROVE ThreadInv' /\ RequestInv'
<1>1. /\ UNCHANGED <<workingThread, app>>
      /\ state' \in {"IDLE", "STOPPED"} => state' = state
      /\ \E label : Goto("main", label)
  <2> USE DEF MainUnchanged
  <2>1. CASE PauseOrResume("main")
    BY <2>1 DEF PauseOrResume, PauseCheck, PauseSetReason, PauseSetState, ResumeCheck,
                ResumeSetState, CheckState, Answer
  <2>2. CASE BootCheck \/ \E a \in Algorithms : BootAssign(a)
    BY <2>2 DEF BootCheck, BootAssign
  <2>3. CASE LoopSeesShutdown \/ LoopSeesOpen \/ LoopNotRunning \/ ElifPaused
    BY <2>3 DEF LoopSeesShutdown, LoopSeesOpen, LoopNotRunning, ElifPaused
  <2>4. CASE DisableMotors \/ ArmPowerCut \/ OsShutdown \/ MainFault \/ Killed
    BY <2>4 DEF DisableMotors, ArmPowerCut, OsShutdown, MainFault, Killed
  <2>5. QED
    BY <2>1, <2>2, <2>3, <2>4 DEF Main
<1>2. pc'["wifi"] = pc["wifi"] /\ \A t \in Thread : Alive(t)' => Alive(t)
  BY <1>1, MainAlone DEF IInv, TypeOK
<1>3. QED
  BY <1>1, <1>2, OthersKeep

LEMMA WorkerKeeps ==
  ASSUME IInv, NEW t \in Thread, WorkerStep(t) \/ WorkerEvent(t)
  PROVE ThreadInv' /\ RequestInv'
<1>1. UNCHANGED <<manager, app>> /\ Alive(t) /\ \E label : Goto(t, label)
  <2> USE DEF WorkerUnchanged, Alive, JobLabel
  <2>1. CASE JobDone(t) \/ JobRaises(t)
    BY <2>1 DEF JobDone, JobRaises
  <2>2. CASE OuterTest(t) \/ InnerBreak(t) \/ CorrectSpeed(t)
    BY <2>2 DEF OuterTest, InnerBreak, CorrectSpeed
  <2>3. CASE Obstacle(t) \/ WayIsClear(t)
    BY <2>3 DEF Obstacle, WayIsClear
  <2>4. CASE AfterLoop(t) \/ CheckStop(t) \/ Unpark(t)
    BY <2>4 DEF AfterLoop, CheckStop, Unpark
  <2>5. QED
    BY <2>1, <2>2, <2>3, <2>4 DEF WorkerStep, WorkerEvent
<1>2. pc'["wifi"] = pc["wifi"] /\ \A u \in Thread : Alive(u)' => Alive(u)
  BY <1>1, WorkerAlone DEF IInv, TypeOK
<1>3. QED
  BY <1>1, <1>2, OthersKeep

\* A request arrives: it is the Wi-Fi thread's first label that the request selects.
LEMMA ReceiveKeeps ==
  ASSUME IInv, NEW c \in Commands, Receive(c) PROVE ThreadInv' /\ RequestInv'
<1> USE DEF WifiUnchanged
<1>1. UNCHANGED <<state, workingThread>> /\ request' = c
  BY DEF Receive
<1>2. CASE c = "shutdown"
  BY <1>1, <1>2 DEF Receive, IInv, ThreadInv, RequestInv, Alive
<1>3. CASE c # "shutdown"
  <2>1. /\ FirstLabel(c) \in {"pauseCheck", "resumeCheck", "startCheck", "stopCheck",
                              "algorithmCheck"}
        /\ c = "stop" => FirstLabel(c) = "stopCheck"
    BY <1>3, ConstantsAssumption DEF FirstLabel
  <2>2. pc'["wifi"] = FirstLabel(c) /\ reply' = None /\ \A t \in Thread : pc'[t] = pc[t]
    BY <1>3, WifiAlone DEF Receive, IInv, TypeOK
  <2>3. ThreadInv'
    BY <1>1, <2>1, <2>2 DEF IInv, ThreadInv, Alive
  <2>4. RequestInv'
    BY <1>1, <2>1, <2>2 DEF RequestInv, StopLabel
  <2>5. QED
    BY <2>3, <2>4
<1>4. QED
  BY <1>2, <1>3

\* pause() and resume() write PAUSED and RUNNING, and are not called for a stop.
LEMMA PauseOrResumeKeeps ==
  ASSUME IInv, PauseOrResume("wifi") PROVE ThreadInv' /\ RequestInv'
<1>1. /\ pc["wifi"] \in SharedLabel
      /\ UNCHANGED <<workingThread, request>>
      /\ state' \in {"IDLE", "STOPPED"} => state' = state
      /\ \E label \in SharedLabel \cup {"ready"} : Goto("wifi", label)
  <2> USE DEF CheckState, Answer, Returns, Raises
  <2>1. CASE PauseCheck("wifi") \/ ResumeCheck("wifi")
    BY <2>1 DEF PauseCheck, ResumeCheck
  <2>2. CASE PauseSetReason("wifi")
    BY <2>2 DEF PauseSetReason
  <2>3. CASE PauseSetState("wifi") \/ ResumeSetState("wifi")
    BY <2>3 DEF PauseSetState, ResumeSetState
  <2>4. QED
    BY <2>1, <2>2, <2>3 DEF PauseOrResume
<1>2. pc'["wifi"] \in SharedLabel \cup {"ready"} /\ \A t \in Thread : pc'[t] = pc[t]
  BY <1>1, WifiAlone DEF IInv, TypeOK
<1>3. pc'["wifi"] \in {"setReason", "setPaused", "setRunning"} => state' # "STOPPED"
  <2>1. \A label : Goto("wifi", label) => pc'["wifi"] = label
    BY WifiAlone DEF IInv, TypeOK
  <2>2. CASE PauseCheck("wifi")
    BY <2>1, <2>2 DEF PauseCheck, CheckState, Raises
  <2>3. CASE ResumeCheck("wifi")
    BY <2>1, <2>3 DEF ResumeCheck, CheckState, Raises
  <2>4. CASE PauseSetReason("wifi")
    BY <2>1, <2>4 DEF PauseSetReason, IInv, ThreadInv
  <2>5. CASE PauseSetState("wifi") \/ ResumeSetState("wifi")
    BY <2>1, <2>5 DEF PauseSetState, ResumeSetState, Returns
  <2>6. QED
    BY <2>2, <2>3, <2>4, <2>5 DEF PauseOrResume
<1>4. request' # "stop"
  BY <1>1 DEF IInv, RequestInv, StopLabel
<1>5. QED
  BY <1>1, <1>2, <1>3, <1>4 DEF IInv, ThreadInv, RequestInv, Alive

\* start(): the state is not IDLE any more when the thread comes to life.
LEMMA StartKeeps ==
  ASSUME IInv, StartCheck \/ StartSetRunning \/ \E t \in Thread : StartThread(t)
  PROVE ThreadInv' /\ RequestInv'
<1> USE DEF WifiUnchanged
<1>1. request # "stop" /\ request' = request
  BY DEF StartCheck, StartSetRunning, StartThread, Answer, IInv, RequestInv, StopLabel
<1>2. RequestInv'
  BY <1>1 DEF RequestInv
<1>3. CASE StartCheck
  <2>1. /\ pc'["wifi"] \in {"startRunning", "ready"} /\ \A t \in Thread : pc'[t] = pc[t]
        /\ pc'["wifi"] = "startRunning" => workingThread = None /\ state = "IDLE"
    BY <1>3, WifiAlone DEF StartCheck, IInv, TypeOK
  <2>2. QED
    BY <1>2, <1>3, <2>1 DEF StartCheck, IInv, ThreadInv, Alive
<1>4. CASE StartSetRunning
  <2>1. pc'["wifi"] = "startThread" /\ \A t \in Thread : pc'[t] = pc[t]
    BY <1>4, WifiAlone DEF StartSetRunning, IInv, TypeOK
  <2>2. QED
    BY <1>2, <1>4, <2>1 DEF StartSetRunning, IInv, ThreadInv, Alive
<1>5. ASSUME NEW t \in Thread, StartThread(t) PROVE ThreadInv'
  <2>1. \A u \in Thread : ~Alive(u)
    BY <1>5, ThreadsAreDistinct DEF StartThread, IInv, ThreadInv
  <2>2. pc'["wifi"] = "ready" /\ \A u \in Thread : u # t => pc'[u] = pc[u]
    BY <1>5, ThreadsAreDistinct DEF StartThread, IInv, TypeOK, PcTypeOK
  <2>3. workingThread' = t /\ state' # "IDLE"
    BY <1>5 DEF StartThread, IInv, ThreadInv
  <2>4. QED
    BY <2>1, <2>2, <2>3 DEF ThreadInv, Alive
<1>6. QED
  BY <1>2, <1>3, <1>4, <1>5

\* stop(): between the join and IDLE no thread is alive, whoever writes the state.
LEMMA StopKeeps ==
  ASSUME IInv, StopCheck \/ StopSetStopped \/ StopJoin \/ StopClearThread \/ StopSetIdle
  PROVE ThreadInv' /\ RequestInv'
<1> USE DEF WifiUnchanged, StopLabel
<1>1. \A label : Goto("wifi", label) =>
        pc'["wifi"] = label /\ \A t \in Thread : pc'[t] = pc[t]
  BY WifiAlone DEF IInv, TypeOK
<1>2. CASE StopCheck
  BY <1>1, <1>2 DEF StopCheck, Answer, IInv, ThreadInv, RequestInv, Alive
<1>3. CASE StopSetStopped
  BY <1>1, <1>3 DEF StopSetStopped, IInv, ThreadInv, RequestInv, Alive
<1>4. CASE StopJoin
  BY <1>1, <1>4 DEF StopJoin, Answer, IInv, TypeOK, ThreadInv, RequestInv, Alive
<1>5. CASE StopClearThread
  <2>1. NoThread
    BY <1>5 DEF StopClearThread, IInv, ThreadInv, NoThread
  <2>2. QED
    BY <1>1, <1>5, <2>1 DEF StopClearThread, IInv, ThreadInv, RequestInv, NoThread, Alive
<1>6. CASE StopSetIdle
  <2>1. NoThread
    BY <1>6, ThreadsAreDistinct DEF StopSetIdle, IInv, ThreadInv, NoThread
  <2>2. QED
    BY <1>1, <1>6, <2>1 DEF StopSetIdle, Answer, IInv, ThreadInv, RequestInv, NoThread, Alive
<1>7. QED
  BY <1>2, <1>3, <1>4, <1>5, <1>6

\* set_algorithm() touches neither the threads nor the state.
LEMMA AlgorithmKeeps ==
  ASSUME IInv, AlgorithmCheck \/ \E a \in Algorithms : AlgorithmAssign(a)
  PROVE ThreadInv' /\ RequestInv'
<1> USE DEF WifiUnchanged
<1>1. /\ UNCHANGED <<state, workingThread, request>> /\ request # "stop"
      /\ \/ Goto("wifi", "algorithmAssign") /\ state = "IDLE"
         \/ Goto("wifi", "ready")
  BY DEF AlgorithmCheck, AlgorithmAssign, Answer, IInv, RequestInv, StopLabel
<1>2. /\ \A t \in Thread : pc'[t] = pc[t]
      /\ \/ pc'["wifi"] = "algorithmAssign" /\ state = "IDLE"
         \/ pc'["wifi"] = "ready"
  BY <1>1, WifiAlone DEF IInv, TypeOK
<1>3. state = "IDLE" => NoThread
  BY DEF IInv, ThreadInv, NoThread
<1>4. QED
  BY <1>1, <1>2, <1>3 DEF IInv, ThreadInv, RequestInv, NoThread, Alive

LEMMA NextIInv == IInv /\ [Next]_vars => IInv'
<1> SUFFICES ASSUME IInv, [Next]_vars PROVE ThreadInv' /\ RequestInv'
  BY NextTypes DEF IInv
<1>1. ASSUME NEW c \in Commands, Receive(c) PROVE ThreadInv' /\ RequestInv'
  BY <1>1, ReceiveKeeps
<1>2. CASE Wifi
  BY <1>2, PauseOrResumeKeeps, StartKeeps, StopKeeps, AlgorithmKeeps DEF Wifi
<1>3. CASE Main \/ MainFault \/ Killed
  BY <1>3, MainKeeps
<1>4. ASSUME NEW t \in Thread, WorkerStep(t) \/ WorkerEvent(t)
      PROVE ThreadInv' /\ RequestInv'
  BY <1>4, WorkerKeeps
<1>5. ASSUME NEW s \in Sensors, Touch(s) PROVE ThreadInv' /\ RequestInv'
  BY <1>5, OthersKeep DEF Touch, Alive
<1>6. CASE UNCHANGED vars
  BY <1>6, OthersKeep DEF vars, Alive
<1>7. QED
  BY <1>1, <1>2, <1>3, <1>4, <1>5, <1>6 DEF Next
-----------------------------------------------------------------------------
LEMMA Invariance == Spec => []IInv
BY InitIInv, NextIInv, PTL DEF Spec

\* At most one algorithm thread drives the robot, for any number of threads, whatever
\* the app asks for, the sensors see, and A1 refuses.
THEOREM Exclusion == Spec => []OneDriver
<1>1. IInv => OneDriver
  BY DEF IInv, ThreadInv, OneDriver, NoThread
<1>2. QED
  BY <1>1, Invariance, PTL

\* When stop is answered with success the algorithm thread has ended, although the core
\* loop may have overwritten STOPPED in the meantime.
THEOREM StoppedIsClosed == Spec => [](request = "stop" /\ reply = "ok" => NoThread)
<1>1. IInv => (request = "stop" /\ reply = "ok" => NoThread)
  BY DEF IInv, RequestInv
<1>2. QED
  BY <1>1, Invariance, PTL

\* No request replaces the algorithm under a thread that runs it.
THEOREM RunningAlgorithmIsKept == Spec => AlgorithmKept
<1>1. IInv /\ [Next]_vars =>
        [~NoThread /\ ~At("main", "bootAssign") => algorithm' = algorithm]_vars
  <2> SUFFICES ASSUME IInv, Next, ~NoThread, pc["main"] # "bootAssign"
               PROVE algorithm' = algorithm
    BY DEF At
  <2>1. CASE Wifi
    <3>1. pc["wifi"] # "algorithmAssign"
      BY DEF IInv, ThreadInv
    <3>2. CASE PauseOrResume("wifi")
      BY <3>2 DEF PauseOrResume, PauseCheck, PauseSetReason, PauseSetState, ResumeCheck,
                  ResumeSetState, CheckState
    <3>3. CASE StartCheck \/ StartSetRunning \/ \E t \in Thread : StartThread(t)
      BY <3>3 DEF StartCheck, StartSetRunning, StartThread
    <3>4. CASE StopCheck \/ StopSetStopped \/ StopJoin \/ StopClearThread \/ StopSetIdle
      BY <3>4 DEF StopCheck, StopSetStopped, StopJoin, StopClearThread, StopSetIdle
    <3>5. QED
      BY <2>1, <3>1, <3>2, <3>3, <3>4 DEF Wifi, AlgorithmCheck, AlgorithmAssign
  <2>2. CASE Main
    <3>1. CASE PauseOrResume("main")
      BY <3>1 DEF PauseOrResume, PauseCheck, PauseSetReason, PauseSetState, ResumeCheck,
                  ResumeSetState, CheckState
    <3>2. QED
      BY <2>2, <3>1 DEF Main, BootCheck, BootAssign, LoopSeesShutdown, LoopSeesOpen,
           LoopNotRunning, ElifPaused, DisableMotors, ArmPowerCut, OsShutdown
  <2>3. ASSUME NEW t \in Thread, WorkerStep(t) \/ WorkerEvent(t) PROVE algorithm' = algorithm
    BY <2>3 DEF WorkerStep, WorkerEvent, WorkerUnchanged, JobDone, JobRaises, OuterTest,
         InnerBreak, CorrectSpeed, Obstacle, WayIsClear, AfterLoop, Unpark, CheckStop
  <2>4. QED
    BY <2>1, <2>2, <2>3 DEF Next, Receive, MainFault, Killed, Touch
<1>2. QED
  BY <1>1, Invariance, PTL DEF Spec, AlgorithmKept

\* An ordered stop ends with the thread closed, or is overwritten by the core loop.
THEOREM OnlyCoreLoopUndoesStop == Spec => StopUndoneOnlyByCoreLoop
<1> DEFINE Undone == \/ state' = "IDLE" /\ NoThread
                     \/ pc["main"] \in {"setPaused", "setRunning"}
<1>1. IInv /\ [Next]_vars => [state = "STOPPED" /\ state' # "STOPPED" => Undone]_vars
  <2> SUFFICES ASSUME IInv, Next, state = "STOPPED", state' # "STOPPED" PROVE Undone
    OBVIOUS
  <2>1. CASE Wifi
    <3>1. pc["wifi"] \notin {"setReason", "setPaused", "setRunning", "startRunning"}
      BY DEF IInv, ThreadInv
    <3>2. ~PauseOrResume("wifi")
      BY <3>1 DEF PauseOrResume, PauseCheck, PauseSetReason, PauseSetState, ResumeCheck,
                  ResumeSetState, CheckState
    <3>3. CASE StopSetIdle
      BY <3>3, ThreadsAreDistinct DEF StopSetIdle, IInv, ThreadInv, NoThread
    <3>4. QED
      BY <2>1, <3>1, <3>2, <3>3 DEF Wifi, StartCheck, StartSetRunning, StartThread, StopCheck,
           StopSetStopped, StopJoin, StopClearThread, AlgorithmCheck, AlgorithmAssign
  <2>2. CASE Main
    <3>1. CASE PauseOrResume("main")
      BY <3>1 DEF PauseOrResume, PauseCheck, PauseSetReason, PauseSetState, ResumeCheck,
                  ResumeSetState, CheckState
    <3>2. QED
      BY <2>2, <3>1 DEF Main, BootCheck, BootAssign, LoopSeesShutdown, LoopSeesOpen,
           LoopNotRunning, ElifPaused, DisableMotors, ArmPowerCut, OsShutdown
  <2>3. ASSUME NEW t \in Thread, WorkerStep(t) \/ WorkerEvent(t) PROVE state' = state
    BY <2>3 DEF WorkerStep, WorkerEvent, WorkerUnchanged, JobDone, JobRaises, OuterTest,
         InnerBreak, CorrectSpeed, Obstacle, WayIsClear, AfterLoop, Unpark, CheckStop
  <2>4. QED
    BY <2>1, <2>2, <2>3 DEF Next, Receive, MainFault, Killed, Touch
<1>2. QED
  BY <1>1, Invariance, PTL DEF Spec, StopUndoneOnlyByCoreLoop
=============================================================================
