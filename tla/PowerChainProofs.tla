-------------------------- MODULE PowerChainProofs --------------------------
(***************************************************************************)
(* Safety of PowerChain, for any requests of the app, with or without      *)
(* faults of A1, presses at any moment, and however fast the system boots, *)
(* and how PowerChain implements PowerLifecycle.                           *)
(***************************************************************************)
EXTENDS PowerChain, TLAPS

\* What loop() may still write when it has decided: nothing interferes that cuts the
\* power in between, since loop() itself sets the relay.
WriteInv ==
  loopAt = "write" =>
    /\ pending \in {"TURNED_OFF", "BOOTING_UP", "SHUTTING_DOWN"}
    /\ pending = "SHUTTING_DOWN" => relay = "high"

\* An error that was set belongs to a core loop that has failed: what runs since is what was
\* left of its process, or a system that comes up again and will take the error back.
ErrorInv ==
  isError => relay = "high" /\ core \in {"lingering", "dead", "down", "halted", "booting", "init",
                                        "clearError"}

Types == BoardTypeOK /\ ChainTypeOK

IInv == Types /\ PowerBacksStatus /\ WriteInv /\ ErrorInv

USE DEF Status, Press, Loop, Serving, Running, CoreAt, board, chain, process

LEMMA InitIInv == Init => IInv
BY DEF Init, BoardInit, IInv, Types, BoardTypeOK, ChainTypeOK, PowerBacksStatus, WriteInv,
       ErrorInv

\* A command changes the status alone, and the error; A1 has power when it sends one.
LEMMA CommandKeeps ==
  ASSUME BoardTypeOK, PowerBacksStatus, WriteInv, Powered, NEW command, OnReceive(command)
  PROVE BoardTypeOK' /\ PowerBacksStatus' /\ WriteInv'
<1>1. StatusAfter(command) \in Status
  BY DEF StatusAfter, BoardTypeOK
<1>2. (CASE command = "SET_ERROR_STATE" -> TRUE
         [] command = "RESET_ERROR_STATE" -> FALSE
         [] OTHER -> isError) \in BOOLEAN
  BY DEF BoardTypeOK
<1>3. QED
  BY <1>1, <1>2 DEF OnReceive, BoardTypeOK, PowerBacksStatus, WriteInv, Powered

\* Only SET_ERROR_STATE sets the error.
LEMMA ErrorSetByCommand ==
  ASSUME NEW command, OnReceive(command), command # "SET_ERROR_STATE"
  PROVE isError' => isError
BY DEF OnReceive

LEMMA BoardKeeps == IInv /\ Board => IInv'
<1> SUFFICES ASSUME IInv, Board PROVE IInv'
  OBVIOUS
<1> USE DEF IInv, Types, BoardTypeOK, ChainTypeOK, PowerBacksStatus, WriteInv, ErrorInv
<1>1. ASSUME NEW press \in Press, ReadButton(press), UNCHANGED chain PROVE IInv'
  <2>1. /\ Decision(press) \in {"TURNED_OFF", "BOOTING_UP", "SHUTTING_DOWN", "unchanged"}
        /\ Decision(press) = "SHUTTING_DOWN" => status = "TURNED_ON"
    BY DEF Decision
  <2>2. QED
    BY <1>1, <2>1 DEF ReadButton
<1>2. CASE WriteStatus /\ UNCHANGED chain
  BY <1>2 DEF WriteStatus
<1>3. CASE SwitchRelay
  <2>1. CASE status = "TURNED_OFF"
    BY <1>3, <2>1 DEF SwitchRelay, SetRelay
  <2>2. CASE status # "TURNED_OFF"
    <3>1. relay' \in {"low", "high"} /\ (relay = "high" => relay' = "high")
      BY <1>3, <2>2 DEF SwitchRelay, SetRelay
    <3>2. relay' = "low" => relay = "low" /\ status = "SHUTTING_DOWN"
      BY <1>3, <2>2 DEF SwitchRelay, SetRelay
    <3>3. relay' = "high" /\ UNCHANGED <<status, pending>> /\ loopAt' = "button"
      BY <1>3, <3>1, <3>2 DEF SwitchRelay, SetRelay
    <3>4. isError' = isError
      BY <1>3, <2>2 DEF SwitchRelay, SetRelay
    <3>5. CASE relay = "high"
      BY <1>3, <3>3, <3>4, <3>5 DEF SwitchRelay
    <3>6. CASE relay = "low"
      BY <1>3, <3>3, <3>4, <3>6 DEF SwitchRelay
    <3>7. QED
      BY <3>5, <3>6
  <2>3. QED
    BY <2>1, <2>2
<1>4. QED
  BY <1>1, <1>2, <1>3 DEF Board

LEMMA A1Keeps == IInv /\ A1 => IInv'
<1> SUFFICES ASSUME IInv, A1 PROVE IInv'
  OBVIOUS
<1> USE DEF IInv, Types, ChainTypeOK, ErrorInv
<1>1. CASE ReadStatus \/ ReportStatus \/ TimerRunsOut
  <2>1. UNCHANGED <<board, core>>
    BY <1>1 DEF ReadStatus, ReportStatus, TimerRunsOut
  <2>2. ChainTypeOK'
    <3>1. CASE ReportStatus
      <4>1. seen' \in BOOLEAN
        BY <3>1 DEF ReportStatus
      <4>2. QED
        BY <3>1, <4>1 DEF ReportStatus
    <3>2. QED
      BY <1>1, <3>1 DEF ReadStatus, TimerRunsOut, BoardTypeOK
  <2>3. QED
    BY <2>1, <2>2 DEF BoardTypeOK, PowerBacksStatus, WriteInv
<1>2. CASE TurnOff
  <2>1. BoardTypeOK' /\ PowerBacksStatus' /\ WriteInv'
    BY <1>2, CommandKeeps DEF TurnOff
  <2>2. isError' => isError
    BY <1>2, ErrorSetByCommand DEF TurnOff
  <2>3. QED
    BY <1>2, <2>1, <2>2 DEF TurnOff, OnReceive
<1>3. QED
  BY <1>1, <1>2 DEF A1

\* The core's own steps leave the board alone, or send it one command.
LEMMA CoreKeeps == IInv /\ (Core \/ Chance \/ OsReboot) => IInv'
<1> SUFFICES ASSUME IInv, Core \/ Chance \/ OsReboot PROVE IInv'
  OBVIOUS
<1> USE DEF IInv, Types, ErrorInv, CoreGoto, Chance, AfterFailure
<1>1. ChainTypeOK'
  BY DEF Core, LastThreadEnds, JobFails, BeepHangs, AskShutdown, AskReboot, OsReboot, CoreStarts,
         IsInitialized, ClearError, ShutdownTriggered, DisableMotors, SetShuttingDown, SetTimer,
         OsShutdown, OsHalts, OsReboots, LoopFailed, ChainTypeOK
<1>2. CASE UNCHANGED board /\ core \notin {"off", "lingering", "dead", "down", "halted", "booting",
                                          "init", "clearError"}
  BY <1>1, <1>2 DEF BoardTypeOK, PowerBacksStatus, WriteInv
<1>3. CASE UNCHANGED <<board, core>>
  BY <1>1, <1>3 DEF BoardTypeOK, PowerBacksStatus, WriteInv
<1>4. ASSUME UNCHANGED board,
             core' \in {"lingering", "dead", "down", "halted", "booting", "init", "clearError"}
      PROVE  IInv'
  BY <1>1, <1>4 DEF BoardTypeOK, PowerBacksStatus, WriteInv
<1>5. CASE IsInitialized \/ ClearError \/ BeepHangs \/ SetShuttingDown \/ AskReboot
  <2>1. PICK command : /\ OnReceive(command) /\ command # "SET_ERROR_STATE" /\ Powered
                       /\ command = "RESET_ERROR_STATE" \/ core' = core \/ core' = "clearError"
                          \/ core = "led"
    BY <1>5 DEF IsInitialized, ClearError, BeepHangs, SetShuttingDown, AskReboot
  <2>2. BoardTypeOK' /\ PowerBacksStatus' /\ WriteInv'
    BY <2>1, CommandKeeps
  <2>3. isError' => isError /\ command # "RESET_ERROR_STATE"
    BY <2>1, ErrorSetByCommand DEF OnReceive
  <2>4. relay' = relay
    BY <2>1 DEF OnReceive
  <2>5. QED
    BY <1>1, <2>1, <2>2, <2>3, <2>4
<1>6. CASE LoopFailed
  <2>1. BoardTypeOK' /\ PowerBacksStatus' /\ WriteInv'
    BY <1>6, CommandKeeps DEF LoopFailed
  <2>2. relay' = "high" /\ core' \in {"dead", "lingering"}
    BY <1>6 DEF LoopFailed, OnReceive, Powered
  <2>3. QED
    BY <1>1, <2>1, <2>2
<1>7. CASE ShutdownTriggered \/ DisableMotors \/ SetTimer \/ AskShutdown
  BY <1>2, <1>3, <1>7 DEF ShutdownTriggered, DisableMotors, SetTimer, AskShutdown
<1>8. CASE CoreStarts \/ OsShutdown \/ OsHalts \/ OsReboots \/ LastThreadEnds \/ OsReboot
  BY <1>4, <1>8 DEF CoreStarts, OsShutdown, OsHalts, OsReboots, LastThreadEnds, OsReboot
<1>9. CASE JobFails
  BY <1>2, <1>4, <1>9 DEF JobFails
<1>10. QED
  BY <1>5, <1>6, <1>7, <1>8, <1>9 DEF Core

LEMMA NextIInv == IInv /\ [Next]_vars => IInv'
<1> SUFFICES ASSUME IInv, [Next]_vars PROVE IInv'
  OBVIOUS
<1>1. CASE UNCHANGED vars
  BY <1>1 DEF vars, IInv, Types, BoardTypeOK, ChainTypeOK, PowerBacksStatus, WriteInv, ErrorInv
<1>2. QED
  BY <1>1, BoardKeeps, A1Keeps, CoreKeeps DEF Next, Step

LEMMA Invariance == Spec => []IInv
BY InitIInv, NextIInv, PTL DEF Spec

\* The types of every variable of the board, A1 and the core.
THEOREM TypeCorrect == Spec => []TypeOK
<1>1. Init => world \in Worlds
  BY DEF Init
<1>2. world \in Worlds /\ [Next]_vars => (world \in Worlds)'
  BY DEF Next, vars
<1>3. Spec => [](world \in Worlds)
  BY <1>1, <1>2, PTL DEF Spec
<1>4. IInv /\ world \in Worlds => TypeOK
  BY DEF IInv, Types, TypeOK
<1>5. QED
  BY <1>3, <1>4, Invariance, PTL

\* The board never says TURNED_ON or SHUTTING_DOWN of a robot it does not power, whatever
\* A1's commands do between its test of the status and its write, and no core loop runs under
\* the error it shows, whatever is left of the process that failed.
THEOREM BoardShowsTruth == Spec => []ShownIsTrue
<1>1. IInv => ShownIsTrue
  BY DEF IInv, ErrorInv, ErrorMeansNoLoop, ShownIsTrue
<1>2. QED
  BY <1>1, Invariance, PTL

-----------------------------------------------------------------------------
(* The calm world.                                                          *)

\* The Wi-Fi thread does not reboot, and from the moment the timer is set until the power
\* is cut the core's process has ended and the button can only cut the power.
CalmInv ==
  Calm =>
    /\ wifi = "ready"
    /\ timer # "off" =>
         /\ core \in {"shutdown", "down", "halted", "booting"}
         /\ timer = "expired" => core \notin {"shutdown", "down"}
         /\ status \in {"SHUTTING_DOWN", "TURNED_OFF"} /\ relay = "high"
         /\ loopAt = "write" => pending = "TURNED_OFF"

CInv == IInv /\ CalmInv

USE DEF Calm, Requests, A1Faults, PressAtCut, SlowBoot, SlowHalt, NotDone

LEMMA BoardKeepsCalm == IInv /\ CalmInv /\ Board /\ UNCHANGED world => CalmInv'
<1> SUFFICES ASSUME IInv, CalmInv, Board, UNCHANGED world, Calm PROVE CalmInv'
  BY DEF CalmInv
<1> USE DEF CalmInv
<1>1. ASSUME NEW press \in Press, ReadButton(press), UNCHANGED chain,
             press = "PRESSED" /\ status = "TURNED_OFF" /\ relay = "high" => PressAtCut
      PROVE CalmInv'
  <2>1. timer # "off" => Decision(press) \in {"TURNED_OFF", "unchanged"}
    BY <1>1 DEF Decision
  <2>2. QED
    BY <1>1, <2>1 DEF ReadButton
<1>2. CASE WriteStatus /\ UNCHANGED chain
  BY <1>2 DEF WriteStatus
<1>3. CASE SwitchRelay
  BY <1>3 DEF SwitchRelay, SetRelay
<1>4. QED
  BY <1>1, <1>2, <1>3 DEF Board

LEMMA A1KeepsCalm == IInv /\ CalmInv /\ A1 /\ UNCHANGED world => CalmInv'
<1> SUFFICES ASSUME IInv, CalmInv, A1, UNCHANGED world, Calm PROVE CalmInv'
  BY DEF CalmInv
<1> USE DEF CalmInv
<1>1. CASE ReadStatus \/ ReportStatus \/ TimerRunsOut
  BY <1>1 DEF ReadStatus, ReportStatus, TimerRunsOut
<1>2. CASE TurnOff
  BY <1>2 DEF TurnOff, OnReceive, StatusAfter
<1>3. QED
  BY <1>1, <1>2 DEF A1

LEMMA CoreKeepsCalm ==
  IInv /\ CalmInv /\ (Core \/ Chance \/ OsReboot)
       /\ UNCHANGED world
  => CalmInv'
<1> SUFFICES ASSUME IInv, CalmInv, UNCHANGED world, Calm,
                    Core \/ Chance \/ OsReboot
             PROVE CalmInv'
  BY DEF CalmInv
<1> USE DEF CalmInv, CoreGoto
<1>1. CASE Chance \/ OsReboot
  BY <1>1 DEF Chance, LastThreadEnds, JobFails, BeepHangs, AskShutdown, AskReboot, OsReboot
<1>2. CASE CoreStarts
  BY <1>2 DEF CoreStarts, BoardSettled, IInv, Types, ChainTypeOK
<1>3. CASE IsInitialized \/ ClearError \/ SetShuttingDown \/ LoopFailed
  BY <1>3 DEF IsInitialized, ClearError, SetShuttingDown, LoopFailed
<1>4. CASE SetTimer
  BY <1>4 DEF SetTimer, BoardSettled, Powered
<1>5. CASE ShutdownTriggered \/ DisableMotors \/ OsShutdown \/ OsHalts \/ OsReboots
  BY <1>5 DEF ShutdownTriggered, DisableMotors, OsShutdown, OsHalts, OsReboots
<1>6. QED
  BY <1>1, <1>2, <1>3, <1>4, <1>5 DEF Core

LEMMA CalmInvariance == Spec => []CInv
<1>1. Init => CInv
  BY InitIInv DEF CInv, CalmInv, Init
<1>2. CInv /\ [Next]_vars => CInv'
  <2> SUFFICES ASSUME CInv, [Next]_vars PROVE CInv'
    OBVIOUS
  <2>1. IInv'
    BY NextIInv DEF CInv
  <2>2. CASE UNCHANGED vars
    BY <2>1, <2>2 DEF vars, CInv, CalmInv
  <2>3. QED
    BY <2>1, <2>2, BoardKeepsCalm, A1KeepsCalm, CoreKeepsCalm DEF Next, Step, CInv
<1>3. QED
  BY <1>1, <1>2, PTL DEF Spec

\* In a calm world only A1's timer turns the robot off by a command, and it finds the core's
\* process ended: the order of shutting down and cutting the power is kept.
THEOREM CalmCutWaits == Spec => CutAfterCalmShutdown
<1>1. CInv /\ [Next]_vars => [Calm /\ TurnedOffByCommand => core \notin NotDone]_vars
  <2> SUFFICES ASSUME CInv, Next, Calm, TurnedOffByCommand PROVE core \notin NotDone
    OBVIOUS
  <2>1. CASE Board
    BY <2>1 DEF Board, ReadButton, WriteStatus, SwitchRelay, SetRelay, TurnedOffByCommand, CInv, IInv,
               Types, BoardTypeOK
  <2>2. CASE A1
    BY <2>2 DEF A1, ReadStatus, ReportStatus, TimerRunsOut, TurnOff, TurnedOffByCommand, CInv,
               CalmInv
  <2>3. CASE Core \/ Chance \/ OsReboot
    <3>1. UNCHANGED status \/ \E command : OnReceive(command) /\ command # "SET_TURNED_OFF_STATE"
      BY <2>3 DEF Core, Chance, LastThreadEnds, JobFails, BeepHangs, AskShutdown, AskReboot, OsReboot, CoreStarts, IsInitialized,
                  ClearError, ShutdownTriggered, DisableMotors, SetShuttingDown, SetTimer,
                  OsShutdown, OsHalts, OsReboots, LoopFailed
    <3>2. QED
      BY <3>1 DEF OnReceive, StatusAfter, TurnedOffByCommand
  <2>4. QED
    BY <2>1, <2>2, <2>3 DEF Next, Step
<1>2. QED
  BY <1>1, CalmInvariance, PTL DEF Spec, CutAfterCalmShutdown

-----------------------------------------------------------------------------
(* No shutdown gets stuck in the calm world.                                *)

\* Where the core's main thread has told A1 that it is up, and not yet asked for the timer.
Up == {"clearError", "loop", "disable", "led", "timer"}

\* What the board shows at each place of the core, and may still write: the power comes with
\* BOOTING_UP, nothing but the initialised core ends that, and once it has told A1 to shut
\* down the board shows so until the power is cut.
ShownInv ==
  /\ loopAt = "write" /\ pending = "BOOTING_UP" => status = "TURNED_OFF" /\ relay = "low"
  /\ loopAt = "write" /\ pending = "SHUTTING_DOWN" => core \in Up
  /\ relay = "low" => core = "off" /\ status \in {"TURNED_OFF", "BOOTING_UP"}
  /\ relay = "high" => core # "off"
  /\ core \in {"booting", "init"} /\ timer = "off" => status \in {"TURNED_OFF", "BOOTING_UP"}
  /\ core \in Up => status \in {"TURNED_OFF", "TURNED_ON", "SHUTTING_DOWN"}
  /\ core = "timer" => status \in {"TURNED_OFF", "SHUTTING_DOWN"}

\* Before the core has asked for the timer it does not run, afterwards it does (CalmInv says
\* what follows from that), and A1 has never refused it.
StuckInv ==
  Calm =>
    /\ ShownInv
    /\ core \notin {"failed", "lingering", "hung", "dead"}
    /\ core \in {"shutdown", "down", "halted"} => timer # "off"

UpInv == CInv /\ StuckInv

LEMMA BoardKeepsStuck == UpInv /\ Board /\ UNCHANGED world => StuckInv'
<1> SUFFICES ASSUME UpInv, Board, UNCHANGED world, Calm PROVE StuckInv'
  BY DEF StuckInv
<1> USE DEF UpInv, CInv, CalmInv, StuckInv, ShownInv, Up, IInv, Types, BoardTypeOK, ChainTypeOK
<1>1. ASSUME NEW press \in Press, ReadButton(press), UNCHANGED chain,
             press = "PRESSED" /\ status = "TURNED_OFF" /\ relay = "high" => PressAtCut
      PROVE StuckInv'
  <2>1. /\ Decision(press) \in {"TURNED_OFF", "BOOTING_UP", "SHUTTING_DOWN", "unchanged"}
        /\ Decision(press) = "SHUTTING_DOWN" => status = "TURNED_ON"
        /\ Decision(press) = "BOOTING_UP" => status = "TURNED_OFF" /\ relay = "low"
    BY <1>1 DEF Decision
  <2>2. status = "TURNED_ON" => core \in Up
    OBVIOUS
  <2>3. QED
    BY <1>1, <2>1, <2>2 DEF ReadButton
<1>2. CASE WriteStatus /\ UNCHANGED chain
  BY <1>2 DEF WriteStatus, WriteInv
<1>3. CASE SwitchRelay
  BY <1>3 DEF SwitchRelay, SetRelay
<1>4. QED
  BY <1>1, <1>2, <1>3 DEF Board

LEMMA A1KeepsStuck == UpInv /\ A1 /\ UNCHANGED world => StuckInv'
<1> SUFFICES ASSUME UpInv, A1, UNCHANGED world, Calm PROVE StuckInv'
  BY DEF StuckInv
<1> USE DEF UpInv, CInv, CalmInv, StuckInv, ShownInv, Up
<1>1. CASE ReadStatus \/ ReportStatus \/ TimerRunsOut
  BY <1>1 DEF ReadStatus, ReportStatus, TimerRunsOut
<1>2. CASE TurnOff
  BY <1>2 DEF TurnOff, OnReceive, StatusAfter, Powered
<1>3. QED
  BY <1>1, <1>2 DEF A1

LEMMA CoreKeepsStuck ==
  UpInv /\ (Core \/ Chance \/ OsReboot) /\ UNCHANGED world
  => StuckInv'
<1> SUFFICES ASSUME UpInv, UNCHANGED world, Calm,
                    Core \/ Chance \/ OsReboot
             PROVE StuckInv'
  BY DEF StuckInv
<1> USE DEF UpInv, CInv, CalmInv, StuckInv, ShownInv, Up, CoreGoto, Powered, IInv, Types,
            BoardTypeOK, ChainTypeOK
<1>1. CASE Chance \/ OsReboot
  BY <1>1 DEF Chance, LastThreadEnds, JobFails, BeepHangs, AskShutdown, AskReboot, OsReboot
<1>2. CASE CoreStarts
  BY <1>2 DEF CoreStarts, BoardSettled
<1>3. CASE IsInitialized \/ ClearError
  BY <1>3 DEF IsInitialized, ClearError, OnReceive, StatusAfter
<1>4. CASE SetShuttingDown
  BY <1>4 DEF SetShuttingDown, OnReceive, StatusAfter
<1>5. CASE SetTimer
  <2>1. powerState = "SHUTTING_DOWN"
    BY <1>5 DEF SetTimer, BoardSettled
  <2>2. QED
    BY <1>5, <2>1 DEF SetTimer, BoardSettled
<1>6. CASE ShutdownTriggered \/ DisableMotors
  BY <1>6 DEF ShutdownTriggered, DisableMotors
<1>7. CASE OsShutdown \/ OsHalts \/ OsReboots
  BY <1>7 DEF OsShutdown, OsHalts, OsReboots
<1>8. CASE LoopFailed
  BY <1>8 DEF LoopFailed
<1>9. QED
  BY <1>1, <1>2, <1>3, <1>4, <1>5, <1>6, <1>7, <1>8 DEF Core

\* A shutdown by the button is decided while the robot is on, and written before the power
\* can be cut.
LateInv ==
  Calm /\ loopAt = "write" /\ pending = "SHUTTING_DOWN" =>
    status \in {"TURNED_ON", "SHUTTING_DOWN"}

LEMMA NextLate == UpInv /\ LateInv /\ [Next]_vars => LateInv'
<1> SUFFICES ASSUME UpInv, LateInv, [Next]_vars, Calm', loopAt' = "write",
                    pending' = "SHUTTING_DOWN"
             PROVE  (status \in {"TURNED_ON", "SHUTTING_DOWN"})'
  BY DEF LateInv
<1> USE DEF UpInv, CInv, CalmInv, StuckInv, ShownInv, Up, LateInv
<1>1. Calm
  BY DEF Next, vars
<1>2. CASE UNCHANGED board
  BY <1>1, <1>2
<1>3. CASE Board
  <2>1. ASSUME NEW press \in Press, ReadButton(press) PROVE status' = "TURNED_ON"
    BY <2>1, <1>2 DEF ReadButton, Decision
  <2>2. QED
    BY <1>3, <2>1 DEF Board, WriteStatus, SwitchRelay, SetRelay
<1>4. ASSUME NEW command, OnReceive(command),
             command \notin {"SET_TURNED_OFF_STATE", "SET_BOOTING_UP_STATE"}
      PROVE  (status \in {"TURNED_ON", "SHUTTING_DOWN"})'
  BY <1>1, <1>4 DEF OnReceive, StatusAfter
<1>5. CASE TurnOff
  BY <1>1, <1>5 DEF TurnOff, OnReceive
<1>6. CASE A1 /\ ~TurnOff
  BY <1>2, <1>6 DEF A1, ReadStatus, ReportStatus, TimerRunsOut
<1>7. CASE IsInitialized \/ ClearError \/ SetShuttingDown \/ LoopFailed
  BY <1>4, <1>7 DEF IsInitialized, ClearError, SetShuttingDown, LoopFailed
<1>8. CASE CoreStarts \/ ShutdownTriggered \/ DisableMotors \/ SetTimer \/ OsShutdown \/ OsHalts
           \/ OsReboots \/ LastThreadEnds \/ JobFails \/ AskShutdown \/ OsReboot
  BY <1>2, <1>8 DEF CoreStarts, ShutdownTriggered, DisableMotors, SetTimer, OsShutdown, OsHalts,
         OsReboots, LastThreadEnds, JobFails, AskShutdown, OsReboot
<1>9. CASE BeepHangs \/ AskReboot
  BY <1>1, <1>9 DEF BeepHangs, AskReboot
<1>10. QED
  BY <1>2, <1>3, <1>5, <1>6, <1>7, <1>8, <1>9 DEF Next, Step, Core, Chance, vars

LEMMA UpInvariance == Spec => [](UpInv /\ LateInv)
<1>1. Init => UpInv /\ LateInv
  <2>1. Init => CInv
    BY InitIInv DEF CInv, CalmInv, Init
  <2>2. Init => StuckInv /\ LateInv
    BY DEF Init, BoardInit, StuckInv, ShownInv, Up, LateInv
  <2>3. QED
    BY <2>1, <2>2 DEF UpInv
<1>2. UpInv /\ CInv' /\ [Next]_vars => UpInv'
  <2> SUFFICES ASSUME UpInv, CInv', [Next]_vars PROVE StuckInv'
    BY DEF UpInv
  <2>1. CASE UNCHANGED vars
    BY <2>1 DEF vars, UpInv, StuckInv, ShownInv
  <2>2. QED
    BY <2>1, BoardKeepsStuck, A1KeepsStuck, CoreKeepsStuck DEF Next, Step
<1>3. QED
  BY <1>1, <1>2, NextLate, CalmInvariance, PTL DEF Spec

\* In a calm world A1 never refuses the timer, and a shutdown that the board shows is never
\* stuck: the core is still to ask for the timer, or it runs. What is left to TLC is that the
\* ones that can step do.
THEOREM NoShutdownStuck == Spec => []ShutdownUnderWay
<1>1. UpInv => ShutdownUnderWay
  BY DEF UpInv, CInv, CalmInv, StuckInv, ShownInv, Up, ShutdownUnderWay, IInv, Types,
         BoardTypeOK, ChainTypeOK
<1>2. QED
  BY <1>1, UpInvariance, PTL

-----------------------------------------------------------------------------
(* The chain keeps what the power controller's README promises.             *)

USE DEF Power!vars, Power!Phases, Power!Processes, Power!Buttons

LEMMA MappedTypes == Process \in Power!Processes /\ Button \in Power!Buttons
BY DEF Process, Button

\* Where the abstract process is, while the core has power and time.
LEMMA ProcessIs ==
  /\ core = "off" => Process = "none"
  /\ core \notin {"off", "shutdown", "down"} /\ timer # "off" => Process = "over"
  /\ core \in {"shutdown", "down"} => Process = "up"
  /\ core \in {"booting", "init"} /\ timer = "off" => Process = "starting"
  /\ core \in Up /\ timer = "off" => Process = "up"
BY DEF Process, Up

LEMMA ButtonIs ==
  /\ loopAt # "write" => Button = "released"
  /\ loopAt = "write" /\ pending = "TURNED_OFF" => Button = "held"
  /\ loopAt = "write" /\ pending # "TURNED_OFF" => Button = "pressed"
BY DEF Button

LEMMA SameProcess == UNCHANGED <<core, timer>> => Process' = Process
BY DEF Process

LEMMA SameButton == UNCHANGED <<loopAt, pending>> => Button' = Button
BY DEF Button

\* In circumstances that are not calm nothing is promised.
LEMMA DisturbedMaps ==
  ASSUME ~Calm, BoardTypeOK', UNCHANGED world
  PROVE  Power!Next
<1>1. Process' \in Power!Processes /\ Button' \in Power!Buttons
  BY DEF Process, Button
<1>2. ~Calm' /\ status' \in Power!Phases
  BY DEF BoardTypeOK
<1>3. QED
  BY <1>1, <1>2 DEF Power!Next, Power!Anything

\* The button is read between two writes of loop(), and obeyed by the next one.
LEMMA BoardMaps ==
  ASSUME UpInv, LateInv, Calm, Board, UNCHANGED world
  PROVE  [Power!Next]_(Power!vars)
<1> USE DEF UpInv, CInv, CalmInv, StuckInv, ShownInv, Power!Next
<1>1. Calm' = Calm
  OBVIOUS
<1>2. ASSUME NEW press \in Press, ReadButton(press), UNCHANGED chain,
             press = "PRESSED" /\ status = "TURNED_OFF" /\ relay = "high" => PressAtCut
      PROVE  [Power!Next]_(Power!vars)
  <2>1. Process' = Process /\ status' = status
    BY <1>2, SameProcess DEF ReadButton
  <2>2. Button = "released"
    BY <1>2, ButtonIs DEF ReadButton
  <2>3. CASE Decision(press) = "unchanged"
    <3>1. Button' = "released"
      BY <1>2, <2>3 DEF ReadButton, Button
    <3>2. QED
      BY <1>1, <2>1, <2>2, <3>1
  <2>4. CASE press = "LONG_PRESSED"
    <3>1. Button' = "held"
      BY <1>2, <2>4 DEF ReadButton, Button, Decision
    <3>2. QED
      BY <1>1, <2>1, <2>2, <3>1 DEF Power!Press
  <2>5. CASE press = "PRESSED" /\ status \in {"TURNED_ON", "TURNED_OFF"}
    <3>1. Button' = "pressed"
      BY <1>2, <2>5 DEF ReadButton, Button, Decision
    <3>2. status = "TURNED_OFF" => Process = "none"
      BY <1>2, <2>5, ProcessIs DEF IInv, Types, BoardTypeOK
    <3>3. QED
      BY <1>1, <2>1, <2>2, <2>5, <3>1, <3>2 DEF Power!Press
  <2>6. QED
    BY <2>3, <2>4, <2>5 DEF Decision
<1>3. CASE WriteStatus /\ UNCHANGED chain
  <2>1. Process' = Process /\ status' = pending
    BY <1>3, SameProcess DEF WriteStatus
  <2>2. Button' = "released"
    BY <1>3 DEF WriteStatus, Button
  <2>3. CASE pending = "TURNED_OFF"
    <3>1. Button = "held"
      BY <1>3, <2>3, ButtonIs DEF WriteStatus
    <3>2. QED
      BY <1>1, <2>1, <2>2, <2>3, <3>1 DEF Power!ForceOff
  <2>4. CASE pending = "BOOTING_UP"
    <3>1. Button = "pressed" /\ Process = "none" /\ status = "TURNED_OFF"
      BY <1>3, <2>4, ButtonIs, ProcessIs DEF WriteStatus
    <3>2. QED
      BY <1>1, <2>1, <2>2, <2>4, <3>1 DEF Power!SwitchOn
  <2>5. CASE pending = "SHUTTING_DOWN"
    <3>1. Button = "pressed" /\ status \in {"TURNED_ON", "SHUTTING_DOWN"}
      BY <1>3, <2>5, ButtonIs DEF WriteStatus, LateInv
    <3>2. Process = "up"
      BY <1>3, <2>5, ProcessIs DEF WriteStatus
    <3>3. QED
      BY <1>1, <2>1, <2>2, <2>5, <3>1, <3>2 DEF Power!ShutDown
  <2>6. QED
    BY <1>3, <2>3, <2>4, <2>5 DEF WriteStatus, IInv, WriteInv
<1>4. CASE SwitchRelay
  <2>1. Button = "released" /\ Button' = "released" /\ status' = status
    BY <1>4 DEF SwitchRelay, SetRelay, Button
  <2>2. CASE status = "TURNED_OFF"
    <3>1. core' = "off"
      BY <1>4, <2>2 DEF SwitchRelay, SetRelay
    <3>2. Process' = "none"
      BY <3>1 DEF Process
    <3>3. QED
      BY <1>1, <2>1, <2>2, <3>2 DEF Power!LosePower
  <2>3. CASE status # "TURNED_OFF" /\ relay = "low"
    <3>1. status = "BOOTING_UP" /\ Process = "none" /\ timer = "off"
      BY <2>3, ProcessIs
    <3>2. core' = "booting" /\ timer' = timer
      BY <1>4, <2>3, <3>1 DEF SwitchRelay, SetRelay
    <3>3. Process' = "starting"
      BY <3>1, <3>2 DEF Process
    <3>4. QED
      BY <1>1, <2>1, <3>1, <3>3 DEF Power!PowerUp
  <2>4. CASE status # "TURNED_OFF" /\ relay = "high"
    <3>1. relay' = "high"
      BY <1>4, <2>4 DEF SetRelay, SwitchRelay
    <3>2. Process' = Process
      BY <1>4, <2>4, <3>1, SameProcess DEF SwitchRelay
    <3>3. QED
      BY <1>1, <2>1, <3>2
  <2>5. QED
    BY <2>2, <2>3, <2>4 DEF IInv, Types, BoardTypeOK
<1>5. QED
  BY <1>2, <1>3, <1>4 DEF Board

\* A1 cuts the power of a process that is over, and does nothing else.
LEMMA A1Maps ==
  ASSUME UpInv, Calm, A1, UNCHANGED world
  PROVE  [Power!Next]_(Power!vars)
<1> USE DEF UpInv, CInv, CalmInv, StuckInv, ShownInv
<1>1. Calm' = Calm
  OBVIOUS
<1>2. Button' = Button
  BY SameButton DEF A1, ReadStatus, ReportStatus, TimerRunsOut, TurnOff, OnReceive
<1>3. CASE ReadStatus \/ ReportStatus
  BY <1>1, <1>2, <1>3, SameProcess DEF ReadStatus, ReportStatus
<1>4. CASE TimerRunsOut
  <2>1. Process = "over" /\ core' = core /\ timer' = "expired"
    BY <1>4, ProcessIs DEF TimerRunsOut
  <2>2. Process' = "over"
    BY <1>4, <2>1 DEF TimerRunsOut, Process
  <2>3. QED
    BY <1>1, <1>2, <1>4, <2>1, <2>2 DEF TimerRunsOut
<1>5. CASE TurnOff
  <2>1. Process = "over" /\ Process' = Process
    BY <1>5, ProcessIs, SameProcess DEF TurnOff
  <2>2. status' = StatusAfter("SET_TURNED_OFF_STATE")
    BY <1>5 DEF TurnOff, OnReceive
  <2>3. CASE status = "SHUTTING_DOWN"
    BY <1>1, <1>2, <2>1, <2>2, <2>3 DEF StatusAfter, Power!Next, Power!CutOff
  <2>4. CASE status # "SHUTTING_DOWN"
    BY <1>1, <1>2, <2>1, <2>2, <2>4 DEF StatusAfter
  <2>5. QED
    BY <2>3, <2>4
<1>6. QED
  BY <1>3, <1>4, <1>5 DEF A1

\* The core tells that it is up, asks to be shut down, and is over when the system has gone down.
LEMMA CoreMaps ==
  ASSUME UpInv, Calm, UNCHANGED world,
         Core \/ Chance \/ OsReboot
  PROVE  [Power!Next]_(Power!vars)
<1> USE DEF UpInv, CInv, CalmInv, StuckInv, ShownInv, CoreGoto
<1>1. Calm' = Calm
  OBVIOUS
<1>2. Button' = Button
  BY SameButton DEF Core, Chance, LastThreadEnds, JobFails, BeepHangs, AskShutdown, AskReboot, OsReboot, CoreStarts, IsInitialized,
         ClearError, ShutdownTriggered, DisableMotors, SetShuttingDown, SetTimer, OsShutdown,
         OsHalts, OsReboots, LoopFailed, OnReceive
<1>3. CASE LastThreadEnds \/ JobFails \/ BeepHangs \/ AskReboot \/ OsReboot \/ LoopFailed
  BY <1>3 DEF LastThreadEnds, JobFails, BeepHangs, AskReboot, OsReboot, LoopFailed
<1>4. CASE AskShutdown
  BY <1>1, <1>2, <1>4, SameProcess DEF AskShutdown
<1>5. CASE CoreStarts
  <2>1. timer = "off" /\ Process = "starting"
    BY <1>5, ProcessIs DEF CoreStarts, BoardSettled, IInv, Types, ChainTypeOK
  <2>2. Process' = "starting"
    BY <1>5, <2>1 DEF CoreStarts, Process
  <2>3. QED
    BY <1>1, <1>2, <1>5, <2>1, <2>2 DEF CoreStarts
<1>6. CASE IsInitialized
  <2>1. timer = "off" /\ Process = "starting" /\ status \in {"BOOTING_UP", "TURNED_OFF"}
    BY <1>6, ProcessIs DEF IsInitialized
  <2>2. Process' = "up"
    BY <1>6, <2>1 DEF IsInitialized, Process
  <2>3. status' = IF status = "BOOTING_UP" THEN "TURNED_ON" ELSE status
    BY <1>6 DEF IsInitialized, OnReceive, StatusAfter
  <2>4. QED
    BY <1>1, <1>2, <2>1, <2>2, <2>3 DEF Power!Next, Power!CameUp
<1>7. CASE ClearError \/ ShutdownTriggered \/ DisableMotors
  <2>1. /\ core \in {"clearError", "loop", "disable"} /\ core' \in {"loop", "disable", "led"}
        /\ timer' = timer /\ status' = status
    BY <1>7 DEF ClearError, ShutdownTriggered, DisableMotors, OnReceive, StatusAfter
  <2>2. timer = "off"
    BY <2>1
  <2>3. Process = "up" /\ Process' = "up"
    BY <2>1, <2>2 DEF Process
  <2>4. QED
    BY <1>1, <1>2, <2>1, <2>3
<1>8. CASE SetShuttingDown
  <2>1. core = "led" /\ core' = "timer" /\ timer = "off" /\ timer' = "off"
    BY <1>8 DEF SetShuttingDown
  <2>2. Process = "up" /\ Process' = "up"
    BY <2>1 DEF Process
  <2>3. status' = IF status = "TURNED_ON" THEN "SHUTTING_DOWN" ELSE status
    BY <1>8 DEF SetShuttingDown, OnReceive, StatusAfter
  <2>4. QED
    BY <1>1, <1>2, <2>2, <2>3 DEF Power!Next, Power!ShutDown
<1>9. CASE SetTimer
  <2>1. powerState = "SHUTTING_DOWN"
    BY <1>9 DEF SetTimer, BoardSettled, Up
  <2>2. core = "timer" /\ core' = "shutdown" /\ timer = "off"
    BY <1>9, <2>1 DEF SetTimer
  <2>3. Process = "up" /\ Process' = "up"
    BY <2>2 DEF Process
  <2>4. QED
    BY <1>1, <1>2, <1>9, <2>3 DEF SetTimer
<1>10. CASE OsShutdown
  <2>1. Process = "up" /\ Process' = "up"
    BY <1>10, ProcessIs DEF OsShutdown, Process
  <2>2. QED
    BY <1>1, <1>2, <1>10, <2>1 DEF OsShutdown
<1>11. CASE OsHalts
  <2>1. core = "down" /\ core' = "halted" /\ timer # "off" /\ timer' = timer
    BY <1>11 DEF OsHalts
  <2>2. Process = "up" /\ Process' = "over"
    BY <2>1 DEF Process
  <2>3. status = "SHUTTING_DOWN" /\ status' = status /\ Button = "released"
    BY <1>11, <2>1, ButtonIs DEF OsHalts, BoardSettled
  <2>4. QED
    BY <1>1, <1>2, <2>2, <2>3 DEF Power!Next, Power!Finish
<1>12. CASE OsReboots
  <2>1. /\ core = "halted" /\ core' = "booting"
        /\ timer # "off" /\ timer' = timer /\ status' = status
    BY <1>12 DEF OsReboots
  <2>2. Process = "over" /\ Process' = "over"
    BY <2>1 DEF Process
  <2>3. QED
    BY <1>1, <1>2, <2>1, <2>2
<1>13. QED
  BY <1>3, <1>4, <1>5, <1>6, <1>7, <1>8, <1>9, <1>10, <1>11, <1>12 DEF Core, Chance

\* The board, A1 and the core implement the power controller's promise, in any circumstances:
\* where they are calm every step of theirs is one the promise allows, or none of its steps.
THEOREM ChainImplementsPower == Spec => ImplementsPower
<1>1. Init => Power!Init
  <2>1. Init => Process = "none" /\ Button = "released" /\ status = "TURNED_OFF"
    BY DEF Init, BoardInit, Process, Button
  <2>2. QED
    BY <2>1 DEF Power!Init
<1>2. UpInv /\ LateInv /\ UpInv' /\ [Next]_vars => [Power!Next]_(Power!vars)
  <2> SUFFICES ASSUME UpInv, LateInv, UpInv', [Next]_vars PROVE [Power!Next]_(Power!vars)
    OBVIOUS
  <2>1. CASE UNCHANGED vars
    <3>1. Process' = Process /\ Button' = Button
      BY <2>1, SameProcess, SameButton DEF vars
    <3>2. QED
      BY <2>1, <3>1 DEF vars
  <2>2. CASE Next /\ ~Calm
    <3>1. BoardTypeOK'
      BY DEF UpInv, CInv, IInv, Types
    <3>2. QED
      BY <2>2, <3>1, DisturbedMaps DEF Next
  <2>3. CASE Next /\ Calm
    BY <2>3, BoardMaps, A1Maps, CoreMaps DEF Next, Step
  <2>4. QED
    BY <2>1, <2>2, <2>3
<1>3. QED
  BY <1>1, <1>2, UpInvariance, PTL DEF Spec, ImplementsPower, Power!Spec
=============================================================================
