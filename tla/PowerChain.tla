----------------------------- MODULE PowerChain -----------------------------
(***************************************************************************)
(* Switching the robot on and off: the power controller's board, A1        *)
(* (motherboard/a1), and the core with its operating system. The board     *)
(* feeds the other two through its relay; they reach it through A1 only.   *)
(*                                                                         *)
(* Time is left out but for five facts: what takes seconds (the core's     *)
(* sleeps, the timer, the operating system) outlasts a round of the        *)
(* board's loop(); the core's sleep(5) outlasts a round of A1's loop; its  *)
(* sleep(1) is shorter than the 15 seconds of the timer; if SlowBoot,      *)
(* these 15 seconds end before the operating system has booted again; and, *)
(* unless SlowHalt, not before it has gone down. Nothing in the code sees  *)
(* to the last two.                                                        *)
(* /dev/serial0 has no DTR line: opening the port does not reset A1.       *)
(***************************************************************************)
EXTENDS PowerController

CONSTANT
  Worlds  \* the circumstances to consider

\* requests: the power commands the app sends. a1Faults: may a job of A1 be refused or time
\* out? pressAtCut: may the button be released in the round of loop() that cuts the power?
\* slowBoot: does booting take longer than the timer, with A1's next round? slowHalt: may
\* going down take longer?
ASSUME ChainAssumption ==
  Worlds \subseteq [requests : SUBSET {"shutdown", "reboot"}, a1Faults : BOOLEAN,
                   pressAtCut : BOOLEAN, slowBoot : BOOLEAN, slowHalt : BOOLEAN]

VARIABLES
  world,         \* one of Worlds, which stays
  powerState,    \* A1: PowerController::power_state, the status it read last
  timer,         \* A1: time_to_turn_off: "off", "armed", or in the past ("expired")
  core,          \* where the core's main thread, or the operating system, is
  seen,          \* the core: A1Data.is_shut_down_button_triggered
  asked,         \* the core: _operation_shut_down
  wifi           \* the Wi-Fi thread: "ready", or in _on_reboot ("reboot")

process == <<core, seen, asked, wifi>>
chain == <<powerState, timer, process>>
vars == <<board, chain, world>>

Requests == world.requests
A1Faults == world.a1Faults
PressAtCut == world.pressAtCut
SlowBoot == world.slowBoot
SlowHalt == world.slowHalt

\* The core's process serves the Wi-Fi from the end of its initialisation until it ends:
\* not with the core loop, as long as an algorithm or a pairing thread is alive
\* ("lingering"). "hung": waiting for ever for the answer to the beep.
Loop == {"loop", "disable", "led", "timer", "shutdown"}
Serving == Loop \cup {"failed", "lingering"}
Running == {"init", "clearError", "hung"} \cup Serving
CoreAt == Running \cup {"off", "booting", "down", "halted", "dead"}

Init ==
  /\ world \in Worlds
  /\ BoardInit
  /\ powerState = "TURNED_OFF" /\ timer = "off"
  /\ core = "off" /\ seen = FALSE /\ asked = FALSE /\ wifi = "ready"

-----------------------------------------------------------------------------
(* The board. Without power A1 and the core lose all they know.             *)

SwitchRelay ==
  /\ SetRelay
  /\ CASE relay' = "low" ->
            /\ powerState' = "TURNED_OFF" /\ timer' = "off"
            /\ core' = "off" /\ seen' = FALSE /\ asked' = FALSE /\ wifi' = "ready"
       [] relay = "low" /\ relay' = "high" ->
            core' = "booting" /\ UNCHANGED <<powerState, timer, seen, asked, wifi>>
       [] OTHER -> UNCHANGED chain

Board ==
  \/ \E press \in Press :
       /\ press = "PRESSED" /\ status = "TURNED_OFF" /\ relay = "high" => PressAtCut
       /\ ReadButton(press)
       /\ UNCHANGED chain
  \/ WriteStatus /\ UNCHANGED chain
  \/ SwitchRelay

Powered == relay = "high"

\* loop() has written what it decided, and acted on it: so it is found by what takes
\* seconds.
BoardSettled == Powered /\ loopAt # "write" /\ status # "TURNED_OFF"

-----------------------------------------------------------------------------
(* A1.                                                                      *)

\* PowerController::tick reads the board's status.
ReadStatus ==
  /\ Powered
  /\ powerState' = status
  /\ UNCHANGED <<board, timer, process>>

\* The sensor outputs reach the core's process, if there is one.
ReportStatus ==
  /\ Powered /\ core \in Running
  /\ seen' = (powerState = "SHUTTING_DOWN")
  /\ UNCHANGED <<board, powerState, timer, core, asked, wifi>>

\* Slip: the timer's milliseconds overflow, so that it lies in the past.
TimerInThePast ==
  /\ BoardSettled /\ timer = "armed"
  /\ timer' = "expired"
  /\ UNCHANGED <<board, powerState, process>>

\* The core waits 1 second more before it goes on, so the timer does not run out before.
TimerRunsOut ==
  /\ BoardSettled /\ timer = "armed" /\ core # "shutdown"
  /\ core = "down" => SlowHalt \/ ~SlowBoot
  /\ timer' = "expired"
  /\ UNCHANGED <<board, powerState, process>>

\* In every round of A1's loop from then on: nothing resets time_to_turn_off.
TurnOff ==
  /\ Powered /\ timer = "expired"
  /\ OnReceive("SET_TURNED_OFF_STATE")
  /\ UNCHANGED chain

A1 == ReadStatus \/ ReportStatus \/ TimerRunsOut \/ TurnOff

-----------------------------------------------------------------------------
(* The core. A job of A1 is executed while the core waits for its answer.   *)

CoreGoto(from, to) == Powered /\ core = from /\ core' = to

CoreStarts ==
  /\ BoardSettled
  /\ CoreGoto("booting", "init")
  /\ SlowBoot => timer # "armed" /\ ~(timer = "expired" /\ status = "SHUTTING_DOWN")
  /\ seen' = FALSE /\ asked' = FALSE /\ wifi' = "ready"
  /\ UNCHANGED <<board, powerState, timer>>

\* Slip: the initialised core is not reported to A1.
IsInitializedUnsaid ==
  /\ CoreGoto("init", "clearError")
  /\ UNCHANGED board
  /\ UNCHANGED <<powerState, timer, seen, asked, wifi>>

IsInitialized ==
  /\ CoreGoto("init", "clearError")
  /\ OnReceive("SET_TURNED_ON_STATE")
  /\ UNCHANGED <<powerState, timer, seen, asked, wifi>>

\* Slip: the error of an earlier life is not taken back.
ErrorNotCleared ==
  /\ CoreGoto("clearError", "loop")
  /\ UNCHANGED board
  /\ UNCHANGED <<powerState, timer, seen, asked, wifi>>

ClearError ==
  /\ CoreGoto("clearError", "loop")
  /\ OnReceive("RESET_ERROR_STATE")
  /\ UNCHANGED <<powerState, timer, seen, asked, wifi>>

\* Slip: the button is not looked at.
ShutdownByAppOnly ==
  /\ CoreGoto("loop", "disable")
  /\ asked
  /\ UNCHANGED <<board, powerState, timer, seen, asked, wifi>>

ShutdownTriggered ==
  /\ CoreGoto("loop", "disable")
  /\ seen \/ asked
  /\ UNCHANGED <<board, powerState, timer, seen, asked, wifi>>

DisableMotors ==
  /\ CoreGoto("disable", "led")
  /\ UNCHANGED <<board, powerState, timer, seen, asked, wifi>>

SetShuttingDown ==
  /\ CoreGoto("led", "timer")
  /\ OnReceive("SET_SHUTTING_DOWN_STATE")
  /\ UNCHANGED <<powerState, timer, seen, asked, wifi>>

\* Slip: the timer is set without waiting until A1 has read the board's status.
SetTimerAtOnce ==
  /\ Powered
  /\ IF powerState = "SHUTTING_DOWN"
     THEN CoreGoto("timer", "shutdown") /\ timer' = "armed"
     ELSE CoreGoto("timer", "failed") /\ UNCHANGED timer
  /\ UNCHANGED <<board, powerState, seen, asked, wifi>>

\* After sleep(5). on_set_timer_to_turn_off refuses unless A1 has read SHUTTING_DOWN.
SetTimer ==
  /\ BoardSettled /\ powerState = status
  /\ IF powerState = "SHUTTING_DOWN"
     THEN CoreGoto("timer", "shutdown") /\ timer' = "armed"
     ELSE CoreGoto("timer", "failed") /\ UNCHANGED timer
  /\ UNCHANGED <<board, powerState, seen, asked, wifi>>

\* shutdown -r now: the Wi-Fi thread is killed with the rest.
OsShutdown ==
  /\ BoardSettled
  /\ CoreGoto("shutdown", "down")
  /\ wifi' = "ready"
  /\ UNCHANGED <<board, powerState, timer, seen, asked>>

OsHalts ==
  /\ BoardSettled
  /\ CoreGoto("down", "halted")
  /\ UNCHANGED <<board, powerState, timer, seen, asked, wifi>>

OsReboots ==
  /\ BoardSettled
  /\ CoreGoto("halted", "booting")
  /\ UNCHANGED <<board, powerState, timer, seen, asked, wifi>>

\* The core loop has failed: the error state is set, and the process ends if no algorithm
\* or pairing thread is alive.
LoopFailed ==
  /\ \E to \in {"dead", "lingering"} : CoreGoto("failed", to)
  /\ OnReceive("SET_ERROR_STATE")
  /\ wifi' = IF core' = "dead" THEN "ready" ELSE wifi
  /\ UNCHANGED <<powerState, timer, seen, asked>>

LastThreadEnds ==
  /\ CoreGoto("lingering", "dead")
  /\ wifi' = "ready"
  /\ UNCHANGED <<board, powerState, timer, seen, asked>>

\* Where a failing step leaves the main thread, or its process. A failed initialisation ends
\* the process without a word to A1. The command shutdown and set_error_state may fail too.
AfterFailure(from) ==
  CASE from \in {"init", "clearError"} -> {"dead"}
    [] from = "failed" -> {"dead", "lingering"}
    [] OTHER -> {"failed"}

\* A job is not executed, or executed and not answered in time: the step after it fails.
JobFails ==
  /\ A1Faults
  /\ \E from \in Loop \cup {"init", "clearError", "failed"} :
       \E to \in AfterFailure(from) : CoreGoto(from, to)
  /\ wifi' = IF core' = "dead" THEN "ready" ELSE wifi
  /\ UNCHANGED <<board, powerState, timer, seen, asked>>

\* The beep after set_error_state has no timeout: without its answer nothing follows.
BeepHangs ==
  /\ A1Faults
  /\ CoreGoto("clearError", "hung")
  /\ OnReceive("RESET_ERROR_STATE")
  /\ UNCHANGED <<powerState, timer, seen, asked, wifi>>

AskShutdown ==
  /\ "shutdown" \in Requests
  /\ Powered /\ core \in Serving /\ wifi = "ready"
  /\ asked' = TRUE
  /\ UNCHANGED <<board, powerState, timer, core, seen, wifi>>

AskReboot ==
  /\ "reboot" \in Requests
  /\ Powered /\ core \in Serving /\ wifi = "ready"
  /\ \/ wifi' = "reboot" /\ OnReceive("SET_BOOTING_UP_STATE")
     \/ A1Faults /\ UNCHANGED wifi /\ OnReceive("SET_BOOTING_UP_STATE")
  /\ UNCHANGED <<powerState, timer, core, seen, asked>>

OsReboot ==
  /\ wifi = "reboot" /\ core \in Serving
  /\ CoreGoto(core, "down")
  /\ wifi' = "ready"
  /\ UNCHANGED <<board, powerState, timer, seen, asked>>

Core ==
  \/ CoreStarts \/ IsInitialized \/ ClearError
  \/ ShutdownTriggered \/ DisableMotors \/ SetShuttingDown \/ SetTimer
  \/ OsShutdown \/ OsHalts \/ OsReboots \/ LoopFailed

\* What nobody forces to happen.
Chance == LastThreadEnds \/ JobFails \/ BeepHangs \/ AskShutdown \/ AskReboot

Step == Board \/ A1 \/ Core \/ Chance \/ OsReboot

Next == Step /\ UNCHANGED world

Spec == Init /\ [][Next]_vars

(***************************************************************************)
(* Both Arduinos loop for ever, the core's loop does not block on anything *)
(* but A1's answers, and an operating system that goes down or comes up    *)
(* gets there. Nobody has to press the button or send a request, and no    *)
(* thread that keeps a failed core's process alive has to end.             *)
(***************************************************************************)
Fairness ==
  /\ WF_vars(Board /\ UNCHANGED world)
  /\ WF_vars(ReadStatus /\ UNCHANGED world) /\ WF_vars(ReportStatus /\ UNCHANGED world)
  /\ WF_vars(TimerRunsOut /\ UNCHANGED world) /\ WF_vars(TurnOff /\ UNCHANGED world)
  /\ WF_vars(Core /\ UNCHANGED world) /\ WF_vars(OsReboot /\ UNCHANGED world)

FairSpec == Spec /\ Fairness

-----------------------------------------------------------------------------
ChainTypeOK ==
  /\ powerState \in Status /\ timer \in {"off", "armed", "expired"}
  /\ core \in CoreAt /\ seen \in BOOLEAN /\ asked \in BOOLEAN /\ wifi \in {"ready", "reboot"}

TypeOK == world \in Worlds /\ BoardTypeOK /\ ChainTypeOK

\* The board calls the robot on, or shutting down, only while it powers it.
PowerBacksStatus == status \in {"TURNED_ON", "SHUTTING_DOWN"} => relay = "high"

\* While the button shows an error the board powers a core whose loop has failed, and no
\* core loop runs since: not that of the failed core, whose Wi-Fi may serve on and reboot
\* the system, and that of a core that came up after it only once the error is taken back.
ErrorMeansNoLoop == isError => relay = "high" /\ core \notin Loop \cup {"failed", "hung"}

\* What the board shows is true: the status of the power, the error of the core.
ShownIsTrue == PowerBacksStatus /\ ErrorMeansNoLoop

TurnedOffByCommand == status # "TURNED_OFF" /\ status' = "TURNED_OFF" /\ loopAt' = loopAt

\* The operating system of the core has not been halted. (That shutdown -r boots it again
\* before the power is cut does not count: nothing is lost that was not asked to end.)
NotDone == Running \cup {"dead", "down"}

\* "The core starts shutting down. Once it is done, [...] the main power is cutted off"
\* (power-controller/README.md:2): only a long press cuts the power of a core that is not.
CutAfterShutdown == [][TurnedOffByCommand => core \notin NotDone]_vars

\* No faults, no reboots by the app, nobody presses the button at the last moment, and the
\* 15 seconds fall between the operating system's going down and its coming up.
Calm == Requests \subseteq {"shutdown"} /\ ~A1Faults /\ ~PressAtCut /\ SlowBoot /\ ~SlowHalt

\* In a calm world the timer is set anew with every shutdown, and never cuts the power of
\* a core that still runs or goes down.
CutAfterCalmShutdown == [][Calm /\ TurnedOffByCommand => core \notin NotDone]_vars

-----------------------------------------------------------------------------
(* What the board, A1 and the core together promise the user.               *)

\* The process is over when the timer runs and the operating system has gone down.
Process ==
  CASE core = "off" -> "none"
    [] timer # "off" /\ core \notin {"off", "shutdown", "down"} -> "over"
    [] timer = "off" /\ core \in {"booting", "init"} -> "starting"
    [] OTHER -> "up"

Button ==
  CASE loopAt = "write" /\ pending = "TURNED_OFF" -> "held"
    [] loopAt = "write" /\ pending # "TURNED_OFF" -> "pressed"
    [] OTHER -> "released"

Power == INSTANCE PowerLifecycle WITH
  phase <- status, process <- Process, button <- Button, disturbed <- ~Calm

\* In a calm world the chain keeps what the power controller's README promises, as the
\* abstract specification states it; above all, the power is cut only after the process.
ImplementsPower == Power!Spec

\* In a calm world no shutdown gets stuck: A1 never refuses the timer the core asks for,
\* so that the core loop does not fail, and while the board shows a shutdown either the
\* core's main thread is before its request for the timer, or the timer runs.
ShutdownUnderWay ==
  Calm =>
    /\ core \notin {"failed", "lingering", "hung", "dead"}
    /\ status = "SHUTTING_DOWN" =>
         timer # "off" \/ core \in {"clearError", "loop", "disable", "led", "timer"}

\* In a calm world a press of the button, or the app's shutdown, ends with the power off.
ShutdownEndsOff == Calm /\ status = "SHUTTING_DOWN" ~> relay = "low"

\* A core that comes up is taken for on, however it was rebooted.
BootIsAcknowledged ==
  core = "booting" ~> (core \in {"off", "dead"} \/ status # "BOOTING_UP")
=============================================================================
