---------------------------- MODULE PowerLifecycle ----------------------------
(***************************************************************************)
(* What the power controller promises the user (power-controller/README):  *)
(* a press of the button switches the robot on, or makes the core shut     *)
(* down; "once it is done", and not before, the power is cut; a long press *)
(* cuts it at once. In disturbed circumstances nothing is promised.        *)
(***************************************************************************)
VARIABLES
  phase,     \* the status the board shows
  process,   \* of the core: "none" without power, "starting", "up", or "over" when the
             \* operating system has gone down with it
  button,    \* has the board seen it "pressed", or "held" for long, and not yet obeyed?
  disturbed  \* are faults, reboots by the app or presses at the last moment to be expected?

vars == <<phase, process, button, disturbed>>

Phases == {"TURNED_OFF", "BOOTING_UP", "TURNED_ON", "SHUTTING_DOWN"}
Processes == {"none", "starting", "up", "over"}
Buttons == {"released", "pressed", "held"}

Init == /\ phase = "TURNED_OFF" /\ process = "none" /\ button = "released"
        /\ disturbed \in BOOLEAN

Press ==
  /\ button = "released"
  /\ \/ button' = "pressed" /\ (phase = "TURNED_ON" \/ (phase = "TURNED_OFF" /\ process = "none"))
     \/ button' = "held"
  /\ UNCHANGED <<phase, process>>

SwitchOn ==
  /\ button = "pressed" /\ phase = "TURNED_OFF" /\ process = "none"
  /\ phase' = "BOOTING_UP" /\ button' = "released"
  /\ UNCHANGED process

PowerUp ==
  /\ phase = "BOOTING_UP" /\ process = "none"
  /\ process' = "starting"
  /\ UNCHANGED <<phase, button>>

\* The process tells that it is up, too late if the power is about to be cut.
CameUp ==
  /\ process = "starting" /\ phase \in {"BOOTING_UP", "TURNED_OFF"}
  /\ process' = "up"
  /\ phase' = IF phase = "BOOTING_UP" THEN "TURNED_ON" ELSE phase
  /\ UNCHANGED button

\* By the button: the app may have been first. By the app: a press may wait.
ShutDown ==
  /\ process = "up"
  /\ \/ button = "pressed" /\ phase \in {"TURNED_ON", "SHUTTING_DOWN"} /\ button' = "released"
     \/ phase = "TURNED_ON" /\ UNCHANGED button
  /\ phase' = "SHUTTING_DOWN"
  /\ UNCHANGED process

\* Once the process is done no press is left to be obeyed but a long one.
Finish ==
  /\ phase = "SHUTTING_DOWN" /\ process = "up" /\ button # "pressed"
  /\ process' = "over"
  /\ UNCHANGED <<phase, button>>

CutOff ==
  /\ phase = "SHUTTING_DOWN" /\ process = "over"
  /\ phase' = "TURNED_OFF"
  /\ UNCHANGED <<process, button>>

ForceOff ==
  /\ button = "held"
  /\ phase' = "TURNED_OFF" /\ button' = "released"
  /\ UNCHANGED process

LosePower ==
  /\ phase = "TURNED_OFF" /\ button = "released"
  /\ process' = "none"
  /\ UNCHANGED <<phase, button>>

Anything ==
  /\ disturbed
  /\ phase' \in Phases /\ process' \in Processes /\ button' \in Buttons

Next ==
  /\ \/ Press \/ SwitchOn \/ PowerUp \/ CameUp \/ ShutDown \/ Finish
     \/ CutOff \/ ForceOff \/ LosePower \/ Anything
  /\ UNCHANGED disturbed

Spec == Init /\ [][Next]_vars
=============================================================================
