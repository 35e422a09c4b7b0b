--------------------------- MODULE PowerController --------------------------
(***************************************************************************)
(* The power controller board (power-controller/src): an Arduino whose     *)
(* loop() serves the power button and the main relay, while the I2C        *)
(* interrupt executes the commands A1 sends. Both write current_status,    *)
(* and loop() tests it in one place and writes it in another.              *)
(***************************************************************************)

VARIABLES
  status,    \* current_status
  relay,     \* "low": the motherboard has no power; "high": it has
  isError,   \* is_error: the button's LEDs blink red and green
  loopAt,    \* where loop() is: "button", "write" or "relay"
  pending    \* what loop() is about to write into current_status

board == <<status, relay, isError, loopAt, pending>>

Status == {"TURNED_OFF", "BOOTING_UP", "TURNED_ON", "SHUTTING_DOWN"}
Press == {"NOTHING", "PRESSED", "LONG_PRESSED"}

BoardInit ==
  /\ status = "TURNED_OFF" /\ relay = "low" /\ isError = FALSE
  /\ loopAt = "button" /\ pending = "TURNED_OFF"

\* Slip: the button's state is written for the status, both are bytes.
WritesPress(press) == IF press = "NOTHING" THEN "unchanged" ELSE press

\* Slip: the robot is on as soon as the button is pressed.
SkipsBootingUp(press) ==
  CASE press = "PRESSED" /\ status = "TURNED_OFF" -> "TURNED_ON"
    [] press = "PRESSED" /\ status = "TURNED_ON" -> "SHUTTING_DOWN"
    [] press = "LONG_PRESSED" -> "TURNED_OFF"
    [] OTHER -> "unchanged"

\* What loop() decides to write when get_button_state() returns press.
Decision(press) ==
  CASE press = "PRESSED" /\ status = "TURNED_OFF" -> "BOOTING_UP"
    [] press = "PRESSED" /\ status = "TURNED_ON" -> "SHUTTING_DOWN"
    [] press = "LONG_PRESSED" -> "TURNED_OFF"
    [] OTHER -> "unchanged"

ReadButton(press) ==
  /\ loopAt = "button"
  /\ IF Decision(press) = "unchanged"
     THEN loopAt' = "relay" /\ UNCHANGED pending
     ELSE loopAt' = "write" /\ pending' = Decision(press)
  /\ UNCHANGED <<status, relay, isError>>

WriteStatus ==
  /\ loopAt = "write"
  /\ status' = pending
  /\ loopAt' = "relay"
  /\ UNCHANGED <<relay, isError, pending>>

\* Slip: the error is not reset with the power.
SetRelayKeepsError ==
  /\ loopAt = "relay"
  /\ loopAt' = "button"
  /\ relay' = CASE status = "TURNED_OFF" -> "low"
                [] status = "SHUTTING_DOWN" -> relay
                [] OTHER -> "high"
  /\ UNCHANGED <<status, pending, isError>>

SetRelay ==
  /\ loopAt = "relay"
  /\ loopAt' = "button"
  /\ relay' = CASE status = "TURNED_OFF" -> "low"
                [] status = "SHUTTING_DOWN" -> relay
                [] OTHER -> "high"
  /\ isError' = (isError /\ status # "TURNED_OFF")
  /\ UNCHANGED <<status, pending>>

\* The transitions a command of A1 may cause.
StatusAfter(command) ==
  CASE command = "SET_BOOTING_UP_STATE" -> "BOOTING_UP"
    [] command = "SET_TURNED_ON_STATE" /\ status = "BOOTING_UP" -> "TURNED_ON"
    [] command = "SET_SHUTTING_DOWN_STATE" /\ status = "TURNED_ON" -> "SHUTTING_DOWN"
    [] command = "SET_TURNED_OFF_STATE" /\ status = "SHUTTING_DOWN" -> "TURNED_OFF"
    [] OTHER -> status

\* on_receive_command, in the I2C interrupt: nothing of loop() runs meanwhile.
OnReceive(command) ==
  /\ status' = StatusAfter(command)
  /\ isError' = CASE command = "SET_ERROR_STATE" -> TRUE
                  [] command = "RESET_ERROR_STATE" -> FALSE
                  [] OTHER -> isError
  /\ UNCHANGED <<relay, loopAt, pending>>

BoardTypeOK ==
  /\ status \in Status /\ relay \in {"low", "high"} /\ isError \in BOOLEAN
  /\ loopAt \in {"button", "write", "relay"} /\ pending \in Status
=============================================================================
