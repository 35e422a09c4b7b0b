--------------------------- MODULE BluetoothService ---------------------------
(***************************************************************************)
(* Bluetooth on the robot: the core loop, which takes the presses of the   *)
(* button and shows the service's events on its LED; the service's thread, *)
(* which switches Bluetooth on and serves one client after the other (what *)
(* it does with one is in RequestService); and the thread that offers      *)
(* pairing for three minutes. They meet in the button's latch, the set of  *)
(* events, the pairing flag and the life of the threads.                   *)
(*                                                                         *)
(* A1 lights what it is told to, or the LED's job fails and the core loop  *)
(* with it. Of the core loop there is what concerns Bluetooth; the rest is *)
(* in AlgorithmManager.                                                    *)
(***************************************************************************)
EXTENDS Naturals

VARIABLES
  button,    \* A1Data._bluetooth_button_click
  core,      \* where the core loop is
  pressed,   \* bl_button, or the event at hand: what the loop is handling
  led,       \* the event whose picture the LED shows
  service,   \* where the service's thread is
  hasThread, \* is there a _pairing_thread?
  pairing,   \* where that thread is
  enabled,   \* _is_paring_process_enabled
  events,    \* BluetoothService.events
  last,      \* the last event emitted (history)
  mixed      \* was there another one waiting then? (history)

vars == <<button, core, pressed, led, service, hasThread, pairing, enabled, events, last, mixed>>
loop == <<button, core, pressed, led>>
history == <<last, mixed>>

Presses == {"nothing", "click", "long"}
Events == {"start", "connected", "disconnected", "startPairing", "finishPairing", "error"}
CoreLabels == {"top", "latch", "again", "click", "long", "pairing", "join", "pop", "show",
               "off", "failed"}
ServiceLabels == {"new", "begin", "enable", "accept", "serve", "raised", "ending", "ended"}
PairingLabels == {"none", "waiting", "paired", "disabled", "ending", "ended"}

Over == core \in {"off", "failed"}

Init ==
  /\ button = "nothing" /\ core = "top" /\ pressed = "nothing" /\ led = "none"
  /\ service = "new" /\ hasThread = FALSE /\ pairing = "none" /\ enabled = FALSE
  /\ events = {} /\ last = "none" /\ mixed = FALSE

\* A set: it keeps neither order nor repetitions.
Emit(event) ==
  /\ events' = events \cup {event}
  /\ last' = event
  /\ mixed' = (events # {})

NoEvent == UNCHANGED <<events, history>>

-----------------------------------------------------------------------------
(* The button: A1 reports its state again and again, the thread that reads   *)
(* A1 latches a press, the core loop takes it.                               *)

\* Slip: what is latched is overwritten.
ReportAnyway ==
  /\ \E state \in Presses : button' = state
  /\ UNCHANGED <<core, pressed, led, service, hasThread, pairing, enabled, events, history>>

Report ==
  /\ button = "nothing"
  /\ \E state \in Presses : button' = state
  /\ UNCHANGED <<core, pressed, led, service, hasThread, pairing, enabled, events, history>>

Goto(label) == core' = label

Shutdown ==
  /\ core = "top"
  /\ Goto("off")
  /\ UNCHANGED <<button, pressed, led, service, hasThread, pairing, enabled, events, history>>

Turn ==
  /\ core = "top"
  /\ Goto("latch")
  /\ UNCHANGED <<button, pressed, led, service, hasThread, pairing, enabled, events, history>>

TakePress ==
  /\ core = "latch"
  /\ IF button # "nothing"
     THEN button' = "nothing" /\ pressed' = button /\ Goto("click")
     ELSE Goto("again") /\ UNCHANGED <<button, pressed>>
  /\ UNCHANGED <<led, service, hasThread, pairing, enabled, events, history>>

\* Having found nothing, the property reads the latch once more: what has come by then is
\* returned, and stays latched.
ReadAgain ==
  /\ core = "again"
  /\ pressed' = button
  /\ Goto("click")
  /\ UNCHANGED <<button, led, service, hasThread, pairing, enabled, events, history>>

-----------------------------------------------------------------------------
(* The core loop.                                                           *)

is_alive == service \notin {"new", "ended"}

\* Thread.start: only once in a thread's life.
StartAnd(label) ==
  IF service = "new" THEN service' = "begin" /\ Goto(label)
  ELSE Goto("failed") /\ UNCHANGED service

Click ==
  /\ core = "click"
  /\ IF pressed = "click" /\ ~is_alive THEN StartAnd("long")
     ELSE Goto("long") /\ UNCHANGED service
  /\ UNCHANGED <<button, pressed, led, hasThread, pairing, enabled, events, history>>

\* Slip: whether pairing is going on is not asked.
LongPressAnyway ==
  /\ core = "long"
  /\ IF pressed = "long" THEN IF ~is_alive THEN StartAnd("pairing")
                              ELSE Goto("pairing") /\ UNCHANGED service
     ELSE Goto("pop") /\ UNCHANGED service
  /\ UNCHANGED <<button, pressed, led, hasThread, pairing, enabled, events, history>>

LongPress ==
  /\ core = "long"
  /\ IF pressed = "long" /\ ~enabled
     THEN IF ~is_alive THEN StartAnd("pairing") ELSE Goto("pairing") /\ UNCHANGED service
     ELSE Goto("pop") /\ UNCHANGED service
  /\ UNCHANGED <<button, pressed, led, hasThread, pairing, enabled, events, history>>

\* enable_pairing: with a thread of an earlier pairing at hand that one is joined, and none
\* is started.
EnablePairing ==
  /\ core = "pairing"
  /\ Emit("startPairing")
  /\ enabled' = TRUE
  /\ IF hasThread THEN Goto("join") /\ UNCHANGED <<hasThread, pairing>>
     ELSE hasThread' = TRUE /\ pairing' = "waiting" /\ Goto("pop")
  /\ UNCHANGED <<button, pressed, led, service>>

\* Slip: the joined thread is kept.
JoinAndKeep ==
  /\ core = "join" /\ pairing = "ended"
  /\ pairing' = "none"
  /\ Goto("pop")
  /\ UNCHANGED <<button, pressed, led, service, hasThread, enabled, events, history>>

Join ==
  /\ core = "join" /\ pairing = "ended"
  /\ hasThread' = FALSE /\ pairing' = "none"
  /\ Goto("pop")
  /\ UNCHANGED <<button, pressed, led, service, enabled, events, history>>

\* One event in a round of the loop, any that waits.
Pop ==
  /\ core = "pop"
  /\ IF events = {} THEN Goto("top") /\ pressed' = "nothing" /\ UNCHANGED events
     ELSE \E event \in events : events' = events \ {event} /\ pressed' = event /\ Goto("show")
  /\ UNCHANGED <<button, led, service, hasThread, pairing, enabled, history>>

\* Slip: the end of pairing is not shown.
ShowNoEnd ==
  /\ core = "show"
  /\ led' = IF pressed = "finishPairing" THEN led ELSE pressed
  /\ pressed' = "nothing"
  /\ Goto("top")
  /\ UNCHANGED <<button, service, hasThread, pairing, enabled, events, history>>

Show ==
  /\ core = "show"
  /\ led' = pressed
  /\ pressed' = "nothing"
  /\ Goto("top")
  /\ UNCHANGED <<button, service, hasThread, pairing, enabled, events, history>>

\* A1 refuses the LED's job, or does not answer it within a second; the LED may be lit.
\* It raises in the core loop, which nobody catches there.
LedFails ==
  /\ core = "show"
  /\ led' \in {led, pressed}
  /\ pressed' = "nothing"
  /\ Goto("failed")
  /\ UNCHANGED <<button, service, hasThread, pairing, enabled, events, history>>

Core ==
  \/ Turn \/ TakePress \/ ReadAgain \/ Click \/ LongPress
  \/ EnablePairing \/ Join \/ Pop \/ Show

-----------------------------------------------------------------------------
(* The service's thread.                                                    *)

Begin ==
  /\ service = "begin"
  /\ service' = "enable"
  /\ Emit("start")
  /\ UNCHANGED <<loop, hasThread, pairing, enabled>>

Enable ==
  /\ service = "enable"
  /\ service' = "accept"
  /\ NoEvent /\ UNCHANGED <<loop, hasThread, pairing, enabled>>

Accept ==
  /\ service = "accept"
  /\ service' = "serve"
  /\ Emit("connected")
  /\ UNCHANGED <<loop, hasThread, pairing, enabled>>

\* start_handling returns: the client is gone.
Leave ==
  /\ service = "serve"
  /\ service' = "accept"
  /\ Emit("disconnected")
  /\ UNCHANGED <<loop, hasThread, pairing, enabled>>

\* bluetoothctl does not answer, no device to advertise, a send to a client that is gone, ...
Raise ==
  /\ service \in {"enable", "accept", "serve"}
  /\ service' = "raised"
  /\ NoEvent /\ UNCHANGED <<loop, hasThread, pairing, enabled>>

\* Slip: the error is only logged.
EndUnsaid ==
  /\ service = "raised"
  /\ service' = "ending"
  /\ NoEvent /\ UNCHANGED <<loop, hasThread, pairing, enabled>>

EmitError ==
  /\ service = "raised"
  /\ service' = "ending"
  /\ Emit("error")
  /\ UNCHANGED <<loop, hasThread, pairing, enabled>>

End ==
  /\ service = "ending"
  /\ service' = "ended"
  /\ NoEvent /\ UNCHANGED <<loop, hasThread, pairing, enabled>>

Service == Begin \/ Enable \/ EmitError \/ End

-----------------------------------------------------------------------------
(* The pairing thread.                                                      *)

\* A device has paired, or the three minutes are over.
Paired ==
  /\ pairing = "waiting"
  /\ pairing' = "paired"
  /\ NoEvent /\ UNCHANGED <<loop, service, hasThread, enabled>>

\* bluetoothctl does not answer or has ended.
PairingFails ==
  /\ pairing = "waiting"
  /\ pairing' = "ended"
  /\ NoEvent /\ UNCHANGED <<loop, service, hasThread, enabled>>

DisablePairing ==
  /\ pairing = "paired"
  /\ pairing' = "disabled"
  /\ enabled' = FALSE
  /\ NoEvent /\ UNCHANGED <<loop, service, hasThread>>

FinishPairing ==
  /\ pairing = "disabled"
  /\ pairing' = "ending"
  /\ Emit("finishPairing")
  /\ UNCHANGED <<loop, service, hasThread, enabled>>

\* Slip: the thread ends only while the flag is clear, as a loop over the flag would.
EndWhenDisabled ==
  /\ pairing = "ending" /\ ~enabled
  /\ pairing' = "ended"
  /\ NoEvent /\ UNCHANGED <<loop, service, hasThread, enabled>>

EndPairing ==
  /\ pairing = "ending"
  /\ pairing' = "ended"
  /\ NoEvent /\ UNCHANGED <<loop, service, hasThread, enabled>>

Pairing == Paired \/ DisablePairing \/ FinishPairing \/ EndPairing

Next ==
  \/ Report \/ Shutdown \/ Core \/ LedFails
  \/ Service \/ Accept \/ Leave \/ Raise
  \/ Pairing \/ PairingFails

Spec == Init /\ [][Next]_vars

\* The threads go on. Nobody has to press, to connect, to leave, or to fail.
Fairness == WF_vars(Core) /\ WF_vars(Service) /\ WF_vars(Pairing)

FairSpec == Spec /\ Fairness

-----------------------------------------------------------------------------
TypeOK ==
  /\ button \in Presses /\ core \in CoreLabels /\ pressed \in Presses \cup Events
  /\ led \in Events \cup {"none"}
  /\ service \in ServiceLabels /\ pairing \in PairingLabels
  /\ hasThread \in BOOLEAN /\ enabled \in BOOLEAN
  /\ hasThread = (pairing # "none")
  /\ events \subseteq Events /\ last \in Events \cup {"none"} /\ mixed \in BOOLEAN

\* The core loop, which also stops the robot when it must, never waits for a device to pair:
\* when it joins the pairing thread that one has only its last steps to do.
JoinIsShort == core = "join" => pairing \in {"disabled", "ending", "ended"}

\* With every event handled the LED shows the last one that was emitted, unless that one was
\* emitted while another was waiting: the set has no order (event.py:14).
\* A core loop that has failed shows nothing any more.
LedShowsLast == events = {} /\ core \notin {"show", "failed"} /\ ~mixed => led = last

\* Each round of the core loop comes to its end, the rounds that join a pairing thread
\* included: enable_pairing sets the flag before it waits for the thread that has cleared it.
RoundsEnd == core # "top" ~> core = "top" \/ Over

\* A press that was latched is not lost: the first one starts the service, and a long one
\* opens pairing, the first time it is asked for.
PressHeeded ==
  /\ button # "nothing" /\ service = "new" ~> service # "new" \/ Over
  /\ button = "long" /\ ~enabled /\ ~hasThread ~> pairing = "waiting" \/ Over

\* When the service fails the LED says so at some time, whatever else is pressed or pairs.
ErrorShown == service = "raised" ~> led = "error" \/ Over

\* "First of all enable pairing process by long click Bluetooth button" (strings.xml:87).
\* Not so: a second long press only joins the thread of the first (service.py:53-55).
LongPressPairs == button = "long" /\ ~enabled ~> pairing = "waiting" \/ Over
=============================================================================
