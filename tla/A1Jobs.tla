------------------------------- MODULE A1Jobs -------------------------------
(***************************************************************************)
(* An instruction from the core to A1, and its answer: the core's          *)
(* communicator (motherboard/core/a1), which several threads use without a *)
(* lock, the UART line, and A1's instruction handler with its wheels and   *)
(* motors (motherboard/a1/src). The UART keeps the order of the lines both *)
(* ways: `log' are the lines the core wrote, of which A1 took the first    *)
(* `taken', and `answers' those A1 wrote, of which the core read the first *)
(* `arrived'. A request stands for its place in the log; what the program  *)
(* compares is its id.                                                     *)
(***************************************************************************)
EXTENDS Naturals, FiniteSets, Sequences

CONSTANTS
  Clients,     \* threads that send instructions, of "main", "algorithm", "wifi"
  Motors,      \* vacuum and brushes, one Motor object each
  MaxId,       \* the largest id of four digits, 0xFFFF
  MaxRequests, \* bound: after so many lines the core sends nothing more
  Switches,    \* may threads switch inside _generate_uid, and between compare and pop?
  Faults       \* may lines be lost, and the reader thread end?

ASSUME JobsAssumption ==
  /\ Clients \subseteq {"main", "algorithm", "wifi"}
  /\ Motors \cap {"quick", "doubled", "walk", "move", "none"} = {}
  /\ MaxId \in Nat \ {0} /\ MaxRequests \in Nat
  /\ Switches \in BOOLEAN /\ Faults \in BOOLEAN

VARIABLES
  counter,    \* SerialA1Communicator._instruction_id_k
  log,        \* lines written: [kind, id]
  taken,      \* how many of them A1 has taken from the UART
  executed,   \* the requests A1 accepted (history)
  refused,    \* the requests A1 answered with an error code
  wheel,      \* Wheel::wheel_state of each wheel
  moving,     \* Wheels::_is_moving
  moveRequest,  \* Wheels::_request_id
  motorRequest, \* Motor::_request_id of each motor
  isSet,      \* Motor::_is_set of each motor
  answers,    \* the requests A1 answered, in this order; 0 is the id 0
  arrived,    \* how many of these the reader thread has read
  reading,    \* is the reader thread alive?
  responses,  \* SerialA1Communicator._responses
  at,         \* where each thread is
  doing,      \* the instruction a thread is sending
  pending,    \* the jobs a thread is going to expect, in this order
  found,      \* index of the response a thread is about to pop
  outcome     \* the request whose answer each job took, or 0 (history)

sender == <<counter, log, doing>>
wheels == <<wheel, moving, moveRequest>>
motors == <<motorRequest, isSet>>
a1 == <<taken, executed, refused, wheels, motors>>
reader == <<arrived, reading>>
jobs == <<pending, found, outcome>>
vars == <<sender, a1, answers, reader, responses, at, jobs>>

Sides == {"left", "right"}
Motion == {"walk", "move"}
Kinds == {"quick", "doubled"} \cup Motion \cup Motors
Nothing == [kind |-> "none", awaited |-> FALSE]
Idle == [side \in Sides |-> "IDLE"]
Requests == 1 .. Len(log)
Id(r) == IF r = 0 THEN 0 ELSE log[r].id

Init ==
  /\ counter = 0 /\ log = <<>>
  /\ taken = 0 /\ executed = {} /\ refused = {}
  /\ wheel = Idle /\ moving = FALSE /\ moveRequest = 0
  /\ motorRequest = [m \in Motors |-> 0] /\ isSet = [m \in Motors |-> TRUE]
  /\ answers = <<>> /\ arrived = 0 /\ reading = TRUE /\ responses = <<>>
  /\ at = [c \in Clients |-> "ready"]
  /\ doing = [c \in Clients |-> Nothing]
  /\ pending = [c \in Clients |-> <<>>]
  /\ found = [c \in Clients |-> 0]
  /\ outcome = <<>>

-----------------------------------------------------------------------------
(* The threads of the core: sending.                                        *)

\* What a thread sends, and whether it keeps the job to expect its response: the
\* endpoints of the app never do, except for the reboot.
Instructions(c) ==
  CASE c = "main" -> [kind : {"quick", "doubled"} \cup Motors, awaited : {TRUE}]
                     \cup {[kind |-> "quick", awaited |-> FALSE]}
    [] c = "algorithm" -> [kind : Motion \cup Motors, awaited : {TRUE}]
    [] c = "wifi" -> [kind : {"quick"} \cup Motion \cup Motors, awaited : {FALSE}]
                     \cup {[kind |-> "quick", awaited |-> TRUE]}

\* Handlers send to several motors before they expect the first response.
Batched(c, kind) ==
  \A i \in 1 .. Len(pending[c]) : kind \in Motors /\ log[pending[c][i]].kind \in Motors \ {kind}

\* _generate_uid counts before it formats: ids run from 1 to 0x10000.
Count(c, instruction) ==
  /\ Len(log) + Cardinality({d \in Clients : at[d] = "write"}) < MaxRequests
  /\ Switches \/ \A d \in Clients : at[d] # "write"
  /\ counter' = IF counter > MaxId THEN 1 ELSE counter + 1
  /\ doing' = [doing EXCEPT ![c] = instruction]
  /\ at' = [at EXCEPT ![c] = "write"]

Send(c) ==
  /\ at[c] = "ready"
  /\ \E instruction \in Instructions(c) :
       Batched(c, instruction.kind) /\ Count(c, instruction)
  /\ UNCHANGED <<log, a1, answers, reader, responses, jobs>>

\* The counter is read once more for the line's id.
Write(c) ==
  /\ at[c] = "write"
  /\ log' = Append(log, [kind |-> doing[c].kind, id |-> counter])
  /\ pending' = IF doing[c].awaited
                THEN [pending EXCEPT ![c] = Append(@, Len(log) + 1)] ELSE pending
  /\ outcome' = Append(outcome, 0)
  /\ at' = [at EXCEPT ![c] = "ready"]
  /\ doing' = [doing EXCEPT ![c] = Nothing]
  /\ UNCHANGED <<counter, a1, answers, reader, responses, found>>

-----------------------------------------------------------------------------
(* The threads of the core: Job.expect.                                     *)

\* Slip: a job is expected that was not sent.
ExpectNothing(c) ==
  /\ at[c] = "ready"
  /\ at' = [at EXCEPT ![c] = "waiting"]
  /\ UNCHANGED <<sender, a1, answers, reader, responses, jobs>>

Expect(c) ==
  /\ at[c] = "ready" /\ pending[c] # <<>>
  /\ at' = [at EXCEPT ![c] = "waiting"]
  /\ UNCHANGED <<sender, a1, answers, reader, responses, jobs>>

Awaited(c) == Head(pending[c])

\* Slip: any response will do.
MatchesAny(request, response) == TRUE
Matches(request, response) == Id(request) = Id(response)

\* The list is searched from its beginning.
Find(c) ==
  /\ at[c] = "waiting"
  /\ Switches \/ \A d \in Clients : at[d] # "pop"
  /\ \E i \in 1 .. Len(responses) :
       /\ Matches(Awaited(c), responses[i])
       /\ \A j \in 1 .. i - 1 : ~Matches(Awaited(c), responses[j])
       /\ found' = [found EXCEPT ![c] = i]
  /\ at' = [at EXCEPT ![c] = "pop"]
  /\ UNCHANGED <<sender, a1, answers, reader, responses, pending, outcome>>

\* The exception ends the core loop, or the algorithm thread (for which another one may
\* be started); the app gets an error.
Raise(c) ==
  /\ pending' = [pending EXCEPT ![c] = <<>>]
  /\ at' = [at EXCEPT ![c] = IF c = "main" THEN "dead" ELSE "ready"]

Done(c, response) ==
  /\ outcome' = [outcome EXCEPT ![Awaited(c)] = response]
  /\ pending' = [pending EXCEPT ![c] = Tail(@)]
  /\ at' = [at EXCEPT ![c] = IF Len(pending[c]) = 1 THEN "ready" ELSE "waiting"]

\* By now the response at this index may be another one, or there may be none.
Pop(c) ==
  /\ at[c] = "pop"
  /\ IF found[c] <= Len(responses)
     THEN /\ responses' = [i \in 1 .. Len(responses) - 1 |->
                             IF i < found[c] THEN responses[i] ELSE responses[i + 1]]
          /\ IF responses[found[c]] \in refused
             THEN Raise(c) /\ UNCHANGED outcome
             ELSE Done(c, responses[found[c]])
     ELSE Raise(c) /\ UNCHANGED <<outcome, responses>>
  /\ found' = [found EXCEPT ![c] = 0]
  /\ UNCHANGED <<sender, a1, answers, reader>>

\* Moves and turns wait without a timeout. The clock is looked at before the list.
TimeOut(c) ==
  /\ at[c] = "waiting" /\ log[Awaited(c)].kind # "move"
  /\ Raise(c)
  /\ UNCHANGED <<sender, a1, answers, reader, responses, found, outcome>>

\* Behind a cliff the algorithm stops the robot and looks after the move no more.
StopAtCliff(c) ==
  /\ c = "algorithm"
  /\ at[c] = "waiting" /\ log[Awaited(c)].kind = "move"
  /\ Count(c, [kind |-> "move", awaited |-> FALSE])
  /\ pending' = [pending EXCEPT ![c] = <<>>]
  /\ UNCHANGED <<log, a1, answers, reader, responses, found, outcome>>

Client(c) == Write(c) \/ Expect(c) \/ Find(c) \/ Pop(c) \/ TimeOut(c)

-----------------------------------------------------------------------------
(* The reader thread.                                                       *)

Read ==
  /\ reading /\ arrived < Len(answers)
  /\ arrived' = arrived + 1
  /\ responses' = Append(responses, answers[arrived + 1])
  /\ UNCHANGED <<sender, a1, answers, reading, at, jobs>>

\* A response that does not parse raises in the thread.
ReaderEnds ==
  /\ Faults /\ reading
  /\ reading' = FALSE
  /\ UNCHANGED <<sender, a1, answers, arrived, responses, at, jobs>>

-----------------------------------------------------------------------------
(* A1's instruction handler and what executes the instructions.             *)

Answer(r) == answers' = Append(answers, r)

\* Slip: a move does not set _is_moving.
MoveUnnoted(r) ==
  /\ wheel' = [side \in Sides |-> "MOVING"]
  /\ moveRequest' = r
  /\ UNCHANGED <<moving, answers, motors>>

Move(r) ==
  /\ wheel' = [side \in Sides |-> "MOVING"]
  /\ moving' = TRUE /\ moveRequest' = r
  /\ UNCHANGED <<answers, motors>>

\* walk and rotate: the request id of an unfinished move stays.
Walk(r) ==
  /\ wheel' = [side \in Sides |-> "ENDLESS_WALKING"]
  /\ moving' = TRUE
  /\ Answer(r)
  /\ UNCHANGED <<moveRequest, motors>>

SetMotor(m, r) ==
  /\ motorRequest' = [motorRequest EXCEPT ![m] = r]
  /\ isSet' = [isSet EXCEPT ![m] = FALSE]
  /\ UNCHANGED <<answers, wheels>>

\* LEDs, PID, clock, power; on_bluetooth_led_state answers twice.
Quick(kind, r) ==
  /\ IF kind = "doubled" THEN answers' = Append(Append(answers, r), r) ELSE Answer(r)
  /\ UNCHANGED <<wheels, motors>>

Execute(r) ==
  LET kind == log[r].kind IN
  /\ \/ kind = "move" /\ Move(r)
     \/ kind = "walk" /\ Walk(r)
     \/ kind \in Motors /\ SetMotor(kind, r)
     \/ kind \in {"quick", "doubled"} /\ Quick(kind, r)
  /\ executed' = executed \cup {r} /\ UNCHANGED refused

\* The core sends valid parameters; but not everything can be done at any time.
Refuse(r) ==
  /\ log[r].kind = "quick"
  /\ Answer(r)
  /\ refused' = refused \cup {r} /\ UNCHANGED <<executed, wheels, motors>>

\* An id of five digits moves the divider of the parameters: a wrong instruction (WI),
\* which the core does not know how to read.
Take ==
  /\ taken < Len(log)
  /\ taken' = taken + 1
  /\ IF Id(taken + 1) <= MaxId
     THEN Execute(taken + 1) \/ Refuse(taken + 1)
     ELSE UNCHANGED <<executed, refused, wheels, motors, answers>>
  /\ UNCHANGED <<sender, reader, responses, at, jobs>>

\* A line that is garbled, or cut off by the reading timeout, is answered WI, UC or SE.
Lose ==
  /\ Faults /\ taken < Len(log)
  /\ taken' = taken + 1
  /\ UNCHANGED <<sender, executed, refused, wheels, motors, answers, reader, responses, at, jobs>>

\* The timer interrupt: a wheel that went its way, or was told to stop, stops.
WheelTick ==
  /\ \E done \in SUBSET Sides :
       wheel' = [side \in Sides |->
                   IF wheel[side] = "STOPPED" \/ (wheel[side] = "MOVING" /\ side \in done)
                   THEN "IDLE" ELSE wheel[side]]
  /\ wheel' # wheel
  /\ UNCHANGED <<sender, taken, executed, refused, moving, moveRequest, motors, answers, reader,
                 responses, at, jobs>>

\* Slip: the wheels are done when one of them is.
OneWheelDone == \E side \in Sides : wheel[side] = "IDLE"
WheelsDone == wheel = Idle

\* Slip: it is not noted that the move is over.
StillMoving == moving' = moving
NotMoving == moving' = FALSE

\* Wheels::tick: one wheel stops the other; both being idle ends the move.
WheelsTick ==
  /\ wheel' = [side \in Sides |->
                 IF wheel[side] = "MOVING" /\ \E other \in Sides : wheel[other] = "IDLE"
                 THEN "STOPPED" ELSE wheel[side]]
  /\ IF moving /\ WheelsDone
     THEN Answer(moveRequest) /\ moveRequest' = 0 /\ NotMoving
     ELSE wheel' # wheel /\ UNCHANGED <<answers, moveRequest, moving>>
  /\ UNCHANGED <<sender, taken, executed, refused, motors, reader, responses, at, jobs>>

\* The motor's signal has been led to its setpoint.
MotorTick(m) ==
  /\ ~isSet[m]
  /\ Answer(motorRequest[m])
  /\ isSet' = [isSet EXCEPT ![m] = TRUE]
  /\ UNCHANGED <<sender, taken, executed, refused, wheels, motorRequest, reader, responses, at, jobs>>

Next ==
  \/ \E c \in Clients : Send(c) \/ StopAtCliff(c) \/ Client(c)
  \/ Read \/ ReaderEnds
  \/ Take \/ Lose \/ WheelTick \/ WheelsTick \/ \E m \in Motors : MotorTick(m)

Spec == Init /\ [][Next]_vars

(***************************************************************************)
(* Threads and A1's loop go on, the UART transmits, and a wheel that is    *)
(* driven gets to its distance. Nothing has to be sent.                    *)
(***************************************************************************)
Fairness ==
  /\ \A c \in Clients : WF_vars(Client(c))
  /\ WF_vars(Read) /\ WF_vars(Take) /\ WF_vars(WheelTick) /\ WF_vars(WheelsTick)
  /\ \A m \in Motors : WF_vars(MotorTick(m))

FairSpec == Spec /\ Fairness

-----------------------------------------------------------------------------
A1TypeOK ==
  /\ taken \in 0 .. Len(log) /\ executed \subseteq 1 .. taken
  /\ refused \subseteq 1 .. taken
  /\ wheel \in [Sides -> {"IDLE", "MOVING", "ENDLESS_WALKING", "STOPPED"}]
  /\ moving \in BOOLEAN /\ moveRequest \in Nat
  /\ motorRequest \in [Motors -> Nat] /\ isSet \in [Motors -> BOOLEAN]
  /\ answers \in Seq(Nat)

CoreTypeOK ==
  /\ counter \in 0 .. MaxId + 1
  /\ log \in Seq([kind : Kinds, id : 0 .. MaxId + 1])
  /\ arrived \in 0 .. Len(answers) /\ reading \in BOOLEAN
  /\ responses \in Seq(Nat)
  /\ at \in [Clients -> {"ready", "write", "waiting", "pop", "dead"}]
  /\ doing \in [Clients -> [kind : Kinds \cup {"none"}, awaited : BOOLEAN]]
  /\ pending \in [Clients -> Seq(Nat)] /\ found \in [Clients -> Nat]
  /\ outcome \in Seq(Nat) /\ Len(outcome) = Len(log)
  /\ \A c \in Clients :
       /\ at[c] = "write" => doing[c].kind \in Kinds
       /\ at[c] \in {"waiting", "pop"} => pending[c] # <<>>
       /\ \A i \in 1 .. Len(pending[c]) : pending[c][i] \in Requests

TypeOK == A1TypeOK /\ CoreTypeOK

Answered(r) == \E i \in 1 .. Len(answers) : answers[i] = r
Motions == {r \in executed : log[r].kind \in Motion}
Preempted(r) == \E later \in Motions : later > r

\* Whatever is sent by whom, lost or preempted, A1 answers only what it executed or
\* refused, and the same request twice only if it is a Bluetooth LED's.
AnsweredOnce ==
  \A i \in 1 .. Len(answers) :
    /\ answers[i] \in executed \cup refused
    /\ \A j \in 1 .. i - 1 : answers[j] = answers[i] => log[answers[i]].kind = "doubled"

\* A thread that was told its move, turn or stop is done finds the robot at rest, unless
\* somebody has commanded the wheels since.
DoneMeansRest ==
  \A r \in Requests :
    log[r].kind = "move" /\ outcome[r] = r /\ ~Preempted(r) => wheel = Idle

\* No thread switches at the wrong place, and there is an id for every line.
Dependable == ~Switches /\ MaxRequests <= MaxId + 1

AnsweredCalls == {answers[i] : i \in 1 .. Len(answers)}

\* What the threads were told of their jobs.
Told == {<<r, outcome[r]>> : r \in {s \in Requests : outcome[s] # 0}}

Calls == INSTANCE RemoteCalls WITH
  Mixed <- ~Dependable,
  calls <- Len(log), reached <- taken, executed <- executed, refused <- refused,
  answered <- AnsweredCalls, told <- Told

\* Jobs are the remote calls the threads take them for: executed at most once, in the order
\* they were sent, and done at most once, when A1 has executed and answered them; if not
\* dependable, when A1 has executed and answered one of them.
ImplementsCalls == Calls!Spec

\* Without thread switches at the wrong place, and while the ids are not used up, a job
\* is never done with the response of another one.
OwnResponse == \A r \in Requests : outcome[r] \in {0, r}

\* A job was done, or it is expected no more (the algorithm gave it up, or nobody ever did).
Settled(r) ==
  outcome[r] = r \/ \A c \in Clients : \A i \in 1 .. Len(pending[c]) : pending[c][i] # r

\* A move that A1 accepted and that no other motion preempts is answered in the end, and
\* with the reader thread alive its job is settled: the wheels do not owe an answer for
\* ever. (The unpreempted move is the last motion; there are finitely many.)
MoveEnds ==
  []<>(\A r \in Motions :
         log[r].kind = "move" /\ ~Preempted(r) => Answered(r) /\ (Settled(r) \/ ~reading))

\* "After instruction execution, a simple callback with the status is sent"
\* (uart_communication.md:11): every instruction A1 executes is answered.
ExecutedIsAnswered == \A r \in 1 .. MaxRequests : r \in executed ~> Answered(r)
=============================================================================
