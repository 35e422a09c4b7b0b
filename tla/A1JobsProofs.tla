---------------------------- MODULE A1JobsProofs ----------------------------
(***************************************************************************)
(* What A1Jobs promises for any threads, motors, ids and number of         *)
(* requests, with or without thread switches and faults: the types, that   *)
(* nothing is answered twice, that a finished move means rest, and that    *)
(* jobs implement RemoteCalls; and, without the switches and before the    *)
(* ids are used up, that a job is done with its own response.              *)
(***************************************************************************)
EXTENDS A1Jobs, SequenceTheorems, FiniteSetTheorems, TLAPS

\* A response about to be popped was found at some index.
FoundInv == \A c \in Clients : at[c] = "pop" => found[c] # 0

\* Only what is quick is ever refused.
RefusedInv == \A r \in refused : log[r].kind = "quick"

\* While the wheels are at rest nothing else can be; a move that is to be answered was
\* not answered yet, and without one only a walk drives the wheels.
WheelsInv ==
  /\ ~moving => wheel = Idle
  /\ moving /\ moveRequest = 0 => \A side \in Sides : wheel[side] = "ENDLESS_WALKING"
  /\ moveRequest # 0 =>
       moveRequest \in executed /\ log[moveRequest].kind = "move" /\ ~Answered(moveRequest)

\* The request a motor is led to its setpoint for is its own, and not answered yet.
MotorsInv ==
  \A m \in Motors : ~isSet[m] =>
    motorRequest[m] \in executed /\ log[motorRequest[m]].kind = m /\ ~Answered(motorRequest[m])

\* While the wheels move, the last move is the one that is going to be answered.
LastInv ==
  \A r \in executed :
    log[r].kind = "move" /\ ~Preempted(r) /\ moving => moveRequest = r

\* The core reads and hands out nothing that A1 did not answer.
OutcomeInv ==
  /\ \A i \in 1 .. Len(responses) : Answered(responses[i])
  /\ \A r \in Requests : outcome[r] # 0 => Answered(outcome[r])

A1Inv == RefusedInv /\ WheelsInv /\ MotorsInv /\ LastInv /\ AnsweredOnce
IInv == TypeOK /\ FoundInv /\ A1Inv /\ OutcomeInv

-----------------------------------------------------------------------------
(* The log and the answers only grow.                                       *)

\* A sequence without one of its elements.
LEMMA PopSeq ==
  ASSUME NEW S, NEW s \in Seq(S), NEW k \in Nat, k # 0, k <= Len(s)
  PROVE  LET t == [i \in 1 .. Len(s) - 1 |-> IF i < k THEN s[i] ELSE s[i + 1]] IN
         /\ t \in Seq(S) /\ Len(t) = Len(s) - 1
         /\ \A i \in 1 .. Len(t) : \E j \in 1 .. Len(s) : t[i] = s[j]
<1> DEFINE t == [i \in 1 .. Len(s) - 1 |-> IF i < k THEN s[i] ELSE s[i + 1]]
<1>1. Len(s) - 1 \in Nat
  BY SMT
<1>2. \A i \in 1 .. Len(s) - 1 : t[i] \in S /\ \E j \in 1 .. Len(s) : t[i] = s[j]
  BY <1>1
<1>3. t \in Seq(S) /\ Len(t) = Len(s) - 1
  BY <1>1, <1>2
<1> QED BY <1>2, <1>3

LEMMA AppendGrows ==
  ASSUME NEW S, NEW s \in Seq(S), NEW e \in S
  PROVE  /\ Append(s, e) \in Seq(S) /\ Len(Append(s, e)) = Len(s) + 1 /\ Len(s) \in Nat
         /\ \A i \in 1 .. Len(s) : Append(s, e)[i] = s[i]
         /\ Append(s, e)[Len(s) + 1] = e
         /\ Append(s, e) # <<>>
<1>1. Append(s, e) \in Seq(S) /\ Len(Append(s, e)) = Len(s) + 1 /\ Len(s) \in Nat
  OBVIOUS
<1>2. Append(s, e) # <<>>
  BY <1>1, EmptySeq
<1> QED BY <1>1, <1>2

\* The entries of the log stay as they were written.
LEMMA LogGrows ==
  ASSUME TypeOK, Next
  PROVE  /\ Len(log) <= Len(log')
         /\ \A r \in 1 .. Len(log) : log'[r] = log[r]
<1> USE DEF TypeOK, CoreTypeOK, sender, Client
<1>1. CASE \E c \in Clients : Write(c)
  BY <1>1 DEF Write
<1>2. CASE UNCHANGED log
  BY <1>2
<1> QED
  BY <1>1, <1>2 DEF Next, Send, StopAtCliff, Expect, Find, Pop, TimeOut, Read, ReaderEnds,
     Take, Lose, WheelTick, WheelsTick, MotorTick

\* So do the answers of A1.
LEMMA AnswersGrow ==
  ASSUME TypeOK, Next
  PROVE  /\ answers' \in Seq(Nat) /\ Len(answers) <= Len(answers')
         /\ \A i \in 1 .. Len(answers) : answers'[i] = answers[i]
<1> DEFINE Grown == /\ answers' \in Seq(Nat) /\ Len(answers) <= Len(answers')
                  /\ \A i \in 1 .. Len(answers) : answers'[i] = answers[i]
<1> USE DEF TypeOK, A1TypeOK, Answer
<1>0. ASSUME NEW r \in Nat, answers' = Append(answers, r) PROVE Grown
  BY <1>0, AppendGrows
<1>1. ASSUME UNCHANGED answers PROVE Grown
  BY <1>1
<1>2. ASSUME Take PROVE Grown
  <2> DEFINE r == taken + 1
  <2>1. r \in Nat
    BY SMT
  <2>2. CASE answers' = Append(answers, r)
    BY <2>1, <2>2, <1>0
  <2>3. CASE answers' = Append(Append(answers, r), r)
    <3>1. Append(answers, r) \in Seq(Nat)
      BY <2>1, AppendGrows
    <3>2. QED
      BY <2>1, <2>3, <3>1, AppendGrows
  <2>4. CASE UNCHANGED answers
    BY <2>4, <1>1
  <2>5. QED
    BY <1>2, <2>2, <2>3, <2>4 DEF Take, Execute, Refuse, Move, Walk, SetMotor, Quick
<1>3. ASSUME WheelsTick PROVE Grown
  BY <1>3, <1>0, <1>1 DEF WheelsTick
<1>4. ASSUME NEW m \in Motors, MotorTick(m) PROVE Grown
  BY <1>4, <1>0 DEF MotorTick
<1> QED
  BY <1>1, <1>2, <1>3, <1>4 DEF Next, Client, Send, StopAtCliff, Write, Expect, Find, Pop,
     TimeOut, Read, ReaderEnds, Lose, WheelTick

\* What was answered stays answered.
LEMMA AnsweredStays ==
  ASSUME TypeOK, Next, NEW r, Answered(r)
  PROVE  Answered(r)'
<1>1. PICK i \in 1 .. Len(answers) : answers[i] = r
  BY DEF Answered
<1>2. i \in 1 .. Len(answers') /\ answers'[i] = r
  BY <1>1, AnswersGrow DEF TypeOK, A1TypeOK
<1> QED BY <1>2 DEF Answered

-----------------------------------------------------------------------------
(* The types.                                                               *)

LEMMA InitTypes == Init => TypeOK
<1> SUFFICES ASSUME Init PROVE TypeOK
  OBVIOUS
<1>1. /\ <<>> \in Seq(Nat) /\ <<>> \in Seq([kind : Kinds, id : 0 .. MaxId + 1])
      /\ Len(<<>>) = 0
  BY EmptySeq
<1>2. A1TypeOK
  <2>1. taken \in 0 .. Len(log) /\ executed \subseteq 1 .. taken /\ refused \subseteq 1 .. taken
    BY <1>1 DEF Init
  <2>2. /\ wheel \in [Sides -> {"IDLE", "MOVING", "ENDLESS_WALKING", "STOPPED"}]
        /\ moving \in BOOLEAN /\ moveRequest \in Nat
        /\ motorRequest \in [Motors -> Nat] /\ isSet \in [Motors -> BOOLEAN]
    BY DEF Init, Idle
  <2> QED BY <1>1, <2>1, <2>2 DEF Init, A1TypeOK
<1>3. counter \in 0 .. MaxId + 1 /\ arrived \in 0 .. Len(answers)
  BY <1>1, JobsAssumption DEF Init
<1>4. doing \in [Clients -> [kind : Kinds \cup {"none"}, awaited : BOOLEAN]]
  BY DEF Init, Nothing
<1> QED BY <1>1, <1>2, <1>3, <1>4 DEF Init, TypeOK, CoreTypeOK

\* Every thread sends what A1 knows.
LEMMA InstructionTypes ==
  ASSUME NEW c \in Clients, NEW instruction \in Instructions(c)
  PROVE  instruction \in [kind : Kinds, awaited : BOOLEAN]
<1>1. ASSUME NEW K, NEW B, K \subseteq Kinds, B \subseteq BOOLEAN
      PROVE  [kind : K, awaited : B] \subseteq [kind : Kinds, awaited : BOOLEAN]
  BY <1>1
<1>2. {TRUE} \subseteq BOOLEAN /\ {FALSE} \subseteq BOOLEAN
  OBVIOUS
<1>3. /\ {"quick", "doubled"} \cup Motors \subseteq Kinds /\ Motion \cup Motors \subseteq Kinds
      /\ {"quick"} \cup Motion \cup Motors \subseteq Kinds
  BY DEF Kinds
<1>4. /\ [kind |-> "quick", awaited |-> FALSE] \in [kind : Kinds, awaited : BOOLEAN]
      /\ [kind |-> "quick", awaited |-> TRUE] \in [kind : Kinds, awaited : BOOLEAN]
  BY DEF Kinds
<1>5. CASE c = "main"
  <2>1. Instructions(c) = [kind : {"quick", "doubled"} \cup Motors, awaited : {TRUE}]
                            \cup {[kind |-> "quick", awaited |-> FALSE]}
    BY <1>5 DEF Instructions
  <2>2. [kind : {"quick", "doubled"} \cup Motors, awaited : {TRUE}]
          \subseteq [kind : Kinds, awaited : BOOLEAN]
    BY <1>1, <1>2, <1>3
  <2> QED BY <1>4, <2>1, <2>2
<1>6. CASE c = "algorithm"
  <2>1. Instructions(c) = [kind : Motion \cup Motors, awaited : {TRUE}]
    BY <1>6 DEF Instructions
  <2>2. [kind : Motion \cup Motors, awaited : {TRUE}] \subseteq [kind : Kinds, awaited : BOOLEAN]
    BY <1>1, <1>2, <1>3
  <2> QED BY <2>1, <2>2
<1>7. CASE c = "wifi"
  <2>1. Instructions(c) = [kind : {"quick"} \cup Motion \cup Motors, awaited : {FALSE}]
                            \cup {[kind |-> "quick", awaited |-> TRUE]}
    BY <1>7 DEF Instructions
  <2>2. [kind : {"quick"} \cup Motion \cup Motors, awaited : {FALSE}]
          \subseteq [kind : Kinds, awaited : BOOLEAN]
    BY <1>1, <1>2, <1>3
  <2> QED BY <1>4, <2>1, <2>2
<1> QED BY <1>5, <1>6, <1>7, JobsAssumption

\* Sending and writing.
LEMMA SendTypes ==
  ASSUME TypeOK, NEW c \in Clients, Send(c) \/ StopAtCliff(c) \/ Write(c)
  PROVE  TypeOK'
<1> USE DEF TypeOK, A1TypeOK, CoreTypeOK, sender, a1, reader, jobs, wheels, motors, Requests
<1>1. ASSUME NEW instruction \in [kind : Kinds, awaited : BOOLEAN], Count(c, instruction)
      PROVE  /\ counter' \in 0 .. MaxId + 1
             /\ at' \in [Clients -> {"ready", "write", "waiting", "pop", "dead"}]
             /\ doing' \in [Clients -> [kind : Kinds \cup {"none"}, awaited : BOOLEAN]]
             /\ \A d \in Clients : at'[d] = "write" => doing'[d].kind \in Kinds
             /\ \A d \in Clients : at'[d] \in {"waiting", "pop"} => at'[d] = at[d]
  <2>1. counter' \in 0 .. MaxId + 1
    BY <1>1, JobsAssumption DEF Count
  <2>2. at' \in [Clients -> {"ready", "write", "waiting", "pop", "dead"}]
    BY <1>1 DEF Count
  <2>3. doing' \in [Clients -> [kind : Kinds \cup {"none"}, awaited : BOOLEAN]]
    BY <1>1 DEF Count
  <2>4. \A d \in Clients : at'[d] = "write" => doing'[d].kind \in Kinds
    BY <1>1 DEF Count
  <2>5. \A d \in Clients : at'[d] \in {"waiting", "pop"} => at'[d] = at[d]
    BY <1>1 DEF Count
  <2> QED BY <2>1, <2>2, <2>3, <2>4, <2>5
<1>2. CASE Send(c)
  <2>1. PICK instruction \in Instructions(c) : Count(c, instruction)
    BY <1>2 DEF Send
  <2>2. instruction \in [kind : Kinds, awaited : BOOLEAN]
    BY <2>1, InstructionTypes
  <2>3. UNCHANGED <<log, a1, answers, reader, responses, jobs>>
    BY <1>2 DEF Send
  <2> QED BY <1>1, <2>1, <2>2, <2>3
<1>3. CASE StopAtCliff(c)
  <2>1. [kind |-> "move", awaited |-> FALSE] \in [kind : Kinds, awaited : BOOLEAN]
    BY DEF Kinds, Motion
  <2>2. /\ Count(c, [kind |-> "move", awaited |-> FALSE])
        /\ pending' = [pending EXCEPT ![c] = <<>>] /\ at'[c] = "write"
        /\ UNCHANGED <<log, a1, answers, reader, responses, found, outcome>>
    BY <1>3 DEF StopAtCliff, Count
  <2>3. \A d \in Clients : /\ at'[d] \in {"waiting", "pop"} => pending'[d] # <<>>
                           /\ \A i \in 1 .. Len(pending'[d]) : pending'[d][i] \in Requests
    <3>1. Len(<<>>) = 0
      BY EmptySeq
    <3> SUFFICES ASSUME NEW d \in Clients
                 PROVE  /\ at'[d] \in {"waiting", "pop"} => pending'[d] # <<>>
                        /\ \A i \in 1 .. Len(pending'[d]) : pending'[d][i] \in Requests
      OBVIOUS
    <3>2. CASE d = c
      <4>1. pending'[d] = <<>> /\ at'[d] = "write"
        BY <2>2, <3>2
      <4> QED BY <3>1, <4>1
    <3>3. CASE d # c
      <4>1. pending'[d] = pending[d]
        BY <2>2, <3>3
      <4>2. at'[d] \in {"waiting", "pop"} => at'[d] = at[d]
        BY <1>1, <2>1, <2>2
      <4> QED BY <4>1, <4>2
    <3> QED BY <3>2, <3>3
  <2>4. pending' \in [Clients -> Seq(Nat)]
    BY <2>2
  <2> QED BY <1>1, <2>1, <2>2, <2>3, <2>4
<1>4. CASE Write(c)
  <2> DEFINE entry == [kind |-> doing[c].kind, id |-> counter]
             place == Len(log) + 1
  <2>1. entry \in [kind : Kinds, id : 0 .. MaxId + 1] /\ place \in Nat
    BY <1>4 DEF Write
  <2>2. log' \in Seq([kind : Kinds, id : 0 .. MaxId + 1]) /\ Len(log') = place
    BY <1>4, <2>1 DEF Write
  <2>3. outcome' \in Seq(Nat) /\ Len(outcome') = place
    BY <1>4 DEF Write
  <2> DEFINE longer == Append(pending[c], place)
  <2>4. longer \in Seq(Nat) /\ longer # <<>> /\ \A i \in 1 .. Len(longer) : longer[i] \in 1 .. place
    <3>1. pending[c] \in Seq(Nat) /\ \A i \in 1 .. Len(pending[c]) : pending[c][i] \in 1 .. Len(log)
      OBVIOUS
    <3>2. Len(log) \in Nat
      BY LenProperties
    <3> HIDE DEF TypeOK, CoreTypeOK, A1TypeOK
    <3>3. /\ longer \in Seq(Nat) /\ longer # <<>> /\ Len(longer) = Len(pending[c]) + 1
          /\ Len(pending[c]) \in Nat
          /\ \A i \in 1 .. Len(pending[c]) : longer[i] = pending[c][i]
          /\ longer[Len(pending[c]) + 1] = place
      BY <3>1, <2>1, AppendGrows
    <3> HIDE DEF longer
    <3>4. ASSUME NEW i \in 1 .. Len(longer) PROVE longer[i] \in 1 .. place
      <4>1. CASE i = Len(pending[c]) + 1
        BY <3>2, <3>3, <4>1
      <4>2. CASE i \in 1 .. Len(pending[c])
        <5>1. longer[i] = pending[c][i]
          BY <3>3, <4>2
        <5>2. pending[c][i] \in 1 .. Len(log)
          BY <3>1, <4>2
        <5> QED BY <3>2, <5>1, <5>2
      <4> QED BY <3>3, <4>1, <4>2
    <3> QED BY <3>3, <3>4
  <2>5. pending' = [pending EXCEPT ![c] = longer] \/ pending' = pending
    BY <1>4 DEF Write
  <2> HIDE DEF longer
  <2>6. /\ pending' \in [Clients -> Seq(Nat)]
        /\ \A d \in Clients : /\ pending[d] # <<>> => pending'[d] # <<>>
                            /\ \A i \in 1 .. Len(pending'[d]) : pending'[d][i] \in 1 .. place
    <3>1. Len(log) \in Nat /\ \A d \in Clients : \A i \in 1 .. Len(pending[d]) :
                                 pending[d][i] \in 1 .. place
      BY LenProperties
    <3>2. pending \in [Clients -> Seq(Nat)]
      OBVIOUS
    <3> HIDE DEF TypeOK, CoreTypeOK, A1TypeOK, place
    <3>3. CASE pending' = [pending EXCEPT ![c] = longer]
      BY <2>4, <3>1, <3>2, <3>3
    <3> QED BY <2>5, <3>1, <3>2, <3>3
  <2>7. at' \in [Clients -> {"ready", "write", "waiting", "pop", "dead"}]
        /\ doing' \in [Clients -> [kind : Kinds \cup {"none"}, awaited : BOOLEAN]]
    BY <1>4 DEF Write, Nothing
  <2>8. \A d \in Clients : /\ at'[d] = "write" => doing'[d].kind \in Kinds
                           /\ at'[d] \in {"waiting", "pop"} => pending'[d] # <<>>
    BY <1>4, <2>6 DEF Write
  <2>9. UNCHANGED <<counter, a1, answers, reader, responses, found>>
    BY <1>4 DEF Write
  <2>10. A1TypeOK'
    <3>1. taken' = taken /\ taken' \in 0 .. Len(log')
      BY <2>2, <2>9
    <3> QED BY <2>9, <3>1
  <2> QED BY <2>2, <2>3, <2>6, <2>7, <2>8, <2>9, <2>10
<1> QED BY <1>2, <1>3, <1>4

\* Waiting for a response, and taking it.
LEMMA ExpectTypes ==
  ASSUME TypeOK, FoundInv, NEW c \in Clients, Expect(c) \/ Find(c) \/ Pop(c) \/ TimeOut(c)
  PROVE  TypeOK'
<1> USE DEF TypeOK, CoreTypeOK, Requests
<1>1. A1TypeOK' /\ UNCHANGED <<counter, log, doing, answers, reader>>
  BY DEF Expect, Find, Pop, TimeOut, A1TypeOK, sender, a1, reader, wheels, motors
<1> USE DEF sender, reader, jobs
<1>2. CASE Expect(c)
  BY <1>1, <1>2 DEF Expect
<1>3. CASE Find(c)
  BY <1>1, <1>3 DEF Find
<1>4. ASSUME Raise(c), found' \in [Clients -> Nat], responses' \in Seq(Nat), UNCHANGED outcome
      PROVE  CoreTypeOK'
  BY <1>1, <1>4 DEF Raise
<1>5. ASSUME NEW response \in Nat, pending[c] # <<>>, Done(c, response),
             found' \in [Clients -> Nat], responses' \in Seq(Nat)
      PROVE  CoreTypeOK'
  <2>1. pending[c] \in Seq(Nat) /\ Tail(pending[c]) \in Seq(Nat)
        /\ (Len(pending[c]) # 1 => Tail(pending[c]) # <<>>)
        /\ \A i \in 1 .. Len(Tail(pending[c])) : Tail(pending[c])[i] \in Requests
    <3> DEFINE rest == Tail(pending[c])
    <3>1. pending[c] \in Seq(Nat) /\ \A i \in 1 .. Len(pending[c]) : pending[c][i] \in Requests
      OBVIOUS
    <3> HIDE DEF TypeOK, CoreTypeOK
    <3>2. /\ rest \in Seq(Nat) /\ Len(rest) = Len(pending[c]) - 1
          /\ \A i \in 1 .. Len(rest) : rest[i] = pending[c][i + 1]
      BY <1>5, <3>1, HeadTailProperties
    <3>3. Len(pending[c]) \in Nat /\ Len(<<>>) = 0
      BY <3>1, EmptySeq, LenProperties
    <3> HIDE DEF rest, Requests
    <3>4. (Len(pending[c]) # 1 => rest # <<>>)
      <4> SUFFICES ASSUME rest = <<>> PROVE Len(pending[c]) = 1
        OBVIOUS
      <4>1. Len(rest) = 0
        BY <3>3
      <4> QED BY <3>2, <3>3, <4>1
    <3>5. ASSUME NEW i \in 1 .. Len(rest) PROVE rest[i] \in Requests
      <4>1. i + 1 \in 1 .. Len(pending[c])
        BY <3>2, <3>3
      <4>2. rest[i] = pending[c][i + 1]
        BY <3>2
      <4> QED BY <3>1, <4>1, <4>2
    <3> QED BY <3>1, <3>2, <3>4, <3>5 DEF rest
  <2>2. /\ pending' \in [Clients -> Seq(Nat)]
        /\ \A d \in Clients : \A i \in 1 .. Len(pending'[d]) : pending'[d][i] \in Requests
    BY <1>5, <2>1 DEF Done
  <2>3. outcome' \in Seq(Nat) /\ Len(outcome') = Len(outcome)
    BY <1>5 DEF Done, Awaited
  <2>4. /\ at' \in [Clients -> {"ready", "write", "waiting", "pop", "dead"}]
        /\ \A d \in Clients : at'[d] \in {"waiting", "pop"} => pending'[d] # <<>>
    BY <1>5, <2>1 DEF Done
  <2>5. /\ counter' = counter /\ log' = log /\ doing' = doing /\ answers' = answers
        /\ arrived' = arrived /\ reading' = reading
    BY <1>1
  <2>6. ASSUME NEW d \in Clients, at'[d] = "write" PROVE doing'[d].kind \in Kinds
    <3>1. at[d] = "write"
      BY <1>5, <2>6 DEF Done
    <3>2. doing[d].kind \in Kinds
      BY <3>1
    <3> QED BY <2>5, <3>2
  <2> QED BY <1>5, <2>2, <2>3, <2>4, <2>5, <2>6
<1>6. CASE Pop(c)
  <2>1. found' \in [Clients -> Nat] /\ pending[c] # <<>> /\ found[c] \in Nat /\ found[c] # 0
    BY <1>6 DEF Pop, FoundInv
  <2>2. CASE found[c] <= Len(responses)
    <3>1. responses' \in Seq(Nat)
      <4>1. responses' = [i \in 1 .. Len(responses) - 1 |->
                            IF i < found[c] THEN responses[i] ELSE responses[i + 1]]
        BY <1>6, <2>2 DEF Pop
      <4>2. responses \in Seq(Nat)
        OBVIOUS
      <4> HIDE DEF TypeOK, CoreTypeOK
      <4> QED BY <4>1, <4>2, <2>1, <2>2, PopSeq
    <3>2. responses[found[c]] \in Nat
      BY <2>1, <2>2
    <3> QED BY <1>1, <1>4, <1>5, <1>6, <2>1, <2>2, <3>1, <3>2 DEF Pop
  <2>3. CASE ~(found[c] <= Len(responses))
    BY <1>1, <1>4, <1>6, <2>1, <2>3 DEF Pop
  <2> QED BY <2>2, <2>3
<1>7. CASE TimeOut(c)
  BY <1>1, <1>4, <1>7 DEF TimeOut
<1> QED BY <1>2, <1>3, <1>6, <1>7, <1>1

LEMMA ReaderTypes == TypeOK /\ (Read \/ ReaderEnds) => TypeOK'
<1> SUFFICES ASSUME TypeOK, Read \/ ReaderEnds PROVE TypeOK'
  OBVIOUS
<1> USE DEF TypeOK, A1TypeOK, CoreTypeOK, sender, a1, reader, jobs, wheels, motors, Requests
<1>1. CASE Read
  <2>1. answers[arrived + 1] \in Nat /\ arrived' \in 0 .. Len(answers)
    BY <1>1 DEF Read
  <2>2. responses' \in Seq(Nat)
    BY <1>1, <2>1 DEF Read
  <2> QED BY <1>1, <2>1, <2>2 DEF Read
<1>2. CASE ReaderEnds
  BY <1>2 DEF ReaderEnds
<1> QED BY <1>1, <1>2

\* Whatever A1 does, the core's side keeps its types, since A1's answers only grow.
LEMMA A1Types ==
  ASSUME TypeOK, Take \/ Lose \/ WheelTick \/ WheelsTick \/ \E m \in Motors : MotorTick(m)
  PROVE  TypeOK'
<1>1. answers' \in Seq(Nat) /\ Len(answers) <= Len(answers')
  BY AnswersGrow DEF Next
<1>2. CoreTypeOK'
  <2>1. UNCHANGED <<counter, log, doing, arrived, reading, responses, at, pending, found, outcome>>
    BY DEF Take, Lose, WheelTick, WheelsTick, MotorTick, sender, reader, jobs
  <2>2. arrived' \in 0 .. Len(answers')
    BY <1>1, <2>1, LenProperties DEF TypeOK, A1TypeOK, CoreTypeOK
  <2> QED BY <2>1, <2>2 DEF TypeOK, CoreTypeOK, Requests
<1> USE DEF TypeOK, A1TypeOK, sender, wheels, motors
<1>3. log' = log /\ Len(log) \in Nat
  BY LenProperties DEF CoreTypeOK, Take, Lose, WheelTick, WheelsTick, MotorTick
<1>4. CASE Take
  <2>1. taken' \in 0 .. Len(log') /\ taken + 1 \in 1 .. taken' /\ 1 .. taken \subseteq 1 .. taken'
    BY <1>3, <1>4 DEF Take
  <2>2. executed' \subseteq 1 .. taken' /\ refused' \subseteq 1 .. taken'
    BY <1>4, <2>1 DEF Take, Execute, Refuse
  <2>3. /\ wheel' \in [Sides -> {"IDLE", "MOVING", "ENDLESS_WALKING", "STOPPED"}]
        /\ moving' \in BOOLEAN /\ moveRequest' \in Nat
        /\ motorRequest' \in [Motors -> Nat] /\ isSet' \in [Motors -> BOOLEAN]
    <3> DEFINE r == taken + 1
    <3>0. r \in Nat
      OBVIOUS
    <3>1. CASE UNCHANGED <<wheels, motors>>
      BY <3>1
    <3>2. CASE Move(r)
      BY <3>0, <3>2 DEF Move
    <3>3. CASE Walk(r)
      BY <3>3 DEF Walk
    <3>4. CASE \E m \in Motors : SetMotor(m, r)
      BY <3>0, <3>4 DEF SetMotor
    <3>5. \/ UNCHANGED <<wheels, motors>> \/ Move(r) \/ Walk(r) \/ \E m \in Motors : SetMotor(m, r)
      <4>1. CASE Id(r) <= MaxId
        <5>1. CASE Execute(r)
          BY <5>1 DEF Execute, Quick
        <5>2. CASE Refuse(r)
          BY <5>2 DEF Refuse
        <5> QED BY <1>4, <4>1, <5>1, <5>2 DEF Take
      <4>2. CASE ~(Id(r) <= MaxId)
        BY <1>4, <4>2 DEF Take
      <4> QED BY <4>1, <4>2
    <3> HIDE DEF wheels, motors
    <3> QED BY <3>1, <3>2, <3>3, <3>4, <3>5
  <2> QED BY <1>1, <1>2, <2>1, <2>2, <2>3
<1>5. CASE Lose
  BY <1>1, <1>2, <1>3, <1>5 DEF Lose
<1>6. CASE WheelTick
  BY <1>1, <1>2, <1>3, <1>6 DEF WheelTick
<1>7. CASE WheelsTick
  <2>1. UNCHANGED <<taken, executed, refused, motorRequest, isSet>>
    BY <1>7 DEF WheelsTick
  <2>2. moving' \in BOOLEAN /\ moveRequest' \in Nat
    <3>1. UNCHANGED <<moving, moveRequest>> \/ (moving' = FALSE /\ moveRequest' = 0)
      BY <1>7 DEF WheelsTick, NotMoving
    <3>2. moving \in BOOLEAN /\ moveRequest \in Nat
      OBVIOUS
    <3> HIDE DEF TypeOK, A1TypeOK
    <3>3. 0 \in Nat
      OBVIOUS
    <3> QED BY <3>1, <3>2, <3>3, Zenon
  <2>3. wheel' \in [Sides -> {"IDLE", "MOVING", "ENDLESS_WALKING", "STOPPED"}]
    BY <1>7 DEF WheelsTick
  <2> QED BY <1>1, <1>2, <1>3, <2>1, <2>2, <2>3
<1>8. CASE \E m \in Motors : MotorTick(m)
  BY <1>1, <1>2, <1>3, <1>8 DEF MotorTick
<1> QED BY <1>4, <1>5, <1>6, <1>7, <1>8

LEMMA NextTypes == TypeOK /\ FoundInv /\ Next => TypeOK'
BY SendTypes, ExpectTypes, ReaderTypes, A1Types DEF Next, Client

LEMMA NextFound == TypeOK /\ FoundInv /\ Next => FoundInv'
<1> SUFFICES ASSUME TypeOK, FoundInv, Next PROVE FoundInv'
  OBVIOUS
<1> USE DEF TypeOK, CoreTypeOK, FoundInv, jobs
<1>1. ASSUME NEW c \in Clients, Send(c) \/ StopAtCliff(c) \/ Write(c) \/ Expect(c) \/ TimeOut(c)
      PROVE  FoundInv'
  BY <1>1 DEF Send, StopAtCliff, Count, Write, Expect, TimeOut, Raise
<1>2. ASSUME NEW c \in Clients, Find(c) PROVE FoundInv'
  BY <1>2 DEF Find
<1>3. ASSUME NEW c \in Clients, Pop(c) PROVE FoundInv'
  BY <1>3 DEF Pop, Raise, Done
<1>4. CASE UNCHANGED <<at, found>>
  BY <1>4
<1> QED
  BY <1>1, <1>2, <1>3, <1>4 DEF Next, Client, Read, ReaderEnds, Take, Lose, WheelTick,
     WheelsTick, MotorTick

-----------------------------------------------------------------------------
(* A1's side.                                                               *)

\* One more answer, of a request not answered before.
LEMMA AnswerNew ==
  ASSUME A1TypeOK, AnsweredOnce, NEW r \in Nat, Answer(r), ~Answered(r), log' = log,
         executed \cup refused \subseteq (executed \cup refused)', r \in (executed \cup refused)'
  PROVE  AnsweredOnce' /\ \A s : Answered(s)' => Answered(s) \/ s = r
<1>1. /\ Len(answers') = Len(answers) + 1 /\ Len(answers) \in Nat
      /\ \A i \in 1 .. Len(answers) : answers'[i] = answers[i]
      /\ answers'[Len(answers) + 1] = r
  BY AppendGrows DEF A1TypeOK, Answer
<1>2. ASSUME NEW i \in 1 .. Len(answers')
      PROVE  /\ answers'[i] \in (executed \cup refused)'
             /\ \A j \in 1 .. i - 1 : answers'[j] = answers'[i] => log[answers'[i]].kind = "doubled"
  <2>1. CASE i = Len(answers) + 1
    BY <1>1, <2>1 DEF Answered
  <2>2. CASE i \in 1 .. Len(answers)
    BY <1>1, <2>2 DEF AnsweredOnce
  <2> QED BY <1>1, <2>1, <2>2
<1>3. AnsweredOnce'
  BY <1>2 DEF AnsweredOnce
<1>4. ASSUME NEW s, Answered(s)' PROVE Answered(s) \/ s = r
  BY <1>1, <1>4 DEF Answered
<1> QED BY <1>3, <1>4

\* The threads of the core change nothing of it; a new line is of no request A1 knows.
LEMMA CoreKeepsA1Inv ==
  ASSUME TypeOK, TypeOK', A1Inv, Next, UNCHANGED <<a1, answers>>
  PROVE  A1Inv'
<1>1. \A r \in executed \cup refused : r \in 1 .. Len(log) /\ log'[r] = log[r]
  <2>1. taken \in 0 .. Len(log) /\ Len(log) \in Nat /\ executed \cup refused \subseteq 1 .. taken
    BY LenProperties DEF TypeOK, A1TypeOK, CoreTypeOK
  <2>2. \A r \in 1 .. Len(log) : log'[r] = log[r]
    BY LogGrows
  <2> QED BY <2>1, <2>2
<1>2. \A r : Answered(r)' <=> Answered(r)
  BY DEF Answered
<1>3. UNCHANGED <<taken, executed, refused, wheel, moving, moveRequest, motorRequest, isSet, answers>>
  BY DEF a1, wheels, motors
<1>4. Motions' = Motions /\ \A r : Preempted(r)' <=> Preempted(r)
  BY <1>1, <1>3 DEF Motions, Preempted
<1> USE DEF A1Inv
<1>5. RefusedInv'
  BY <1>1, <1>3 DEF RefusedInv
<1>6. WheelsInv'
  BY <1>1, <1>2, <1>3 DEF WheelsInv
<1>7. MotorsInv'
  BY <1>1, <1>2, <1>3 DEF MotorsInv
<1>8. LastInv'
  BY <1>1, <1>3, <1>4 DEF LastInv
<1>9. AnsweredOnce'
  BY <1>1, <1>3 DEF AnsweredOnce
<1> QED BY <1>5, <1>6, <1>7, <1>8, <1>9

\* A request is A1's only once it took it, and it was not answered before.
LEMMA Fresh ==
  ASSUME TypeOK, AnsweredOnce, taken < Len(log)
  PROVE  /\ taken + 1 \in Nat \ {0} /\ ~Answered(taken + 1)
         /\ \A s \in executed \cup refused : s \in Nat /\ s < taken + 1
<1>1. \A s \in executed \cup refused : s \in Nat /\ s < taken + 1
  BY LenProperties DEF TypeOK, A1TypeOK, CoreTypeOK
<1>2. taken + 1 \in Nat \ {0}
  BY LenProperties DEF TypeOK, A1TypeOK, CoreTypeOK
<1>3. taken + 1 \notin executed \cup refused
  BY <1>1, <1>2
<1> QED BY <1>1, <1>2, <1>3 DEF Answered, AnsweredOnce

\* A new motion preempts every earlier one, another instruction none.
LEMMA Preempting ==
  ASSUME TypeOK, AnsweredOnce, taken < Len(log), log' = log, executed' = executed \cup {taken + 1}
  PROVE  /\ log[taken + 1].kind \in Motion => \A s \in executed : Preempted(s)'
         /\ \A s \in executed : Preempted(s) => Preempted(s)'
<1>1. \A s \in executed : s < taken + 1
  BY Fresh
<1> QED BY <1>1 DEF Preempted, Motions

LEMMA TakeKeepsA1Inv == TypeOK /\ A1Inv /\ Take => A1Inv'
<1> SUFFICES ASSUME TypeOK, A1Inv, Take PROVE A1Inv'
  OBVIOUS
<1> DEFINE r == taken + 1
<1>1. /\ r \in Nat \ {0} /\ ~Answered(r) /\ log' = log /\ taken < Len(log)
      /\ \A s \in executed \cup refused : s \in Nat /\ s < r /\ s # r
  BY Fresh DEF Take, A1Inv, sender
<1>2. TypeOK /\ A1TypeOK /\ AnsweredOnce
  BY DEF TypeOK, A1Inv
<1>3. ASSUME UNCHANGED <<executed, refused, wheels, motors, answers>> PROVE A1Inv'
  BY <1>1, <1>3 DEF A1Inv, RefusedInv, WheelsInv, MotorsInv, LastInv, AnsweredOnce, Answered,
     Preempted, Motions, wheels, motors
<1>4. ASSUME Refuse(r) PROVE A1Inv'
  <2>1. /\ refused' = refused \cup {r} /\ log[r].kind = "quick" /\ Answer(r)
        /\ UNCHANGED <<executed, wheel, moving, moveRequest, motorRequest, isSet>>
    BY <1>4 DEF Refuse, wheels, motors
  <2>2. AnsweredOnce' /\ \A s : Answered(s)' => Answered(s) \/ s = r
    BY <1>1, <1>2, <2>1, AnswerNew
  <2>3. RefusedInv'
    BY <1>1, <2>1 DEF A1Inv, RefusedInv
  <2>4. WheelsInv' /\ MotorsInv'
    BY <1>1, <2>1, <2>2 DEF A1Inv, WheelsInv, MotorsInv
  <2>5. LastInv'
    BY <1>1, <2>1 DEF A1Inv, LastInv, Preempted, Motions
  <2> QED BY <2>2, <2>3, <2>4, <2>5 DEF A1Inv
<1>5. ASSUME Execute(r) PROVE A1Inv'
  <2>1. executed' = executed \cup {r} /\ refused' = refused
    BY <1>5 DEF Execute
  <2>2. RefusedInv'
    BY <1>1, <2>1 DEF A1Inv, RefusedInv
  <2>3. /\ log[r].kind \in Motion => \A s \in executed : Preempted(s)'
        /\ \A s \in executed : Preempted(s) => Preempted(s)'
    BY <1>1, <1>2, <2>1, Preempting
  <2>4. CASE log[r].kind = "move" /\ Move(r)
    <3>1. /\ wheel' = [side \in Sides |-> "MOVING"] /\ moving' = TRUE /\ moveRequest' = r
          /\ UNCHANGED <<answers, motorRequest, isSet>>
      BY <2>4 DEF Move, motors
    <3>2. WheelsInv'
      BY <1>1, <2>1, <2>4, <3>1 DEF WheelsInv, Answered
    <3>3. MotorsInv'
      BY <1>1, <2>1, <3>1 DEF A1Inv, MotorsInv, Answered
    <3>4. LastInv'
      BY <1>1, <2>1, <2>3, <2>4, <3>1 DEF LastInv, Motion
    <3>5. AnsweredOnce'
      BY <1>1, <2>1, <3>1 DEF A1Inv, AnsweredOnce
    <3> QED BY <2>2, <3>2, <3>3, <3>4, <3>5 DEF A1Inv
  <2>5. CASE log[r].kind = "walk" /\ Walk(r)
    <3>1. /\ wheel' = [side \in Sides |-> "ENDLESS_WALKING"] /\ moving' = TRUE /\ Answer(r)
          /\ UNCHANGED <<moveRequest, motorRequest, isSet>>
      BY <2>5 DEF Walk, motors
    <3>2. AnsweredOnce' /\ \A s : Answered(s)' => Answered(s) \/ s = r
      BY <1>1, <1>2, <2>1, <3>1, AnswerNew
    <3>3. WheelsInv'
      BY <1>1, <2>1, <3>1, <3>2 DEF A1Inv, WheelsInv
    <3>4. MotorsInv'
      BY <1>1, <2>1, <3>1, <3>2 DEF A1Inv, MotorsInv
    <3>5. LastInv'
      BY <1>1, <2>1, <2>3, <2>5 DEF LastInv, Motion
    <3> QED BY <2>2, <3>2, <3>3, <3>4, <3>5 DEF A1Inv
  <2>6. ASSUME NEW m \in Motors, log[r].kind = m, SetMotor(m, r) PROVE A1Inv'
    <3>1. /\ motorRequest' = [motorRequest EXCEPT ![m] = r] /\ isSet' = [isSet EXCEPT ![m] = FALSE]
          /\ UNCHANGED <<answers, wheel, moving, moveRequest>>
      BY <2>6 DEF SetMotor, wheels
    <3>2. m # "move" /\ m \notin Motion
      BY JobsAssumption DEF Motion
    <3>3. WheelsInv'
      BY <1>1, <2>1, <3>1 DEF A1Inv, WheelsInv, Answered
    <3>4. MotorsInv'
      BY <1>1, <1>2, <2>1, <2>6, <3>1 DEF A1Inv, MotorsInv, Answered, A1TypeOK
    <3>5. LastInv'
      BY <1>1, <2>1, <2>3, <2>6, <3>1, <3>2 DEF A1Inv, LastInv
    <3>6. AnsweredOnce'
      BY <1>1, <2>1, <3>1 DEF A1Inv, AnsweredOnce
    <3> QED BY <2>2, <3>3, <3>4, <3>5, <3>6 DEF A1Inv
  <2>7. CASE log[r].kind \in {"quick", "doubled"} /\ Quick(log[r].kind, r)
    <3>1. UNCHANGED <<wheel, moving, moveRequest, motorRequest, isSet>>
      BY <2>7 DEF Quick, wheels, motors
    <3>2. AnsweredOnce' /\ \A s : Answered(s)' => Answered(s) \/ s = r
      <4>1. CASE Answer(r)
        BY <1>1, <1>2, <2>1, <4>1, AnswerNew
      <4>2. CASE log[r].kind = "doubled" /\ answers' = Append(Append(answers, r), r)
        <5> DEFINE once == Append(answers, r)
        <5>1. /\ once \in Seq(Nat) /\ Len(once) = Len(answers) + 1 /\ Len(answers) \in Nat
              /\ \A i \in 1 .. Len(answers) : once[i] = answers[i]
              /\ once[Len(answers) + 1] = r
          BY <1>1, <1>2, AppendGrows DEF A1TypeOK
        <5> HIDE DEF once
        <5>2. /\ Len(answers') = Len(once) + 1 /\ answers'[Len(once) + 1] = r
              /\ \A i \in 1 .. Len(once) : answers'[i] = once[i]
          BY <1>1, <4>2, <5>1, AppendGrows DEF once
        <5>3. /\ Len(answers') = Len(answers) + 2
              /\ \A i \in 1 .. Len(answers) : answers'[i] = answers[i]
              /\ \A i \in 1 .. Len(answers') : i \notin 1 .. Len(answers) => answers'[i] = r
          BY <5>1, <5>2
        <5>4. ASSUME NEW i \in 1 .. Len(answers')
              PROVE  /\ answers'[i] \in (executed \cup refused)'
                     /\ \A j \in 1 .. i - 1 :
                          answers'[j] = answers'[i] => log[answers'[i]].kind = "doubled"
          <6>1. CASE i \in 1 .. Len(answers)
            <7>1. answers'[i] = answers[i] /\ \A j \in 1 .. i - 1 : answers'[j] = answers[j]
              BY <5>1, <5>3, <6>1
            <7>2. /\ answers[i] \in executed \cup refused
                  /\ \A j \in 1 .. i - 1 :
                       answers[j] = answers[i] => log[answers[i]].kind = "doubled"
              BY <1>2, <6>1 DEF AnsweredOnce
            <7> QED BY <2>1, <7>1, <7>2
          <6>2. CASE i \notin 1 .. Len(answers)
            <7>1. answers'[i] = r
              BY <5>3, <6>2
            <7> QED BY <2>1, <4>2, <7>1
          <6> QED BY <6>1, <6>2
        <5>5. AnsweredOnce'
          BY <1>1, <5>4 DEF AnsweredOnce
        <5>6. ASSUME NEW s, Answered(s)' PROVE Answered(s) \/ s = r
          BY <5>3, <5>6 DEF Answered
        <5> QED BY <5>5, <5>6
      <4> QED BY <2>7, <4>1, <4>2 DEF Quick
    <3>3. WheelsInv'
      BY <1>1, <2>1, <3>1, <3>2 DEF A1Inv, WheelsInv
    <3>4. MotorsInv'
      BY <1>1, <2>1, <3>1, <3>2 DEF A1Inv, MotorsInv
    <3>5. LastInv'
      BY <1>1, <2>1, <2>3, <2>7, <3>1 DEF A1Inv, LastInv
    <3> QED BY <2>2, <3>2, <3>3, <3>4, <3>5 DEF A1Inv
  <2> QED BY <1>5, <2>4, <2>5, <2>6, <2>7 DEF Execute
<1> QED BY <1>3, <1>4, <1>5 DEF Take

\* An ISR's tick stops a wheel, which says nothing of the requests yet.
LEMMA WheelTickKeepsA1Inv == TypeOK /\ A1Inv /\ WheelTick => A1Inv'
<1> SUFFICES ASSUME TypeOK, A1Inv, WheelTick PROVE A1Inv'
  OBVIOUS
<1>1. UNCHANGED <<log, executed, refused, moving, moveRequest, motorRequest, isSet, answers>>
  BY DEF WheelTick, sender, motors
<1>2. /\ wheel = Idle => wheel' = Idle
      /\ \A side \in Sides : wheel[side] = "ENDLESS_WALKING" => wheel'[side] = wheel[side]
  BY DEF WheelTick, Idle
<1>3. WheelsInv'
  BY <1>1, <1>2 DEF A1Inv, WheelsInv, Answered
<1> QED
  BY <1>1, <1>3 DEF A1Inv, RefusedInv, MotorsInv, LastInv, AnsweredOnce, Answered, Preempted, Motions

\* When both wheels are idle the request of the last move is answered, and there is one.
LEMMA WheelsTickKeepsA1Inv == TypeOK /\ A1Inv /\ WheelsTick => A1Inv'
<1> SUFFICES ASSUME TypeOK, A1Inv, WheelsTick PROVE A1Inv'
  OBVIOUS
<1>1. UNCHANGED <<log, executed, refused, motorRequest, isSet>>
  BY DEF WheelsTick, sender, motors
<1>2. /\ wheel = Idle => wheel' = Idle
      /\ \A side \in Sides : wheel[side] = "ENDLESS_WALKING" => wheel'[side] = wheel[side]
  BY DEF WheelsTick, Idle
<1>3. TypeOK /\ A1TypeOK /\ AnsweredOnce
  BY DEF TypeOK, A1Inv
<1>4. CASE moving /\ WheelsDone
  <2>1. wheel = Idle /\ Answer(moveRequest) /\ moveRequest' = 0 /\ moving' = FALSE
    BY <1>4 DEF WheelsTick, WheelsDone, NotMoving
  <2>2. moveRequest # 0
    <3>1. "left" \in Sides /\ wheel["left"] # "ENDLESS_WALKING"
      BY <2>1 DEF Idle, Sides
    <3> QED BY <1>4, <3>1 DEF A1Inv, WheelsInv
  <2>3. /\ moveRequest \in executed /\ ~Answered(moveRequest) /\ moveRequest \in Nat
        /\ log[moveRequest].kind = "move"
    BY <1>3, <2>2 DEF A1Inv, WheelsInv, A1TypeOK
  <2>4. AnsweredOnce' /\ \A s : Answered(s)' => Answered(s) \/ s = moveRequest
    BY <1>1, <1>3, <2>1, <2>3, AnswerNew
  <2>5. WheelsInv'
    BY <1>2, <2>1 DEF WheelsInv, Idle
  <2>6. MotorsInv'
    BY <1>1, <2>3, <2>4, JobsAssumption DEF A1Inv, MotorsInv
  <2>7. RefusedInv' /\ LastInv'
    BY <1>1, <2>1 DEF A1Inv, RefusedInv, LastInv
  <2> QED BY <2>4, <2>5, <2>6, <2>7 DEF A1Inv
<1>5. CASE ~(moving /\ WheelsDone)
  <2>1. UNCHANGED <<moving, moveRequest, answers>>
    BY <1>5 DEF WheelsTick
  <2>2. WheelsInv'
    BY <1>1, <1>2, <2>1 DEF A1Inv, WheelsInv, Answered
  <2> QED
    BY <1>1, <2>1, <2>2 DEF A1Inv, RefusedInv, MotorsInv, LastInv, AnsweredOnce, Answered,
       Preempted, Motions
<1> QED BY <1>4, <1>5

LEMMA MotorTickKeepsA1Inv ==
  ASSUME TypeOK, A1Inv, NEW m \in Motors, MotorTick(m)
  PROVE  A1Inv'
<1>1. /\ UNCHANGED <<log, executed, refused, wheel, moving, moveRequest, motorRequest>>
      /\ Answer(motorRequest[m]) /\ isSet' = [isSet EXCEPT ![m] = TRUE] /\ ~isSet[m]
  BY DEF MotorTick, sender, wheels
<1>2. TypeOK /\ A1TypeOK /\ AnsweredOnce
  BY DEF TypeOK, A1Inv
<1>3. /\ motorRequest[m] \in executed /\ log[motorRequest[m]].kind = m
      /\ ~Answered(motorRequest[m]) /\ motorRequest[m] \in Nat
  BY <1>1, <1>2 DEF A1Inv, MotorsInv, A1TypeOK
<1>4. AnsweredOnce' /\ \A s : Answered(s)' => Answered(s) \/ s = motorRequest[m]
  BY <1>1, <1>2, <1>3, AnswerNew
<1>5. m # "move"
  BY JobsAssumption
<1>6. WheelsInv'
  BY <1>1, <1>3, <1>4, <1>5 DEF A1Inv, WheelsInv
<1>7. MotorsInv'
  <2> SUFFICES ASSUME NEW n \in Motors, ~isSet'[n]
               PROVE  /\ motorRequest[n] \in executed /\ log[motorRequest[n]].kind = n
                      /\ ~Answered(motorRequest[n])'
    BY <1>1 DEF MotorsInv
  <2>1. n # m /\ ~isSet[n]
    BY <1>1, <1>2 DEF A1TypeOK
  <2> QED BY <1>1, <1>3, <1>4, <2>1 DEF A1Inv, MotorsInv
<1>8. RefusedInv' /\ LastInv'
  BY <1>1 DEF A1Inv, RefusedInv, LastInv, Preempted, Motions
<1> QED BY <1>4, <1>6, <1>7, <1>8 DEF A1Inv

LEMMA NextA1Inv == TypeOK /\ TypeOK' /\ A1Inv /\ Next => A1Inv'
<1> SUFFICES ASSUME TypeOK, TypeOK', A1Inv, Next PROVE A1Inv'
  OBVIOUS
<1>1. CASE UNCHANGED <<a1, answers>>
  BY <1>1, CoreKeepsA1Inv
<1>2. CASE Lose
  BY <1>2 DEF Lose, sender, wheels, motors, A1Inv, RefusedInv, WheelsInv, MotorsInv, LastInv,
     AnsweredOnce, Answered, Preempted, Motions
<1> QED
  BY <1>1, <1>2, TakeKeepsA1Inv, WheelTickKeepsA1Inv, WheelsTickKeepsA1Inv, MotorTickKeepsA1Inv
     DEF Next, Client, Send, StopAtCliff, Write, Expect, Find, Pop, TimeOut, Read, ReaderEnds

-----------------------------------------------------------------------------
(* The core's side, and the theorems.                                       *)

LEMMA NextOutcome == TypeOK /\ FoundInv /\ OutcomeInv /\ Next => OutcomeInv'
<1> SUFFICES ASSUME TypeOK, FoundInv, OutcomeInv, Next PROVE OutcomeInv'
  OBVIOUS
<1> DEFINE InAnswers(r) == \E k \in 1 .. Len(answers') : answers'[k] = r
<1>1. \A r : Answered(r) => InAnswers(r)
  BY AnsweredStays DEF Answered
<1> HIDE DEF InAnswers
<1>2. /\ responses \in Seq(Nat) /\ outcome \in Seq(Nat) /\ Len(outcome) = Len(log)
      /\ Len(log) \in Nat
  BY LenProperties DEF TypeOK, CoreTypeOK
<1>3. ASSUME \A i \in 1 .. Len(responses') : InAnswers(responses'[i]),
             \A r \in 1 .. Len(log') : outcome'[r] # 0 => InAnswers(outcome'[r])
      PROVE  OutcomeInv'
  BY <1>3 DEF OutcomeInv, Requests, Answered, InAnswers
<1>4. CASE UNCHANGED <<log, responses, outcome>>
  BY <1>1, <1>4, <1>3 DEF OutcomeInv, Requests
<1>5. ASSUME NEW c \in Clients, Write(c) PROVE OutcomeInv'
  <2>1. UNCHANGED responses /\ outcome' = Append(outcome, 0)
    BY <1>5 DEF Write
  <2>2. /\ \A i \in 1 .. Len(outcome) : outcome'[i] = outcome[i]
        /\ outcome'[Len(outcome) + 1] = 0 /\ Len(log') = Len(log) + 1
    BY <1>2, <1>5, AppendGrows DEF Write, TypeOK, CoreTypeOK
  <2>3. ASSUME NEW r \in 1 .. Len(log'), outcome'[r] # 0 PROVE InAnswers(outcome'[r])
    <3>1. r \in 1 .. Len(log) /\ outcome'[r] = outcome[r]
      BY <1>2, <2>2, <2>3
    <3> QED BY <1>1, <2>3, <3>1 DEF OutcomeInv, Requests
  <2> QED BY <1>1, <1>3, <2>1, <2>3 DEF OutcomeInv, Requests
<1>6. ASSUME NEW c \in Clients, Pop(c) PROVE OutcomeInv'
  <2>1. UNCHANGED <<log, answers>> /\ found[c] \in Nat /\ found[c] # 0
    BY <1>6 DEF Pop, sender, FoundInv, TypeOK, CoreTypeOK
  <2>2. CASE found[c] <= Len(responses)
    <3>1. \A i \in 1 .. Len(responses') : \E j \in 1 .. Len(responses) : responses'[i] = responses[j]
      <4>1. responses' = [i \in 1 .. Len(responses) - 1 |->
                            IF i < found[c] THEN responses[i] ELSE responses[i + 1]]
        BY <1>6, <2>2 DEF Pop
      <4> QED BY <1>2, <2>1, <2>2, <4>1, PopSeq
    <3>2. \A i \in 1 .. Len(responses') : InAnswers(responses'[i])
      BY <1>1, <3>1 DEF OutcomeInv
    <3>3. Answered(responses[found[c]])
      BY <1>2, <2>1, <2>2 DEF OutcomeInv
    <3>4. outcome' = outcome \/ outcome' = [outcome EXCEPT ![Awaited(c)] = responses[found[c]]]
      BY <1>6, <2>2 DEF Pop, Done
    <3>5. \A r \in 1 .. Len(log) : outcome'[r] = outcome[r] \/ outcome'[r] = responses[found[c]]
      BY <1>2, <3>4
    <3> QED BY <1>1, <1>3, <2>1, <3>2, <3>3, <3>5 DEF OutcomeInv, Requests
  <2>3. CASE ~(found[c] <= Len(responses))
    BY <1>4, <1>6, <2>1, <2>3 DEF Pop
  <2> QED BY <2>2, <2>3
<1>7. CASE Read
  <2>1. /\ UNCHANGED <<log, answers, outcome>> /\ arrived + 1 \in 1 .. Len(answers)
        /\ answers[arrived + 1] \in Nat /\ responses' = Append(responses, answers[arrived + 1])
    BY <1>7 DEF Read, sender, jobs, TypeOK, A1TypeOK, CoreTypeOK
  <2>2. Answered(answers[arrived + 1])
    BY <2>1 DEF Answered
  <2>3. /\ Len(responses') = Len(responses) + 1 /\ Len(responses) \in Nat
        /\ \A i \in 1 .. Len(responses) : responses'[i] = responses[i]
        /\ responses'[Len(responses) + 1] = answers[arrived + 1]
    BY <1>2, <2>1, AppendGrows
  <2>4. ASSUME NEW i \in 1 .. Len(responses') PROVE InAnswers(responses'[i])
    BY <1>1, <2>2, <2>3 DEF OutcomeInv
  <2> QED BY <1>1, <1>3, <2>1, <2>4 DEF OutcomeInv, Requests
<1> QED
  BY <1>4, <1>5, <1>6, <1>7 DEF Next, Client, Send, StopAtCliff, Expect, Find, TimeOut,
     ReaderEnds, Take, Lose, WheelTick, WheelsTick, MotorTick, sender, jobs

LEMMA InitIInv == Init => IInv
<1> SUFFICES ASSUME Init PROVE IInv
  OBVIOUS
<1>1. TypeOK
  BY InitTypes
<1>2. Len(<<>>) = 0
  BY EmptySeq
<1>3. OutcomeInv
  BY <1>2 DEF Init, OutcomeInv, Requests
<1>4. FoundInv /\ A1Inv
  BY <1>2 DEF Init, FoundInv, A1Inv, RefusedInv, WheelsInv, MotorsInv, LastInv, AnsweredOnce
<1> QED BY <1>1, <1>3, <1>4 DEF IInv

LEMMA NextIInv == IInv /\ [Next]_vars => IInv'
<1> SUFFICES ASSUME IInv, [Next]_vars PROVE IInv'
  OBVIOUS
<1>1. CASE Next
  BY <1>1, NextTypes, NextFound, NextA1Inv, NextOutcome DEF IInv
<1>2. CASE UNCHANGED vars
  BY <1>2 DEF vars, sender, a1, reader, jobs, wheels, motors, IInv, TypeOK, A1TypeOK, CoreTypeOK,
     Requests, FoundInv, A1Inv, RefusedInv, WheelsInv, MotorsInv, LastInv, AnsweredOnce, Answered,
     Preempted, Motions, OutcomeInv
<1> QED BY <1>1, <1>2

LEMMA Invariance == Spec => []IInv
BY InitIInv, NextIInv, PTL DEF Spec

\* The types of every variable of the communicator, the UART and A1, for any threads and
\* motors.
THEOREM TypeCorrect == Spec => []TypeOK
<1>1. IInv => TypeOK
  BY DEF IInv
<1> QED BY <1>1, Invariance, PTL

\* A1 answers only what it took, and nothing twice but the Bluetooth LED's instruction,
\* however motions preempt each other and lines are lost.
THEOREM NoAnswerTwice == Spec => []AnsweredOnce
<1>1. IInv => AnsweredOnce
  BY DEF IInv, A1Inv
<1> QED BY <1>1, Invariance, PTL

\* A thread whose move, turn or stop is done finds the robot at rest unless a later motion
\* was taken, even when thread switches mix up ids or responses.
THEOREM FinishedMoveRests == Spec => []DoneMeansRest
<1>1. ASSUME IInv PROVE DoneMeansRest
  <2> SUFFICES ASSUME NEW r \in Requests, log[r].kind = "move", outcome[r] = r, ~Preempted(r)
               PROVE  wheel = Idle
    BY DEF DoneMeansRest
  <2>1. r # 0 /\ Answered(r)
    BY <1>1 DEF IInv, OutcomeInv, Requests
  <2>2. r \in executed \cup refused
    BY <1>1, <2>1 DEF IInv, A1Inv, AnsweredOnce, Answered
  <2>3. r \in executed
    BY <1>1, <2>2 DEF IInv, A1Inv, RefusedInv
  <2>4. ~moving
    <3> SUFFICES ASSUME moving PROVE FALSE
      OBVIOUS
    <3>1. moveRequest = r
      BY <1>1, <2>3 DEF IInv, A1Inv, LastInv
    <3> QED BY <1>1, <2>1, <3>1 DEF IInv, A1Inv, WheelsInv
  <2> QED BY <1>1, <2>4 DEF IInv, A1Inv, WheelsInv
<1> QED BY <1>1, Invariance, PTL

-----------------------------------------------------------------------------
(* Without thread switches at the wrong place and with an id for every line, *)
(* no job takes the response of another one.                                 *)

\* One thread at a time counts and writes, so that a line's id is its place in the log.
IdsInv ==
  /\ \A r \in Requests : log[r].id = r
  /\ \A c, d \in Clients : at[c] = "write" /\ at[d] = "write" => c = d
  /\ \A c \in Clients : at[c] = "write" => counter = Len(log) + 1 /\ counter <= MaxRequests
  /\ (\A c \in Clients : at[c] # "write") => counter = Len(log)
  /\ Len(log) <= MaxRequests

\* One thread at a time pops, and what it is about to pop is still where it was found.
PopsInv ==
  /\ \A c, d \in Clients : at[c] = "pop" /\ at[d] = "pop" => c = d
  /\ \A c \in Clients : at[c] = "pop" =>
       found[c] \in 1 .. Len(responses) /\ Id(responses[found[c]]) = Id(Awaited(c))

OwnInv == IdsInv /\ PopsInv /\ OwnResponse

\* What is in the list of responses is a request, and its id tells which.
LEMMA ResponseIds ==
  ASSUME IInv, IdsInv
  PROVE  /\ \A i \in 1 .. Len(responses) : responses[i] \in Requests
         /\ \A r \in Requests : Id(r) = r
<1>1. ASSUME NEW i \in 1 .. Len(responses) PROVE responses[i] \in Requests
  <2>1. Answered(responses[i]) BY DEF IInv, OutcomeInv
  <2>2. responses[i] \in executed \cup refused BY <2>1 DEF Answered, IInv, A1Inv, AnsweredOnce
  <2>3. executed \subseteq 1 .. taken /\ refused \subseteq 1 .. taken /\ taken \in 0 .. Len(log)
    BY DEF IInv, TypeOK, A1TypeOK
  <2>4. Len(log) \in Nat
    <3>1. CoreTypeOK BY DEF IInv, TypeOK
    <3> QED BY <3>1 DEF CoreTypeOK
  <2>5. responses[i] \in 1 .. taken BY <2>2, <2>3
  <2> QED BY <2>3, <2>4, <2>5 DEF Requests
<1>2. \A r \in Requests : Id(r) = r BY DEF IdsInv, Id, Requests
<1> QED BY <1>1, <1>2

LEMMA AwaitedIsRequest ==
  ASSUME TypeOK, NEW c \in Clients, at[c] \in {"waiting", "pop"}
  PROVE  Awaited(c) \in Requests
<1>1. pending[c] \in Seq(Nat) /\ pending[c] # <<>> /\ \A i \in 1 .. Len(pending[c]) : pending[c][i] \in Requests
  BY DEF TypeOK, CoreTypeOK
<1> DEFINE p == pending[c]
<1>2. p \in Seq(Nat) /\ p # <<>> BY <1>1
<1> HIDE DEF p
<1>3. 1 \in 1 .. Len(p) /\ Head(p) = p[1] BY <1>2
<1> QED BY <1>1, <1>3 DEF Awaited, p

\* A thread counts when no other is between counting and writing.
LEMMA CountIds ==
  ASSUME TypeOK, IdsInv, ~Switches, MaxRequests <= MaxId + 1, UNCHANGED log,
         NEW c \in Clients, NEW instruction, Count(c, instruction)
  PROVE  IdsInv'
<1>1. \A d \in Clients : at[d] # "write" BY DEF Count
<1>2. Cardinality({d \in Clients : at[d] = "write"}) = 0
  <2>1. {d \in Clients : at[d] = "write"} = {} BY <1>1
  <2> QED BY <2>1, FS_EmptySet
<1>3. Len(log) \in Nat /\ counter = Len(log) /\ Len(log) + 1 <= MaxRequests
  BY <1>1, <1>2, JobsAssumption, LenProperties DEF Count, IdsInv, TypeOK, CoreTypeOK
<1>4. counter' = Len(log) + 1
  BY <1>3, JobsAssumption DEF Count
<1>5. at'[c] = "write" /\ \A d \in Clients : at'[d] = "write" => d = c
  BY <1>1 DEF Count, TypeOK, CoreTypeOK
<1> QED BY <1>3, <1>4, <1>5, JobsAssumption DEF IdsInv, Requests

LEMMA NextIds == TypeOK /\ IdsInv /\ ~Switches /\ MaxRequests <= MaxId + 1 /\ Next => IdsInv'
<1> SUFFICES ASSUME TypeOK, IdsInv, ~Switches, MaxRequests <= MaxId + 1, Next PROVE IdsInv'
  OBVIOUS
<1>1. ASSUME NEW c \in Clients, Send(c) \/ StopAtCliff(c) PROVE IdsInv'
  BY <1>1, CountIds DEF Send, StopAtCliff
<1>2. ASSUME NEW c \in Clients, Write(c) PROVE IdsInv'
  <2>1. /\ at[c] = "write" /\ log' = Append(log, [kind |-> doing[c].kind, id |-> counter])
        /\ counter' = counter /\ counter = Len(log) + 1 /\ counter <= MaxRequests
    BY <1>2 DEF Write, IdsInv
  <2>2. [kind |-> doing[c].kind, id |-> counter] \in [kind : Kinds, id : 0 .. MaxId + 1]
    BY <2>1 DEF TypeOK, CoreTypeOK
  <2>3. /\ Len(log') = Len(log) + 1 /\ Len(log) \in Nat
        /\ \A r \in 1 .. Len(log) : log'[r] = log[r]
        /\ log'[Len(log) + 1].id = counter
    BY <2>1, <2>2, AppendGrows DEF TypeOK, CoreTypeOK
  <2>4. \A d \in Clients : at'[d] # "write"
    BY <1>2, <2>1 DEF Write, IdsInv, TypeOK, CoreTypeOK
  <2>5. \A r \in 1 .. Len(log') : log'[r].id = r
    BY <2>1, <2>3 DEF IdsInv, Requests
  <2> QED BY <2>1, <2>3, <2>4, <2>5 DEF IdsInv, Requests
<1>3. ASSUME NEW c \in Clients, Expect(c) \/ Find(c) \/ Pop(c) \/ TimeOut(c) PROVE IdsInv'
  <2>1. UNCHANGED <<log, counter>> BY <1>3 DEF Expect, Find, Pop, TimeOut, sender
  <2>2. \A d \in Clients : at'[d] = "write" <=> at[d] = "write"
    <3>1. at[c] # "write" /\ \E to \in {"waiting", "pop", "dead", "ready"} : at' = [at EXCEPT ![c] = to]
      BY <1>3 DEF Expect, Find, Pop, TimeOut, Raise, Done
    <3> QED BY <3>1 DEF TypeOK, CoreTypeOK
  <2> QED BY <2>1, <2>2 DEF IdsInv, Requests
<1>4. CASE UNCHANGED <<log, counter, at>> BY <1>4 DEF IdsInv, Requests
<1> QED
  BY <1>1, <1>2, <1>3, <1>4 DEF Next, Client, Read, ReaderEnds, Take, Lose, WheelTick, WheelsTick,
     MotorTick, sender

\* What was found stays where it is until its finder pops it.
LEMMA NextPops == IInv /\ IdsInv /\ PopsInv /\ ~Switches /\ Next => PopsInv'
<1> SUFFICES ASSUME IInv, IdsInv, PopsInv, ~Switches, Next PROVE PopsInv'
  OBVIOUS
<1>0. /\ responses \in Seq(Nat) /\ at \in [Clients -> {"ready", "write", "waiting", "pop", "dead"}]
      /\ pending \in [Clients -> Seq(Nat)] /\ found \in [Clients -> Nat]
  BY DEF IInv, TypeOK, CoreTypeOK
\* Who was at its pop before still sees the same response and awaits the same job.
<1>1. ASSUME \A d \in Clients : at'[d] = "pop" => at[d] = "pop" /\ found'[d] = found[d] /\ pending'[d] = pending[d],
             Len(responses) <= Len(responses') /\ Len(responses') \in Nat,
             \A i \in 1 .. Len(responses) : responses'[i] = responses[i]
      PROVE  PopsInv'
  <2>1. \A r \in Requests : Id(r)' = Id(r)
    BY LogGrows DEF Id, Requests, IInv
  <2>2. ASSUME NEW d \in Clients, at'[d] = "pop"
        PROVE  found'[d] \in 1 .. Len(responses') /\ Id(responses[found[d]])' = Id(Awaited(d))'
    <3>1. /\ found[d] \in 1 .. Len(responses) /\ Id(responses[found[d]]) = Id(Awaited(d))
          /\ found'[d] = found[d] /\ Awaited(d)' = Awaited(d)
          /\ responses'[found'[d]] = responses[found[d]]
      BY <1>1, <2>2 DEF PopsInv, Awaited
    <3>2. responses[found[d]] \in Requests BY <3>1, ResponseIds
    <3>3. Awaited(d) \in Requests BY <1>1, <2>2, AwaitedIsRequest DEF IInv
    <3>4. \A r \in Requests : log'[r].id = log[r].id BY LogGrows DEF Requests, IInv
    <3> QED BY <1>0, <1>1, <3>1, <3>2, <3>3, <3>4 DEF Id
  <2> QED BY <1>1, <2>2 DEF PopsInv
<1>2. ASSUME NEW c \in Clients, Find(c) PROVE PopsInv'
  <2>1. PICK i \in 1 .. Len(responses) :
          Id(Awaited(c)) = Id(responses[i]) /\ found' = [found EXCEPT ![c] = i]
    BY <1>2 DEF Find, Matches
  <2>2. /\ \A d \in Clients : at[d] # "pop"
        /\ at' = [at EXCEPT ![c] = "pop"] /\ UNCHANGED <<log, responses, pending>>
    BY <1>2 DEF Find, sender
  <2>3. \A d \in Clients : at'[d] = "pop" => d = c BY <1>0, <2>2
  <2>4. found'[c] = i BY <1>0, <2>1
  <2>5. Id(responses'[found'[c]]) = Id(Awaited(c)) /\ log' = log /\ pending' = pending
    BY <2>1, <2>2, <2>4
  <2> QED BY <2>1, <2>2, <2>3, <2>4, <2>5 DEF PopsInv, Id, Awaited
<1>3. ASSUME NEW c \in Clients, Pop(c) PROVE PopsInv'
  <2>1. \A d \in Clients : at'[d] # "pop"
    <3>1. at[c] = "pop" /\ \E to \in {"waiting", "dead", "ready"} : at' = [at EXCEPT ![c] = to]
      BY <1>3 DEF Pop, Raise, Done
    <3> QED BY <1>0, <3>1 DEF PopsInv
  <2> QED BY <2>1 DEF PopsInv
<1>4. ASSUME NEW c \in Clients, Send(c) \/ StopAtCliff(c) \/ Write(c) \/ Expect(c) \/ TimeOut(c)
      PROVE  PopsInv'
  <2>1. UNCHANGED <<responses, found>> /\ \A d \in Clients \ {c} : pending'[d] = pending[d]
    BY <1>0, <1>4 DEF Send, StopAtCliff, Write, Expect, TimeOut, Raise, jobs
  <2>2. \E to \in {"write", "ready", "waiting", "dead"} : at' = [at EXCEPT ![c] = to]
    BY <1>4 DEF Send, StopAtCliff, Write, Expect, TimeOut, Raise, Count
  <2>3. \A d \in Clients : at'[d] = "pop" => d # c /\ at[d] = "pop" BY <1>0, <2>2
  <2> QED BY <1>0, <1>1, <2>1, <2>3
<1>5. CASE Read
  <2>1. /\ answers[arrived + 1] \in Nat /\ responses' = Append(responses, answers[arrived + 1])
        /\ UNCHANGED <<at, found, pending>>
    BY <1>5 DEF Read, IInv, TypeOK, A1TypeOK, CoreTypeOK, jobs
  <2>2. /\ Len(responses') = Len(responses) + 1 /\ Len(responses) \in Nat
        /\ \A i \in 1 .. Len(responses) : responses'[i] = responses[i]
    BY <1>0, <2>1, AppendGrows
  <2> QED BY <1>1, <2>1, <2>2
<1>6. CASE UNCHANGED <<at, found, pending, responses>>
  BY <1>0, <1>1, <1>6
<1> QED
  BY <1>2, <1>3, <1>4, <1>5, <1>6 DEF Next, Client, ReaderEnds, Take, Lose, WheelTick, WheelsTick,
     MotorTick, jobs

LEMMA NextOwn == IInv /\ OwnInv /\ ~Switches /\ Next => OwnResponse'
<1> SUFFICES ASSUME IInv, OwnInv, ~Switches, Next PROVE OwnResponse'
  OBVIOUS
<1>0. outcome \in Seq(Nat) /\ Len(outcome) = Len(log) /\ Len(log) \in Nat
  BY LenProperties DEF IInv, TypeOK, CoreTypeOK
<1>1. CASE UNCHANGED <<log, outcome>>
  BY <1>1 DEF OwnInv, OwnResponse, Requests
<1>2. ASSUME NEW c \in Clients, Write(c) PROVE OwnResponse'
  <2>1. /\ \A i \in 1 .. Len(outcome) : outcome'[i] = outcome[i]
        /\ outcome'[Len(outcome) + 1] = 0 /\ Len(log') = Len(log) + 1
    BY <1>0, <1>2, AppendGrows DEF Write, IInv, TypeOK, CoreTypeOK
  <2> QED BY <1>0, <2>1 DEF OwnInv, OwnResponse, Requests
<1>3. ASSUME NEW c \in Clients, Pop(c) PROVE OwnResponse'
  <2>1. /\ found[c] \in 1 .. Len(responses) /\ Id(responses[found[c]]) = Id(Awaited(c)) /\ log' = log
        /\ at[c] = "pop"
    BY <1>3 DEF Pop, OwnInv, PopsInv, sender
  <2>2. responses[found[c]] = Awaited(c)
    BY <2>1, ResponseIds, AwaitedIsRequest DEF OwnInv, IInv
  <2>3. outcome' = outcome \/ outcome' = [outcome EXCEPT ![Awaited(c)] = Awaited(c)]
    BY <1>3, <2>2 DEF Pop, Done
  <2>4. \A r \in 1 .. Len(log) : outcome'[r] = outcome[r] \/ outcome'[r] = r
    BY <1>0, <2>3
  <2> QED BY <2>1, <2>4 DEF OwnInv, OwnResponse, Requests
<1> QED
  BY <1>1, <1>2, <1>3 DEF Next, Client, Send, StopAtCliff, Expect, Find, TimeOut, Read,
     ReaderEnds, Take, Lose, WheelTick, WheelsTick, MotorTick, sender, jobs

KeptInv == Dependable => OwnInv

LEMMA KeptInvariance == Spec => []KeptInv
<1>1. Init => KeptInv
  <2> SUFFICES ASSUME Init PROVE OwnInv BY DEF KeptInv
  <2>1. Len(<<>>) = 0 BY EmptySeq
  <2>2. Len(log) = 0 /\ counter = 0 /\ \A c \in Clients : at[c] = "ready" BY <2>1 DEF Init
  <2> QED BY <2>2, JobsAssumption DEF OwnInv, IdsInv, PopsInv, OwnResponse, Requests
<1>2. IInv /\ KeptInv /\ [Next]_vars => KeptInv'
  <2> SUFFICES ASSUME IInv, OwnInv, Dependable, [Next]_vars PROVE OwnInv'
    BY DEF KeptInv, Dependable
  <2>1. CASE Next BY <2>1, NextIds, NextPops, NextOwn DEF OwnInv, IInv, Dependable
  <2>2. CASE UNCHANGED vars
    BY <2>2 DEF vars, sender, jobs, OwnInv, IdsInv, PopsInv, OwnResponse, Requests, Id, Awaited
  <2> QED BY <2>1, <2>2
<1> QED BY Invariance, <1>1, <1>2, PTL DEF Spec

\* As long as threads do not switch between counting and writing nor between comparing and
\* popping, and the core writes no more lines than there are ids, a job that is done took the
\* response to its own instruction.
THEOREM JobsTakeTheirOwn ==
  ASSUME Dependable
  PROVE  Spec => []OwnResponse
<1>1. KeptInv => OwnResponse BY DEF KeptInv, OwnInv
<1> QED BY <1>1, KeptInvariance, PTL

-----------------------------------------------------------------------------
(* Jobs are remote calls.                                                   *)

\* A job that is going to be expected was not done yet, and only one thread expects it, once.
PendingInv ==
  \A c \in Clients : \A i \in 1 .. Len(pending[c]) :
    /\ outcome[pending[c][i]] = 0
    /\ \A d \in Clients : \A j \in 1 .. Len(pending[d]) :
         pending[c][i] = pending[d][j] => c = d /\ i = j

LEMMA TailSeq ==
  ASSUME NEW S, NEW s \in Seq(S), s # <<>>
  PROVE  /\ Len(s) \in Nat \ {0} /\ 1 \in 1 .. Len(s) /\ Head(s) = s[1]
         /\ Tail(s) \in Seq(S) /\ Len(Tail(s)) = Len(s) - 1
         /\ \A i \in 1 .. Len(Tail(s)) : i + 1 \in 1 .. Len(s) /\ Tail(s)[i] = s[i + 1]
OBVIOUS

LEMMA NextPending == TypeOK /\ PendingInv /\ Next => PendingInv'
<1> SUFFICES ASSUME TypeOK, PendingInv, Next PROVE PendingInv'
  OBVIOUS
<1>0. /\ pending \in [Clients -> Seq(Nat)] /\ outcome \in Seq(Nat)
      /\ Len(outcome) = Len(log) /\ Len(log) \in Nat
      /\ \A c \in Clients : \A i \in 1 .. Len(pending[c]) : pending[c][i] \in Requests
      /\ \A c \in Clients : Len(pending[c]) \in Nat
  BY LenProperties DEF TypeOK, CoreTypeOK
<1> DEFINE Same(c) == pending'[c] = pending[c]
           Forgotten(c) == pending' = [pending EXCEPT ![c] = <<>>]
<1>1. ASSUME NEW c \in Clients, Forgotten(c), outcome' = outcome PROVE PendingInv'
  <2>1. Len(<<>>) = 0 BY EmptySeq
  <2>2. \A d \in Clients : Len(pending'[d]) = 0 \/ Same(d) BY <1>0, <1>1, <2>1
  <2> QED BY <1>1, <2>2 DEF PendingInv
<1>2. ASSUME UNCHANGED <<pending, outcome>> PROVE PendingInv'
  BY <1>2 DEF PendingInv
<1>3. ASSUME NEW c \in Clients, Write(c) PROVE PendingInv'
  <2>1. /\ \A r \in 1 .. Len(log) : outcome'[r] = outcome[r]
        /\ outcome'[Len(log) + 1] = 0
    BY <1>0, <1>3, AppendGrows DEF Write
  <2>2. CASE pending' = pending
    <3>1. ASSUME NEW d \in Clients, NEW i \in 1 .. Len(pending[d])
          PROVE  outcome'[pending[d][i]] = 0
      <4>1. pending[d][i] \in 1 .. Len(log)
        BY <1>0 DEF Requests
      <4>2. outcome[pending[d][i]] = 0
        BY DEF PendingInv
      <4> QED BY <2>1, <4>1, <4>2
    <3> QED BY <2>2, <3>1 DEF PendingInv
  <2>3. CASE pending' = [pending EXCEPT ![c] = Append(@, Len(log) + 1)]
    <3>1. \A d \in Clients \ {c} : Same(d)
      BY <1>0, <2>3
    <3>2. /\ Len(pending'[c]) = Len(pending[c]) + 1
          /\ \A i \in 1 .. Len(pending[c]) : pending'[c][i] = pending[c][i]
          /\ pending'[c][Len(pending[c]) + 1] = Len(log) + 1
      BY <1>0, <2>3, AppendGrows
    <3>3. ASSUME NEW d \in Clients, NEW i \in 1 .. Len(pending'[d])
          PROVE  \/ i \in 1 .. Len(pending[d]) /\ pending'[d][i] = pending[d][i]
                 \/ d = c /\ i = Len(pending[c]) + 1 /\ pending'[d][i] = Len(log) + 1
      BY <1>0, <3>1, <3>2
    <3>4. ASSUME NEW d \in Clients, NEW i \in 1 .. Len(pending[d])
          PROVE  pending[d][i] # Len(log) + 1 /\ outcome'[pending[d][i]] = 0
      <4>1. pending[d][i] \in 1 .. Len(log)
        BY <1>0 DEF Requests
      <4>2. outcome[pending[d][i]] = 0
        BY DEF PendingInv
      <4> QED BY <1>0, <2>1, <4>1, <4>2
    <3>5. ASSUME NEW d \in Clients, NEW i \in 1 .. Len(pending'[d])
          PROVE  outcome'[pending'[d][i]] = 0
      BY <2>1, <3>3, <3>4
    <3>6. ASSUME NEW d \in Clients, NEW i \in 1 .. Len(pending'[d]),
                 NEW e \in Clients, NEW j \in 1 .. Len(pending'[e]),
                 pending'[d][i] = pending'[e][j]
          PROVE  d = e /\ i = j
      <4>1. CASE i \in 1 .. Len(pending[d]) /\ pending'[d][i] = pending[d][i]
        <5>1. j \in 1 .. Len(pending[e]) /\ pending'[e][j] = pending[e][j]
          BY <3>3, <3>4, <3>6, <4>1
        <5>2. pending[d][i] = pending[e][j]
          BY <3>6, <4>1, <5>1
        <5>3. i \in 1 .. Len(pending[d])
          BY <4>1
        <5> QED BY <5>1, <5>2, <5>3 DEF PendingInv
      <4>2. CASE d = c /\ i = Len(pending[c]) + 1 /\ pending'[d][i] = Len(log) + 1
        <5>1. e = c /\ j = Len(pending[c]) + 1
          BY <3>3, <3>4, <3>6, <4>2
        <5> QED BY <4>2, <5>1
      <4> QED BY <3>3, <4>1, <4>2
    <3> QED BY <3>5, <3>6 DEF PendingInv
  <2> QED BY <1>3, <2>2, <2>3 DEF Write
<1>4. ASSUME NEW c \in Clients, NEW response, Done(c, response), pending[c] # <<>>
      PROVE  PendingInv'
  <2> DEFINE p == pending[c]
  <2>1. p \in Seq(Nat) /\ p # <<>> BY <1>0, <1>4
  <2>2. Awaited(c) = p[1] /\ 1 \in 1 .. Len(p)
    BY <2>1, TailSeq DEF Awaited
  <2>3. /\ Len(Tail(p)) = Len(p) - 1 /\ Len(p) \in Nat
        /\ \A i \in 1 .. Len(Tail(p)) : i + 1 \in 1 .. Len(p) /\ Tail(p)[i] = p[i + 1]
    BY <2>1, TailSeq
  <2>4. pending'[c] = Tail(p) /\ \A d \in Clients \ {c} : Same(d)
    BY <1>0, <1>4 DEF Done
  <2>5. \A r \in Requests : r # Awaited(c) => outcome'[r] = outcome[r]
    BY <1>0, <1>4 DEF Done, Requests
  <2> DEFINE Place(d, i) == IF d = c THEN i + 1 ELSE i
  <2>6. ASSUME NEW d \in Clients, NEW i \in 1 .. Len(pending'[d])
        PROVE  /\ Place(d, i) \in 1 .. Len(pending[d]) /\ pending'[d][i] = pending[d][Place(d, i)]
               /\ d = c => Place(d, i) # 1
    <3>1. CASE d = c
      <4>1. i \in 1 .. Len(Tail(p)) BY <2>4, <2>6, <3>1
      <4>2. i + 1 \in 1 .. Len(p) /\ Tail(p)[i] = p[i + 1] BY <2>3, <4>1
      <4>3. Place(d, i) = i + 1 /\ pending[d] = p BY <3>1
      <4>4. pending'[d] = Tail(p) /\ i + 1 # 1 BY <2>4, <3>1, <4>1
      <4> QED BY <4>2, <4>3, <4>4
    <3>2. CASE d # c BY <2>4, <2>6, <3>2
    <3> QED BY <3>1, <3>2
  <2>7. ASSUME NEW d \in Clients, NEW i \in 1 .. Len(pending'[d])
        PROVE  outcome'[pending'[d][i]] = 0
    <3> DEFINE k == Place(d, i)
    <3>1. k \in 1 .. Len(pending[d]) /\ pending'[d][i] = pending[d][k] /\ (d = c => k # 1)
      BY <2>6, <2>7
    <3> HIDE DEF k
    <3>2. pending[d][k] # Awaited(c)
      BY <2>2, <3>1 DEF PendingInv
    <3>3. outcome[pending[d][k]] = 0 /\ pending[d][k] \in Requests
      BY <1>0, <3>1 DEF PendingInv
    <3> QED BY <2>5, <3>1, <3>2, <3>3
  <2>8. ASSUME NEW d \in Clients, NEW i \in 1 .. Len(pending'[d]),
               NEW e \in Clients, NEW j \in 1 .. Len(pending'[e]),
               pending'[d][i] = pending'[e][j]
        PROVE  d = e /\ i = j
    <3>1. /\ Place(d, i) \in 1 .. Len(pending[d]) /\ Place(e, j) \in 1 .. Len(pending[e])
          /\ pending[d][Place(d, i)] = pending[e][Place(e, j)]
      BY <2>6, <2>8
    <3>2. d = e /\ Place(d, i) = Place(e, j)
      <4> HIDE DEF Place
      <4> QED BY <3>1 DEF PendingInv
    <3>3. i \in Int /\ j \in Int
      BY <2>8
    <3> QED BY <3>2, <3>3
  <2> QED BY <2>7, <2>8 DEF PendingInv
<1>5. ASSUME NEW c \in Clients, Pop(c) PROVE PendingInv'
  <2>1. pending[c] # <<>> BY <1>5 DEF Pop, TypeOK, CoreTypeOK
  <2> QED BY <1>1, <1>4, <1>5, <2>1 DEF Pop, Raise
<1>6. ASSUME NEW c \in Clients, TimeOut(c) \/ StopAtCliff(c) PROVE PendingInv'
  BY <1>1, <1>6 DEF TimeOut, StopAtCliff, Raise
<1> QED
  BY <1>2, <1>3, <1>5, <1>6 DEF Next, Client, Send, Expect, Find, Read, ReaderEnds, Take, Lose,
     WheelTick, WheelsTick, MotorTick, jobs

USE DEF Calls!vars

LEMMA AnsweredIs == \A r : r \in AnsweredCalls <=> Answered(r)
BY DEF AnsweredCalls, Answered

\* One more answer is one more answered call.
LEMMA AnswerMaps ==
  ASSUME NEW s \in Seq(Nat), NEW r \in Nat
  PROVE  {Append(s, r)[i] : i \in 1 .. Len(Append(s, r))} = {s[i] : i \in 1 .. Len(s)} \cup {r}
<1>1. /\ Len(Append(s, r)) = Len(s) + 1 /\ Len(s) \in Nat
      /\ \A i \in 1 .. Len(s) : Append(s, r)[i] = s[i]
      /\ Append(s, r)[Len(s) + 1] = r
  BY AppendGrows
<1> QED BY <1>1

\* What was answered is known to A1, and has reached it.
LEMMA AnsweredKnown ==
  ASSUME IInv
  PROVE  /\ AnsweredCalls \subseteq executed \cup refused
         /\ executed \cup refused \subseteq 1 .. taken
         /\ taken \in Nat /\ Len(log) \in Nat /\ taken <= Len(log) /\ taken + 1 \notin AnsweredCalls
<1>1. taken \in 0 .. Len(log) /\ Len(log) \in Nat /\ executed \cup refused \subseteq 1 .. taken
  BY LenProperties DEF IInv, TypeOK, A1TypeOK, CoreTypeOK
<1>2. AnsweredCalls \subseteq executed \cup refused
  BY DEF AnsweredCalls, IInv, A1Inv, AnsweredOnce
<1> QED BY <1>1, <1>2

\* The core's steps that send, give up or wait for a job are none of a call's.
LEMMA CoreStutters ==
  ASSUME UNCHANGED <<log, outcome, taken, executed, refused, answers>>
  PROVE  [Calls!Next]_(Calls!vars)
<1>1. AnsweredCalls' = AnsweredCalls /\ Told' = Told
  BY DEF AnsweredCalls, Told, Requests
<1> QED BY <1>1

LEMMA WriteMaps ==
  ASSUME IInv, NEW c \in Clients, Write(c)
  PROVE  [Calls!Next]_(Calls!vars)
<1>0. outcome \in Seq(Nat) /\ Len(outcome) = Len(log) /\ Len(log) \in Nat
  BY LenProperties DEF IInv, TypeOK, CoreTypeOK
<1>1. UNCHANGED <<taken, executed, refused, answers>>
  BY DEF Write, a1
<1>2. Len(log') = Len(log) + 1
  <2>1. log' = Append(log, [kind |-> doing[c].kind, id |-> counter])
    BY DEF Write
  <2>2. [kind |-> doing[c].kind, id |-> counter] \in [kind : Kinds, id : 0 .. MaxId + 1]
    BY DEF Write, IInv, TypeOK, CoreTypeOK
  <2> QED BY <2>1, <2>2, AppendGrows DEF IInv, TypeOK, CoreTypeOK
<1>3. /\ \A r \in 1 .. Len(log) : outcome'[r] = outcome[r]
      /\ outcome'[Len(log) + 1] = 0
  BY <1>0, AppendGrows DEF Write
<1>4. Told' = Told
  <2>1. \A r : r \in Requests' /\ outcome'[r] # 0 <=> r \in Requests /\ outcome[r] # 0
    BY <1>0, <1>2, <1>3 DEF Requests
  <2>2. \A r \in Requests : outcome'[r] = outcome[r]
    BY <1>3 DEF Requests
  <2> QED BY <2>1, <2>2 DEF Told
<1>5. AnsweredCalls' = AnsweredCalls
  BY <1>1 DEF AnsweredCalls
<1> QED BY <1>1, <1>2, <1>4, <1>5 DEF Calls!Next, Calls!Make

LEMMA PopMaps ==
  ASSUME IInv, KeptInv, PendingInv, NEW c \in Clients, Pop(c)
  PROVE  [Calls!Next]_(Calls!vars)
<1>0. outcome \in Seq(Nat) /\ Len(outcome) = Len(log) /\ Len(log) \in Nat /\ found[c] \in Nat
      /\ responses \in Seq(Nat) /\ pending[c] \in Seq(Nat)
  BY LenProperties DEF IInv, TypeOK, CoreTypeOK
<1>1. UNCHANGED <<log, taken, executed, refused, answers>>
  BY DEF Pop, sender, a1
<1>2. CASE outcome' = outcome
  BY <1>1, <1>2, CoreStutters
<1>3. CASE outcome' # outcome
  <2> DEFINE r == Awaited(c)
             s == responses[found[c]]
  <2>1. /\ at[c] = "pop" /\ found[c] <= Len(responses) /\ s \notin refused
        /\ outcome' = [outcome EXCEPT ![r] = s]
    BY <1>3 DEF Pop, Done
  <2>2. r \in Requests
    BY <2>1, AwaitedIsRequest DEF IInv
  <2>3. found[c] \in 1 .. Len(responses)
    BY <1>0, <2>1 DEF IInv, FoundInv
  <2>4. Answered(s)
    BY <2>3 DEF IInv, OutcomeInv
  <2>5. s \in AnsweredCalls /\ s # 0
    BY <2>4, AnsweredIs, AnsweredKnown
  <2>6. outcome[r] = 0
    <3>1. pending[c] # <<>>
      BY <2>1 DEF IInv, TypeOK, CoreTypeOK
    <3>2. r = pending[c][1] /\ 1 \in 1 .. Len(pending[c])
      BY <1>0, <3>1, TailSeq DEF Awaited
    <3> QED BY <3>2 DEF PendingInv
  <2>7. Dependable => s = r
    <3>1. ASSUME Dependable PROVE s = r
      <4>1. IdsInv /\ Id(s) = Id(r)
        BY <2>1, <3>1 DEF KeptInv, OwnInv, PopsInv
      <4> QED BY <2>2, <2>3, <4>1, ResponseIds
    <3> QED BY <3>1
  <2> HIDE DEF r, s
  <2>8. /\ outcome'[r] = s
        /\ \A q \in Requests \ {r} : outcome'[q] = outcome[q]
    BY <1>0, <2>1, <2>2 DEF Requests
  <2>9. Told' = Told \cup {<<r, s>>}
    <3>1. Told' = {<<q, outcome'[q]>> : q \in {p \in Requests : outcome'[p] # 0}}
      BY <1>1 DEF Told, Requests
    <3>2. {p \in Requests : outcome'[p] # 0} = {p \in Requests : outcome[p] # 0} \cup {r}
      BY <2>2, <2>5, <2>8
    <3>3. \A p \in {p \in Requests : outcome[p] # 0} : outcome'[p] = outcome[p]
      BY <2>6, <2>8
    <3> QED BY <2>8, <3>1, <3>2, <3>3 DEF Told
  <2>10. \A t \in Told : t[1] # r
    BY <2>6 DEF Told
  <2>11. AnsweredCalls' = AnsweredCalls
    BY <1>1 DEF AnsweredCalls
  <2>12. r \in 1 .. Len(log) /\ s \in AnsweredCalls \ refused /\ (~Dependable \/ s = r)
    BY <2>1, <2>2, <2>5, <2>7 DEF Requests, s
  <2> QED BY <1>1, <2>9, <2>10, <2>11, <2>12 DEF Calls!Next, Calls!Return
<1> QED BY <1>2, <1>3

\* A1 takes the lines in their order; what it can do at once it answers at once.
LEMMA TakeMaps ==
  ASSUME IInv, Take \/ Lose
  PROVE  [Calls!Next]_(Calls!vars)
<1> DEFINE r == taken + 1
<1>0. answers \in Seq(Nat) /\ r \in Nat /\ taken < Len(log) /\ taken' = r
  BY AnsweredKnown DEF Take, Lose, IInv, TypeOK, A1TypeOK
<1>1. UNCHANGED <<log, outcome>> /\ Told' = Told
  BY DEF Take, Lose, sender, jobs, Told, Requests
<1> HIDE DEF r
<1>2. CASE UNCHANGED <<executed, refused, answers>>
  <2>1. AnsweredCalls' = AnsweredCalls BY <1>2 DEF AnsweredCalls
  <2> QED BY <1>0, <1>1, <1>2, <2>1 DEF Calls!Next, Calls!Reach, Calls!Lose, r
<1>3. answers' = Append(answers, r) => AnsweredCalls' = AnsweredCalls \cup {r}
  BY <1>0, AnswerMaps DEF AnsweredCalls
<1>4. CASE Execute(r) /\ Take
  <2>1. AnsweredCalls' \in {AnsweredCalls, AnsweredCalls \cup {r}}
    <3>1. CASE UNCHANGED answers BY <3>1 DEF AnsweredCalls
    <3>2. CASE answers' = Append(answers, r) BY <1>3, <3>2
    <3>3. CASE answers' = Append(Append(answers, r), r)
      <4>1. Append(answers, r) \in Seq(Nat) BY <1>0
      <4>2. {Append(answers, r)[i] : i \in 1 .. Len(Append(answers, r))} = AnsweredCalls \cup {r}
        BY <1>0, AnswerMaps DEF AnsweredCalls
      <4>3. AnsweredCalls'
              = {Append(answers, r)[i] : i \in 1 .. Len(Append(answers, r))} \cup {r}
        BY <1>0, <3>3, <4>1, AnswerMaps DEF AnsweredCalls
      <4> QED BY <4>2, <4>3
    <3> QED
      BY <1>4, <3>1, <3>2, <3>3 DEF Execute, Move, Walk, SetMotor, Quick, Answer
  <2>2. executed' = executed \cup {r} /\ UNCHANGED refused
    BY <1>4 DEF Execute
  <2> QED BY <1>0, <1>1, <2>1, <2>2 DEF Calls!Next, Calls!Reach, Calls!Execute, r
<1>5. CASE Refuse(r) /\ Take
  <2>1. AnsweredCalls' = AnsweredCalls \cup {r}
    BY <1>3, <1>5 DEF Refuse, Answer
  <2>2. refused' = refused \cup {r} /\ UNCHANGED executed
    BY <1>5 DEF Refuse
  <2> QED BY <1>0, <1>1, <2>1, <2>2 DEF Calls!Next, Calls!Reach, Calls!Refuse, r
<1> QED BY <1>2, <1>4, <1>5 DEF Take, Lose, r

\* A move or a motor that is done is answered, and was not before.
LEMMA LateAnswerMaps ==
  ASSUME IInv, NEW r \in executed, ~Answered(r), Answer(r),
         UNCHANGED <<log, outcome, taken, executed, refused>>
  PROVE  [Calls!Next]_(Calls!vars)
<1>1. r \in Nat /\ answers \in Seq(Nat)
  BY AnsweredKnown DEF IInv, TypeOK, A1TypeOK
<1>2. AnsweredCalls' = AnsweredCalls \cup {r}
  BY <1>1, AnswerMaps DEF Answer, AnsweredCalls
<1>3. Told' = Told
  BY DEF Told, Requests
<1>4. r \in executed \ AnsweredCalls
  BY AnsweredIs
<1> QED BY <1>2, <1>3, <1>4 DEF Calls!Next, Calls!Answer

LEMMA A1Maps ==
  ASSUME IInv, WheelTick \/ WheelsTick \/ \E m \in Motors : MotorTick(m)
  PROVE  [Calls!Next]_(Calls!vars)
<1>1. UNCHANGED <<log, outcome, taken, executed, refused>>
  BY DEF WheelTick, WheelsTick, MotorTick, sender, jobs
<1>2. CASE UNCHANGED answers
  BY <1>1, <1>2, CoreStutters
<1>3. CASE WheelsTick /\ moving /\ WheelsDone
  <2>1. Answer(moveRequest)
    BY <1>3 DEF WheelsTick
  <2>2. moveRequest # 0
    BY <1>3 DEF IInv, A1Inv, WheelsInv, WheelsDone, Idle, Sides
  <2>3. moveRequest \in executed /\ ~Answered(moveRequest)
    BY <2>2 DEF IInv, A1Inv, WheelsInv
  <2> QED BY <1>1, <2>1, <2>3, LateAnswerMaps
<1>4. ASSUME NEW m \in Motors, MotorTick(m) PROVE [Calls!Next]_(Calls!vars)
  <2>1. Answer(motorRequest[m]) /\ ~isSet[m]
    BY <1>4 DEF MotorTick
  <2>2. motorRequest[m] \in executed /\ ~Answered(motorRequest[m])
    BY <2>1 DEF IInv, A1Inv, MotorsInv
  <2> QED BY <1>1, <2>1, <2>2, LateAnswerMaps
<1> QED BY <1>2, <1>3, <1>4 DEF WheelTick, WheelsTick

\* For any threads, motors and numbers of ids and lines, with or without thread switches and
\* lost lines, jobs implement remote calls; dependable ones, those that tell a caller of its
\* own call.
THEOREM JobsImplementCalls == Spec => ImplementsCalls
<1>1. Init => Calls!Init
  <2> SUFFICES ASSUME Init PROVE Calls!Init
    OBVIOUS
  <2>1. Len(<<>>) = 0 BY EmptySeq
  <2>2. Len(log) = 0 /\ taken = 0 /\ executed = {} /\ refused = {} /\ Len(answers) = 0
    BY <2>1 DEF Init
  <2>3. AnsweredCalls = {} /\ Told = {}
    BY <2>2 DEF AnsweredCalls, Told, Requests
  <2> QED BY <2>2, <2>3 DEF Calls!Init
<1>2. Init => PendingInv
  <2>1. Len(<<>>) = 0 BY EmptySeq
  <2> QED BY <2>1 DEF Init, PendingInv
<1>3. IInv /\ PendingInv /\ [Next]_vars => PendingInv'
  <2> SUFFICES ASSUME IInv, PendingInv, [Next]_vars PROVE PendingInv'
    OBVIOUS
  <2>1. CASE UNCHANGED vars BY <2>1 DEF vars, jobs, PendingInv
  <2> QED BY <2>1, NextPending DEF IInv
<1>4. IInv /\ KeptInv /\ PendingInv /\ [Next]_vars => [Calls!Next]_(Calls!vars)
  <2> SUFFICES ASSUME IInv, KeptInv, PendingInv, [Next]_vars PROVE [Calls!Next]_(Calls!vars)
    OBVIOUS
  <2>1. CASE UNCHANGED vars
    BY <2>1, CoreStutters DEF vars, sender, a1, jobs
  <2>2. ASSUME NEW c \in Clients, Send(c) \/ StopAtCliff(c) \/ Expect(c) \/ Find(c) \/ TimeOut(c)
        PROVE  [Calls!Next]_(Calls!vars)
    BY <2>2, CoreStutters DEF Send, StopAtCliff, Expect, Find, TimeOut, sender, a1, jobs
  <2>3. CASE Read \/ ReaderEnds
    BY <2>3, CoreStutters DEF Read, ReaderEnds, sender, a1, jobs
  <2> QED
    BY <2>1, <2>2, <2>3, WriteMaps, PopMaps, TakeMaps, A1Maps DEF Next, Client
<1> QED
  BY <1>1, <1>2, <1>3, <1>4, Invariance, KeptInvariance, PTL DEF Spec, ImplementsCalls, Calls!Spec
=============================================================================
