------------------------- MODULE RequestServiceProofs -------------------------
(* What holds of the request service for any number of connections and requests: types,      *)
(* that the service leaves a client only when it is gone, where answers go, in which order,  *)
(* that no request gets lost, and that the service never waits unwatched.                    *)
EXTENDS RequestService, SequenceTheorems, TLAPS

\* The threads there are, and what they may read.
ReadersInv ==
  /\ service \in {"start", "poll", "perform"} => connection >= 1
  /\ service = "accept" /\ connection >= 1 => closed
  /\ \A k \in Connections : k > connection => reader[k] = "none"
  /\ service = "start" => reader[connection] = "none"
  /\ \A k \in Connections : on[k] = 0 \/ on[k] \in k .. connection
  /\ \A k \in Connections : reader[k] \in {"read", "put", "closing"} => on[k] # 0
  /\ \A k \in Connections : reader[k] = "none" => on[k] = 0
  /\ \A k \in Connections : reader[k] = "closing" => link[on[k]] = "closed"

\* The client c is gone, and its thread has told so.
Done(c) == link[c] = "closed" /\ reader[c] \in {"check", "ended"}

\* Unless a thread has strayed, the service has been told that the clients before are gone,
\* and is told by the flag that this one is.
LeftInv ==
  Strayed \/
    /\ \A c \in Connections : c < connection => Done(c)
    /\ service = "accept" /\ connection >= 1 => Done(connection)
    /\ service \in {"poll", "perform", "failed"} /\ closed => Done(connection)

\* A request under way parses and is from a client accepted by now.
Known(r) == r \in 1 .. Len(log) /\ log[r].from <= connection /\ log[r].kind # "garbled"

RequestsInv ==
  /\ \A c \in Connections : \A i \in 1 .. Len(wire[c]) :
       wire[c][i] \in 1 .. Len(log) /\ log[wire[c][i]].from = c
  /\ \A k \in Connections : reader[k] = "put" => Known(holds[k])
  /\ \A i \in 1 .. Len(queue) : Known(queue[i])
  /\ service = "perform" => Known(current)
  /\ \A i \in 1 .. Len(served) : Known(served[i].request)

ServiceInv == TypeOK /\ ReadersInv /\ LeftInv /\ RequestsInv /\ AnswerHome

LEMMA InitInv == Init => ServiceInv
<1> SUFFICES ASSUME Init PROVE ServiceInv OBVIOUS
<1> USE ServiceAssumption DEF Init, Connections, threads
<1>1. TypeOK
  <2>1. ClientsTypeOK BY EmptySeq DEF ClientsTypeOK
  <2>2. /\ reader \in [Connections -> {"none", "check", "read", "put", "closing", "ended", "died"}]
        /\ on \in [Connections -> 0 .. MaxConnections] /\ holds \in [Connections -> Nat]
    BY SMT
  <2>3. /\ queue \in Seq(Nat)
        /\ served \in Seq([request : Nat, to : Connections, status : {"OK", "ERROR", "BAD_REQUEST"}])
    BY EmptySeq
  <2>4. /\ connection \in 0 .. MaxConnections /\ closed \in BOOLEAN
        /\ service \in {"accept", "start", "poll", "perform", "failed"} /\ current \in Nat
    <3>1. connection \in 0 .. MaxConnections /\ current \in Nat OBVIOUS
    <3> QED BY <3>1
  <2> HIDE DEF Init, Connections, threads
  <2> QED BY <2>1, <2>2, <2>3, <2>4 DEF TypeOK, HandlerTypeOK
<1>2. ReadersInv /\ LeftInv BY DEF ReadersInv, LeftInv, Strayed
<1>3. RequestsInv /\ AnswerHome BY DEF RequestsInv, AnswerHome
<1> QED BY <1>1, <1>2, <1>3 DEF ServiceInv

\* Who reads, reads from a connection there is.
LEMMA OnConnections ==
  ASSUME ServiceInv, NEW k \in Connections
  PROVE  on[k] \in 0 .. connection /\ (on[k] # 0 => on[k] \in Connections)
BY ServiceAssumption DEF ServiceInv, TypeOK, HandlerTypeOK, ReadersInv, Connections

LEMMA InLog ==
  ASSUME TypeOK, NEW r \in 1 .. Len(log)
  PROVE  log[r].from \in Connections /\ log[r].kind \in Kinds /\ Len(log) \in Nat
<1>1. log \in Seq([from : Connections, kind : Kinds]) BY DEF TypeOK, ClientsTypeOK
<1>2. log[r] \in [from : Connections, kind : Kinds] BY <1>1, ElementOfSeq
<1> QED BY <1>1, <1>2

-----------------------------------------------------------------------------
(* The clients' steps.                                                      *)

LEMMA ConnectKeeps ==
  ASSUME ServiceInv, NEW c \in Connections, Connect(c)
  PROVE  ServiceInv'
<1> USE DEF Connect, handler, threads
<1>1. TypeOK' BY DEF ServiceInv, TypeOK, ClientsTypeOK, HandlerTypeOK
<1>2. ReadersInv'
  <2>1. ASSUME NEW k \in Connections, reader[k] = "closing" PROVE link'[on[k]] = "closed"
    BY <2>1, OnConnections DEF ServiceInv, TypeOK, ClientsTypeOK, ReadersInv
  <2> QED BY <2>1 DEF ServiceInv, ReadersInv
<1>3. LeftInv' BY DEF ServiceInv, TypeOK, ClientsTypeOK, LeftInv, Done, Strayed
<1>4. RequestsInv' BY DEF ServiceInv, RequestsInv, Known
<1>5. AnswerHome' BY DEF ServiceInv, TypeOK, ClientsTypeOK, AnswerHome, Strayed
<1> QED BY <1>1, <1>2, <1>3, <1>4, <1>5 DEF ServiceInv

LEMMA GoesKeeps ==
  ASSUME ServiceInv, NEW c \in Connections, NEW how \in {"closed", "lost"}, Goes(c, how)
  PROVE  ServiceInv'
<1> USE DEF Goes, handler, threads
<1>0. \A d \in Connections : wire'[d] = wire[d] \/ wire'[d] = <<>>
  BY DEF ServiceInv, TypeOK, ClientsTypeOK
<1>1. TypeOK' BY EmptySeq DEF ServiceInv, TypeOK, ClientsTypeOK, HandlerTypeOK
<1>2. ReadersInv'
  <2>1. ASSUME NEW k \in Connections, reader[k] = "closing" PROVE link'[on[k]] = "closed"
    BY <2>1, OnConnections DEF ServiceInv, TypeOK, ClientsTypeOK, ReadersInv
  <2> QED BY <2>1 DEF ServiceInv, ReadersInv
<1>3. LeftInv' BY DEF ServiceInv, TypeOK, ClientsTypeOK, HandlerTypeOK, LeftInv, Done, Strayed, ReadersInv, Connections
<1>4. RequestsInv'
  <2>1. ASSUME NEW d \in Connections, NEW i \in 1 .. Len(wire'[d])
        PROVE  wire'[d][i] \in 1 .. Len(log) /\ log[wire'[d][i]].from = d
    BY <1>0, <2>1 DEF ServiceInv, RequestsInv
  <2> QED BY <2>1 DEF ServiceInv, RequestsInv, Known
<1>5. AnswerHome'
  <2>1. \A d \in Connections : link[d] = "closed" => link'[d] = "closed"
    BY DEF ServiceInv, TypeOK, ClientsTypeOK
  <2>2. \A i \in 1 .. Len(served) : log[served[i].request].from \in Connections
    BY InLog DEF ServiceInv, RequestsInv, Known
  <2> QED BY <2>1, <2>2 DEF ServiceInv, AnswerHome, Strayed
<1> QED BY <1>1, <1>2, <1>3, <1>4, <1>5 DEF ServiceInv

LEMMA AppendFacts ==
  ASSUME NEW S, NEW s \in Seq(S), NEW e \in S
  PROVE  /\ Append(s, e) \in Seq(S) /\ Len(Append(s, e)) = Len(s) + 1 /\ Len(s) \in Nat
         /\ \A i \in 1 .. Len(s) : Append(s, e)[i] = s[i]
         /\ Append(s, e)[Len(s) + 1] = e
OBVIOUS

LEMMA TailFacts ==
  ASSUME NEW S, NEW s \in Seq(S), s # <<>>
  PROVE  /\ Tail(s) \in Seq(S) /\ Len(Tail(s)) = Len(s) - 1 /\ Len(s) \in Nat \ {0}
         /\ \A i \in 1 .. Len(Tail(s)) : Tail(s)[i] = s[i + 1]
         /\ Head(s) = s[1] /\ Head(s) \in S
OBVIOUS

LEMMA SendKeeps ==
  ASSUME ServiceInv, NEW c \in Connections, Send(c)
  PROVE  ServiceInv'
<1> USE DEF Send, handler, threads
<1>0. PICK kind \in Kinds : log' = Append(log, [from |-> c, kind |-> kind]) OBVIOUS
<1>1. /\ Len(log') = Len(log) + 1 /\ Len(log) \in Nat
      /\ \A i \in 1 .. Len(log) : log'[i] = log[i]
      /\ log'[Len(log) + 1].from = c
      /\ log' \in Seq([from : Connections, kind : Kinds])
  BY <1>0, AppendFacts DEF ServiceInv, TypeOK, ClientsTypeOK
<1>2. /\ wire[c] \in Seq(Nat) /\ wire'[c] = Append(wire[c], Len(log) + 1)
      /\ \A d \in Connections \ {c} : wire'[d] = wire[d]
  BY DEF ServiceInv, TypeOK, ClientsTypeOK
<1>3. wire'[c] \in Seq(Nat) /\ Len(wire'[c]) = Len(wire[c]) + 1 /\ Len(wire[c]) \in Nat
      /\ \A i \in 1 .. Len(wire[c]) : wire'[c][i] = wire[c][i]
      /\ wire'[c][Len(wire[c]) + 1] = Len(log) + 1
  BY <1>1, <1>2, AppendFacts
<1>4. TypeOK' BY <1>1, <1>2, <1>3 DEF ServiceInv, TypeOK, ClientsTypeOK, HandlerTypeOK
<1>5. ReadersInv' BY DEF ServiceInv, ReadersInv
<1>6. LeftInv' BY DEF ServiceInv, LeftInv, Done, Strayed
<1>7. ASSUME NEW r, Known(r) PROVE Known(r)'
  BY <1>1, <1>7 DEF Known
<1>8. RequestsInv'
  <2>1. ASSUME NEW d \in Connections, NEW i \in 1 .. Len(wire'[d])
        PROVE  wire'[d][i] \in 1 .. Len(log') /\ log'[wire'[d][i]].from = d
    <3>1. CASE d = c
      BY <1>1, <1>3, <2>1, <3>1 DEF ServiceInv, RequestsInv
    <3>2. CASE d # c
      BY <1>1, <1>2, <2>1, <3>2 DEF ServiceInv, RequestsInv
    <3> QED BY <3>1, <3>2
  <2> QED BY <1>7, <2>1 DEF ServiceInv, RequestsInv
<1>9. AnswerHome' BY <1>1 DEF ServiceInv, RequestsInv, Known, AnswerHome, Strayed
<1> QED BY <1>4, <1>5, <1>6, <1>8, <1>9 DEF ServiceInv
-----------------------------------------------------------------------------
(* The service thread's steps.                                              *)

\* A strayed thread stays one.
LEMMA StrayedStays ==
  ASSUME ServiceInv, Strayed, Service \/ SendFails \/ \E k \in Connections : Reader(k) \/ ReadFails(k)
  PROVE  Strayed'
<1> PICK s \in Connections : on[s] > s BY DEF Strayed
<1> SUFFICES on'[s] > s BY DEF Strayed
<1>1. on[s] <= connection /\ connection \in Nat /\ on[s] \in Nat /\ s \in Nat
  BY DEF ServiceInv, TypeOK, HandlerTypeOK, ReadersInv, Connections
<1>2. CASE UNCHANGED on
  BY <1>2
<1>3. ASSUME NEW k \in Connections, Check(k) PROVE on'[s] > s
  BY <1>1, <1>3 DEF Check, ServiceInv, TypeOK, HandlerTypeOK
<1> QED
  BY <1>2, <1>3 DEF Service, Accept, StartHandling, Leave, Take, Perform, SendFails, Reader,
     ReadLine, Put, ReadEnd, SetClosed, ReadFails, threads

LEMMA AcceptKeeps ==
  ASSUME ServiceInv, Accept
  PROVE  ServiceInv'
<1> USE DEF Accept, clients, threads
<1>0. connection \in Nat /\ connection' = connection + 1 /\ connection' \in Connections
  BY ServiceAssumption DEF ServiceInv, TypeOK, HandlerTypeOK, Connections
<1>1. TypeOK' BY ServiceAssumption DEF ServiceInv, TypeOK, ClientsTypeOK, HandlerTypeOK
<1>2. ReadersInv' BY <1>0 DEF ServiceInv, TypeOK, HandlerTypeOK, ReadersInv, Connections
<1>3. LeftInv' BY <1>0 DEF ServiceInv, LeftInv, Done, Strayed, Connections
<1>4. RequestsInv'
  <2>1. ASSUME NEW r, Known(r) PROVE Known(r)'
    BY <1>0, <2>1, InLog DEF Known, ServiceInv, Connections
  <2> QED BY <2>1 DEF ServiceInv, RequestsInv
<1>5. AnswerHome' BY DEF ServiceInv, AnswerHome, Strayed
<1> QED BY <1>1, <1>2, <1>3, <1>4, <1>5 DEF ServiceInv

LEMMA StartKeeps ==
  ASSUME ServiceInv, StartHandling
  PROVE  ServiceInv'
<1> USE DEF StartHandling, clients, threads
<1>0. connection \in Connections /\ reader[connection] = "none" /\ on[connection] = 0
  BY ServiceAssumption DEF ServiceInv, TypeOK, HandlerTypeOK, ReadersInv, Connections
<1>1. /\ reader'[connection] = "check" /\ on'[connection] = 0
      /\ \A k \in Connections \ {connection} : reader'[k] = reader[k]
  BY <1>0 DEF ServiceInv, TypeOK, HandlerTypeOK
<1>2. TypeOK' BY <1>0 DEF ServiceInv, TypeOK, ClientsTypeOK, HandlerTypeOK
<1>3. ReadersInv' BY <1>0, <1>1 DEF ServiceInv, TypeOK, HandlerTypeOK, ReadersInv, Connections
<1>4. LeftInv'
  <2>1. CASE Strayed BY <2>1, StrayedStays DEF Service, LeftInv
  <2>2. CASE ~Strayed
    BY <1>0, <1>1, <2>2 DEF ServiceInv, LeftInv, Done
  <2> QED BY <2>1, <2>2
<1>5. RequestsInv' BY <1>0, <1>1 DEF ServiceInv, RequestsInv, Known
<1>6. AnswerHome' BY StrayedStays DEF Service, ServiceInv, AnswerHome
<1> QED BY <1>2, <1>3, <1>4, <1>5, <1>6 DEF ServiceInv

LEMMA LeaveKeeps ==
  ASSUME ServiceInv, Leave
  PROVE  ServiceInv'
<1> USE DEF Leave, clients, threads
<1>1. TypeOK' BY DEF ServiceInv, TypeOK, ClientsTypeOK, HandlerTypeOK
<1>2. ReadersInv' BY DEF ServiceInv, ReadersInv
<1>3. LeftInv' BY DEF ServiceInv, LeftInv, Done, Strayed
<1>4. RequestsInv' BY DEF ServiceInv, RequestsInv, Known
<1>5. AnswerHome' BY DEF ServiceInv, AnswerHome, Strayed
<1> QED BY <1>1, <1>2, <1>3, <1>4, <1>5 DEF ServiceInv

LEMMA TakeKeeps ==
  ASSUME ServiceInv, Take
  PROVE  ServiceInv'
<1> USE DEF Take, clients, threads
<1>0. queue \in Seq(Nat) /\ queue # <<>> /\ queue' = Tail(queue) /\ current' = Head(queue)
  BY DEF ServiceInv, TypeOK, HandlerTypeOK
<1>1. /\ queue' \in Seq(Nat) /\ Len(queue') = Len(queue) - 1 /\ Len(queue) \in Nat \ {0}
      /\ \A i \in 1 .. Len(queue') : queue'[i] = queue[i + 1]
      /\ current' = queue[1] /\ current' \in Nat
  BY <1>0, TailFacts
<1>2. TypeOK' BY <1>1 DEF ServiceInv, TypeOK, ClientsTypeOK, HandlerTypeOK
<1>3. ReadersInv' BY DEF ServiceInv, ReadersInv
<1>4. LeftInv' BY DEF ServiceInv, LeftInv, Done, Strayed
<1>5. RequestsInv'
  <2>1. \A i \in 1 .. Len(queue') : Known(queue'[i])
    BY <1>1 DEF ServiceInv, RequestsInv
  <2>2. Known(current')
    BY <1>1 DEF ServiceInv, RequestsInv
  <2> QED BY <2>1, <2>2 DEF ServiceInv, RequestsInv, Known
<1>6. AnswerHome' BY DEF ServiceInv, AnswerHome, Strayed
<1> QED BY <1>2, <1>3, <1>4, <1>5, <1>6 DEF ServiceInv

LEMMA PerformKeeps ==
  ASSUME ServiceInv, Perform
  PROVE  ServiceInv'
<1> USE DEF Perform, clients, threads
<1> DEFINE Answers == [request : Nat, to : Connections, status : {"OK", "ERROR", "BAD_REQUEST"}]
<1>0. /\ current \in 1 .. Len(log) /\ log[current].from <= connection
      /\ log[current].from \in Connections
      /\ log[current].kind \in {"ok", "raises", "unknown"} /\ Len(log) \in Nat
  BY ServiceAssumption, InLog DEF ServiceInv, RequestsInv, Known
<1>1. connection \in Connections
  BY ServiceAssumption DEF ServiceInv, TypeOK, HandlerTypeOK, ReadersInv, Connections
<1>2. Response \in Answers /\ Response.request = current /\ Response.to = connection
  BY <1>0, <1>1 DEF Response, StatusOf
<1>3. /\ served' \in Seq(Answers) /\ Len(served') = Len(served) + 1 /\ Len(served) \in Nat
      /\ \A i \in 1 .. Len(served) : served'[i] = served[i]
      /\ served'[Len(served) + 1] = Response
  BY <1>2, AppendFacts DEF ServiceInv, TypeOK, HandlerTypeOK, Respond
<1>4. TypeOK' BY <1>3 DEF ServiceInv, TypeOK, ClientsTypeOK, HandlerTypeOK
<1>5. ReadersInv' BY DEF ServiceInv, ReadersInv
<1>6. LeftInv' BY DEF ServiceInv, LeftInv, Done, Strayed
<1>7. RequestsInv'
  <2>1. ASSUME NEW i \in 1 .. Len(served') PROVE Known(served'[i].request)
    <3>1. CASE i \in 1 .. Len(served) BY <1>3, <3>1 DEF ServiceInv, RequestsInv
    <3>2. CASE i = Len(served) + 1 BY <1>2, <1>3, <3>2 DEF ServiceInv, RequestsInv
    <3> QED BY <1>3, <3>1, <3>2
  <2> QED BY <2>1 DEF ServiceInv, RequestsInv, Known
<1>8. AnswerHome'
  <2> SUFFICES ASSUME ~Strayed, NEW i \in 1 .. Len(served')
               PROVE  LET asker == log[served'[i].request].from
                      IN served'[i].to = asker \/ (asker < served'[i].to /\ link[asker] = "closed")
    BY DEF AnswerHome, Strayed
  <2>1. CASE i \in 1 .. Len(served) BY <1>3, <2>1 DEF ServiceInv, AnswerHome
  <2>2. CASE i = Len(served) + 1
    <3>1. log[current].from < connection => link[log[current].from] = "closed"
      BY <1>0 DEF ServiceInv, LeftInv, Done
    <3> QED BY <1>0, <1>1, <1>2, <1>3, <2>2, <3>1 DEF Connections
  <2> QED BY <1>3, <2>1, <2>2
<1> QED BY <1>4, <1>5, <1>6, <1>7, <1>8 DEF ServiceInv

LEMMA SendFailsKeeps ==
  ASSUME ServiceInv, SendFails
  PROVE  ServiceInv'
<1> USE DEF SendFails, clients, threads
<1>1. TypeOK' BY DEF ServiceInv, TypeOK, ClientsTypeOK, HandlerTypeOK
<1>2. ReadersInv' BY DEF ServiceInv, ReadersInv
<1>3. LeftInv' BY DEF ServiceInv, LeftInv, Done, Strayed
<1>4. RequestsInv' BY DEF ServiceInv, RequestsInv, Known
<1>5. AnswerHome' BY DEF ServiceInv, AnswerHome, Strayed
<1> QED BY <1>1, <1>2, <1>3, <1>4, <1>5 DEF ServiceInv
-----------------------------------------------------------------------------
(* The reader threads' steps.                                               *)

\* With none strayed it is the last client's thread that reads, and the flag is not set.
LEMMA ReaderIsLast ==
  ASSUME ServiceInv, ~Strayed, NEW k \in Connections, reader[k] \in {"read", "put", "closing"}
  PROVE  /\ k = connection /\ on[k] = connection
         /\ service \in {"poll", "perform", "failed"} /\ ~closed
<1>1. /\ connection \in Nat /\ k \in Nat /\ on[k] \in k .. connection /\ on[k] <= k
      /\ service \in {"accept", "start", "poll", "perform", "failed"}
  BY DEF ServiceInv, TypeOK, HandlerTypeOK, Connections, ReadersInv, Strayed
<1>11. ~(k < connection) BY DEF ServiceInv, LeftInv, Done
<1>2. k = connection /\ on[k] = connection BY <1>1, <1>11
<1>3. ~Done(connection) /\ service # "start" BY <1>2 DEF Done, ServiceInv, ReadersInv
<1>4. connection >= 1 BY <1>2 DEF Connections
<1> QED BY <1>1, <1>2, <1>3, <1>4 DEF ServiceInv, LeftInv

LEMMA CheckKeeps ==
  ASSUME ServiceInv, NEW k \in Connections, Check(k)
  PROVE  ServiceInv'
<1>0. /\ k <= connection /\ connection \in Connections /\ connection \in Nat /\ k \in Nat
      /\ service \in {"accept", "start", "poll", "perform", "failed"}
  BY ServiceAssumption DEF Check, ServiceInv, TypeOK, HandlerTypeOK, ReadersInv, Connections
<1>1. /\ reader[k] = "check"
      /\ reader' = [reader EXCEPT ![k] = IF closed THEN "ended" ELSE "read"]
      /\ reader'[k] = (IF closed THEN "ended" ELSE "read")
      /\ on'[k] = (IF closed THEN on[k] ELSE connection)
      /\ \A j \in Connections \ {k} : reader'[j] = reader[j] /\ on'[j] = on[j]
      /\ on' \in [Connections -> 0 .. MaxConnections]
      /\ UNCHANGED <<link, wire, log, connection, closed, service, current, served, queue, holds>>
  BY <1>0 DEF Check, clients, handler, ServiceInv, TypeOK, HandlerTypeOK
<1>2. TypeOK' BY <1>1 DEF ServiceInv, TypeOK, ClientsTypeOK, HandlerTypeOK
<1>3. ReadersInv'
  <2>1. ASSUME NEW j \in Connections
        PROVE  /\ on'[j] = 0 \/ on'[j] \in j .. connection
               /\ reader'[j] \in {"read", "put", "closing"} => on'[j] # 0
               /\ reader'[j] = "none" => on'[j] = 0
               /\ reader'[j] = "closing" => link[on'[j]] = "closed"
               /\ j > connection => reader'[j] = "none"
    <3>1. CASE j = k
      <4>1. on[k] = 0 \/ on[k] \in k .. connection BY DEF ServiceInv, ReadersInv
      <4>2. connection # 0 BY <1>0 DEF Connections
      <4> QED BY <1>0, <1>1, <3>1, <4>1, <4>2
    <3>2. CASE j # k BY <1>1, <3>2 DEF ServiceInv, ReadersInv
    <3> QED BY <3>1, <3>2
  <2>2. service = "start" => reader'[connection] = "none"
    BY <1>0, <1>1 DEF ServiceInv, ReadersInv
  <2> QED BY <1>1, <2>1, <2>2 DEF ServiceInv, ReadersInv
<1>4. LeftInv'
  <2> SUFFICES ASSUME ~Strayed' PROVE LeftInv' BY DEF LeftInv
  <2>1. ~Strayed BY StrayedStays DEF Reader
  <2>2. CASE closed BY <1>0, <1>1, <2>1, <2>2 DEF ServiceInv, LeftInv, Done
  <2>3. CASE ~closed
    <3>1. ~(on'[k] > k) BY DEF Strayed
    <3>2. k = connection BY <1>0, <1>1, <2>3, <3>1
    <3>3. service # "accept" BY <1>0, <2>3 DEF ServiceInv, ReadersInv, Connections
    <3> QED BY <1>0, <1>1, <2>1, <2>3, <3>2, <3>3 DEF ServiceInv, LeftInv, Done
  <2> QED BY <2>2, <2>3
<1>5. RequestsInv' BY <1>1 DEF ServiceInv, RequestsInv, Known
<1>6. AnswerHome' BY <1>1, StrayedStays DEF Reader, ServiceInv, AnswerHome
<1> QED BY <1>2, <1>3, <1>4, <1>5, <1>6 DEF ServiceInv

LEMMA ReadLineKeeps ==
  ASSUME ServiceInv, NEW k \in Connections, ReadLine(k)
  PROVE  ServiceInv'
<1> DEFINE c == on[k]
           h == Head(wire[c])
<1>0. c \in Connections /\ reader[k] = "read" /\ c <= connection /\ connection \in Nat
  BY OnConnections DEF ReadLine, ServiceInv, TypeOK, HandlerTypeOK, ReadersInv
<1>1. /\ wire' \in [Connections -> Seq(Nat)]
      /\ wire'[c] = Tail(wire[c]) /\ \A d \in Connections \ {c} : wire'[d] = wire[d]
      /\ wire[c] \in Seq(Nat) /\ wire[c] # <<>>
      /\ UNCHANGED <<link, log, connection, closed, service, current, served, queue, on>>
  BY <1>0 DEF ReadLine, handler, ServiceInv, TypeOK, ClientsTypeOK
<1>2. /\ wire'[c] \in Seq(Nat) /\ Len(wire'[c]) = Len(wire[c]) - 1 /\ Len(wire[c]) \in Nat \ {0}
      /\ \A i \in 1 .. Len(wire'[c]) : wire'[c][i] = wire[c][i + 1]
      /\ h = wire[c][1] /\ h \in Nat
  <2> DEFINE w == wire[c]
  <2>1. w \in Seq(Nat) /\ w # <<>> BY <1>1
  <2> HIDE DEF w
  <2>2. /\ Tail(w) \in Seq(Nat) /\ Len(Tail(w)) = Len(w) - 1 /\ Len(w) \in Nat \ {0}
        /\ \A i \in 1 .. Len(Tail(w)) : Tail(w)[i] = w[i + 1]
        /\ Head(w) = w[1] /\ Head(w) \in Nat
    BY <2>1, TailFacts
  <2> QED BY <1>1, <2>2 DEF w
<1> HIDE DEF h
<1>3. /\ reader' \in [Connections -> {"none", "check", "read", "put", "closing", "ended", "died"}]
      /\ holds' \in [Connections -> Nat]
      /\ reader'[k] \in {"put", "died", "read"}
      /\ \A j \in Connections \ {k} : reader'[j] = reader[j] /\ holds'[j] = holds[j]
      /\ reader'[k] = "put" => holds'[k] = h /\ log[h].kind # "garbled"
  <2>1. reader \in [Connections -> {"none", "check", "read", "put", "closing", "ended", "died"}]
        /\ holds \in [Connections -> Nat]
    BY DEF ServiceInv, TypeOK, HandlerTypeOK
  <2>2. CASE /\ log[h].kind # "garbled"
             /\ reader' = [reader EXCEPT ![k] = "put"] /\ holds' = [holds EXCEPT ![k] = h]
    BY <1>2, <2>1, <2>2
  <2>3. CASE reader' = [reader EXCEPT ![k] = "died"] /\ holds' = holds
    BY <2>1, <2>3
  <2>4. CASE reader' = reader /\ holds' = holds
    BY <1>0, <2>1, <2>4
  <2> QED BY <2>2, <2>3, <2>4 DEF ReadLine, h
<1>4. TypeOK' BY <1>1, <1>3 DEF ServiceInv, TypeOK, ClientsTypeOK, HandlerTypeOK
<1>5. ReadersInv'
  <2>1. \A j \in Connections :
              \/ reader'[j] \in {"put", "died", "read"} /\ reader[j] = "read"
              \/ reader'[j] = reader[j]
    BY <1>0, <1>3
  <2>2. service = "start" => reader'[connection] = "none"
    <3>1. service = "start" => connection \in Connections /\ reader[connection] = "none"
      BY ServiceAssumption DEF ServiceInv, TypeOK, HandlerTypeOK, ReadersInv, Connections
    <3> QED BY <1>0, <1>3, <3>1
  <2> QED BY <1>1, <2>1, <2>2 DEF ServiceInv, ReadersInv
<1>6. LeftInv'
  <2> SUFFICES ASSUME ~Strayed PROVE LeftInv' BY <1>1 DEF LeftInv, Strayed
  <2>1. k = connection /\ service \in {"poll", "perform", "failed"} /\ ~closed
    BY <1>0, ReaderIsLast
  <2> QED BY <1>0, <1>1, <1>3, <2>1 DEF ServiceInv, LeftInv, Done, Connections
<1>7. RequestsInv'
  <2>1. ASSUME NEW d \in Connections, NEW i \in 1 .. Len(wire'[d])
        PROVE  wire'[d][i] \in 1 .. Len(log) /\ log[wire'[d][i]].from = d
    <3>1. CASE d = c
      <4>1. i + 1 \in 1 .. Len(wire[d]) /\ wire'[d][i] = wire[d][i + 1]
        BY <1>2, <2>1, <3>1
      <4> QED BY <4>1 DEF ServiceInv, RequestsInv
    <3>2. CASE d # c BY <1>1, <2>1, <3>2 DEF ServiceInv, RequestsInv
    <3> QED BY <3>1, <3>2
  <2>2. reader'[k] = "put" => Known(holds'[k])
    <3>1. 1 \in 1 .. Len(wire[c])
      BY <1>2
    <3>2. h \in 1 .. Len(log) /\ log[h].from = c
      BY <1>0, <1>2, <3>1 DEF ServiceInv, RequestsInv
    <3> QED
      BY <1>0, <1>3, <3>2 DEF Known
  <2>3. ASSUME NEW j \in Connections, reader'[j] = "put" PROVE Known(holds'[j])
    BY <1>3, <2>2, <2>3 DEF ServiceInv, RequestsInv
  <2> QED BY <1>1, <2>1, <2>3 DEF ServiceInv, RequestsInv, Known
<1>8. AnswerHome' BY <1>1 DEF ServiceInv, AnswerHome, Strayed
<1> QED BY <1>4, <1>5, <1>6, <1>7, <1>8 DEF ServiceInv

LEMMA PutKeeps ==
  ASSUME ServiceInv, NEW k \in Connections, Put(k)
  PROVE  ServiceInv'
<1> USE DEF Put, clients, handler
<1>0. /\ holds[k] \in Nat /\ Known(holds[k])
      /\ reader'[k] = "check"
      /\ \A j \in Connections \ {k} : reader'[j] = reader[j] /\ holds'[j] = holds[j]
  BY DEF ServiceInv, TypeOK, HandlerTypeOK, RequestsInv
<1>1. /\ queue' \in Seq(Nat) /\ Len(queue') = Len(queue) + 1 /\ Len(queue) \in Nat
      /\ \A i \in 1 .. Len(queue) : queue'[i] = queue[i]
      /\ queue'[Len(queue) + 1] = holds[k]
  BY <1>0, AppendFacts DEF ServiceInv, TypeOK, HandlerTypeOK
<1>2. TypeOK' BY <1>1 DEF ServiceInv, TypeOK, ClientsTypeOK, HandlerTypeOK
<1>3. ReadersInv' BY <1>0 DEF ServiceInv, ReadersInv
<1>4. LeftInv' BY <1>0 DEF ServiceInv, LeftInv, Done, Strayed
<1>5. RequestsInv'
  <2>1. ASSUME NEW i \in 1 .. Len(queue') PROVE Known(queue'[i])
    <3>1. CASE i \in 1 .. Len(queue) BY <1>1, <3>1 DEF ServiceInv, RequestsInv
    <3>2. CASE i = Len(queue) + 1 BY <1>0, <1>1, <3>2
    <3> QED BY <1>1, <3>1, <3>2
  <2> QED BY <1>0, <2>1 DEF ServiceInv, RequestsInv, Known
<1>6. AnswerHome' BY DEF ServiceInv, AnswerHome, Strayed
<1> QED BY <1>2, <1>3, <1>4, <1>5, <1>6 DEF ServiceInv

\* The thread finds the end, says so, or dies.
LEMMA EndKeeps ==
  ASSUME ServiceInv, NEW k \in Connections, ReadEnd(k) \/ SetClosed(k) \/ ReadFails(k)
  PROVE  ServiceInv'
<1>0. /\ reader[k] \in {"read", "closing"}
      /\ reader' \in [Connections -> {"none", "check", "read", "put", "closing", "ended", "died"}]
      /\ reader'[k] \in {"closing", "check", "died"}
      /\ \A j \in Connections \ {k} : reader'[j] = reader[j]
      /\ reader'[k] = "closing" => link[on[k]] = "closed"
      /\ closed' = (closed \/ SetClosed(k)) /\ closed' \in BOOLEAN
      /\ SetClosed(k) => reader'[k] = "check" /\ link[on[k]] = "closed"
      /\ UNCHANGED <<link, wire, log, connection, service, current, served, queue, on, holds>>
  <2> USE DEF clients, handler, ServiceInv, TypeOK, HandlerTypeOK
  <2>1. CASE ReadEnd(k)
    <3>1. ~SetClosed(k) BY <2>1 DEF ReadEnd, SetClosed
    <3> QED BY <2>1, <3>1 DEF ReadEnd
  <2>2. CASE SetClosed(k) BY <2>2 DEF SetClosed, ReadersInv
  <2>3. CASE ReadFails(k)
    <3>1. ~SetClosed(k) BY <2>3 DEF ReadFails, SetClosed
    <3> QED BY <2>3, <3>1 DEF ReadFails
  <2> QED BY <2>1, <2>2, <2>3
<1>1. TypeOK' BY <1>0 DEF ServiceInv, TypeOK, ClientsTypeOK, HandlerTypeOK
<1>2. ReadersInv'
  <2>1. \A j \in Connections : \/ reader'[j] \in {"closing", "check", "died"} /\ reader[j] \in {"read", "closing"}
                              \/ reader'[j] = reader[j]
    BY <1>0
  <2>2. service = "start" => reader'[connection] = "none"
    <3>1. service = "start" => connection \in Connections /\ reader[connection] = "none"
      BY ServiceAssumption DEF ServiceInv, TypeOK, HandlerTypeOK, ReadersInv, Connections
    <3> QED BY <1>0, <3>1
  <2>3. \A j \in Connections : reader'[j] = "closing" => link[on[j]] = "closed"
    BY <1>0 DEF ServiceInv, ReadersInv
  <2> QED BY <1>0, <2>1, <2>2, <2>3 DEF ServiceInv, ReadersInv
<1>3. LeftInv'
  <2> SUFFICES ASSUME ~Strayed PROVE LeftInv' BY <1>0 DEF LeftInv, Strayed
  <2>1. k = connection /\ on[k] = connection /\ service \in {"poll", "perform", "failed"} /\ ~closed
    BY <1>0, ReaderIsLast
  <2>2. \A c \in Connections : c < connection => Done(c)'
    BY <1>0, <2>1 DEF ServiceInv, LeftInv, Done, Connections
  <2>3. closed' => Done(connection)' BY <1>0, <2>1 DEF Done
  <2> QED BY <1>0, <2>1, <2>2, <2>3 DEF LeftInv
<1>4. RequestsInv' BY <1>0 DEF ServiceInv, RequestsInv, Known
<1>5. AnswerHome' BY <1>0 DEF ServiceInv, AnswerHome, Strayed
<1> QED BY <1>1, <1>2, <1>3, <1>4, <1>5 DEF ServiceInv

LEMMA StutterKeeps == ServiceInv /\ UNCHANGED vars => ServiceInv'
<1> SUFFICES ASSUME ServiceInv, UNCHANGED vars PROVE ServiceInv' OBVIOUS
<1> USE DEF vars, clients, handler, threads, ServiceInv
<1>1. TypeOK' BY DEF TypeOK, ClientsTypeOK, HandlerTypeOK
<1>2. ReadersInv' BY DEF ReadersInv
<1>3. LeftInv' BY DEF LeftInv, Done, Strayed
<1>4. RequestsInv' BY DEF RequestsInv, Known
<1>5. AnswerHome' BY DEF AnswerHome, Strayed
<1> QED BY <1>1, <1>2, <1>3, <1>4, <1>5

-----------------------------------------------------------------------------
(* No request is lost, and somebody watches the connection.                 *)

\* While the service polls or performs, the flag is set or the thread of the connection is
\* there, unless it died.
WatchInv ==
  service \in {"poll", "perform"} =>
    closed \/ reader[connection] \in {"check", "read", "put", "closing", "died"}

LEMMA WatchStep ==
  ASSUME ServiceInv, WatchInv, [Next]_vars
  PROVE  WatchInv'
<1> SUFFICES ASSUME service' \in {"poll", "perform"}, ~closed'
             PROVE  reader'[connection'] \in {"check", "read", "put", "closing", "died"}
  BY DEF WatchInv
<1>0. reader \in [Connections -> {"none", "check", "read", "put", "closing", "ended", "died"}]
  BY DEF ServiceInv, TypeOK, HandlerTypeOK
<1>1. CASE \E c \in Connections : Connect(c) \/ Send(c) \/ Close(c) \/ Vanish(c)
  BY <1>1 DEF Connect, Send, Close, Vanish, Goes, handler, threads, WatchInv
<1>2. CASE StartHandling
  <2>1. connection \in Connections
    BY <1>2, ServiceAssumption DEF StartHandling, ServiceInv, TypeOK, HandlerTypeOK, ReadersInv, Connections
  <2> QED BY <1>0, <1>2, <2>1 DEF StartHandling
<1>3. CASE Accept \/ Leave \/ Take \/ Perform \/ SendFails
  BY <1>3 DEF Accept, Leave, Take, Perform, SendFails, threads, WatchInv
<1>4. ASSUME NEW k \in Connections, Reader(k) \/ ReadFails(k)
      PROVE  reader'[connection'] \in {"check", "read", "put", "closing", "died"}
  <2>1. service' = service /\ connection' = connection /\ (closed => closed')
    BY <1>4 DEF Reader, Check, ReadLine, Put, ReadEnd, SetClosed, ReadFails, handler
  <2>2. reader[connection] \in {"check", "read", "put", "closing", "died"} BY <2>1 DEF WatchInv
  <2>3. \/ reader' = reader
        \/ \E to \in {"read", "put", "died", "closing", "check"} : reader' = [reader EXCEPT ![k] = to]
    BY <1>4, <2>1 DEF Reader, Check, ReadLine, Put, ReadEnd, SetClosed, ReadFails
  <2>4. connection \in Connections
    BY <2>1, ServiceAssumption DEF ServiceInv, TypeOK, HandlerTypeOK, ReadersInv, Connections
  <2> QED BY <1>0, <2>1, <2>2, <2>3, <2>4
<1>5. CASE UNCHANGED vars BY <1>5 DEF vars, handler, threads, WatchInv
<1> QED BY <1>1, <1>2, <1>3, <1>4, <1>5 DEF Next, Service

\* Of two requests, the one that was sent first, or by the client that was accepted first.
Before(r, s) == log[r].from < log[s].from \/ (log[r].from = log[s].from /\ r < s)

\* What lies nearer to the answer comes before what lies farther from it, up to the wire, where
\* the lines of a client are in the order in which it sent them.
StagesInv ==
  /\ \A r, s \in 1 .. Len(log) :
       /\ Served(r) /\ (Handled(s) \/ Queued(s) \/ Held(s)) => Before(r, s)
       /\ Handled(r) /\ (Queued(s) \/ Held(s)) => Before(r, s)
       /\ Queued(r) /\ Held(s) => Before(r, s)
  /\ \A i \in 1 .. Len(queue) : \A j \in 1 .. i - 1 : Before(queue[j], queue[i])

WireInv ==
  \A c \in Connections : \A i \in 1 .. Len(wire[c]) :
    /\ \A r \in 1 .. Len(log) : Taken(r) /\ log[r].from = c => r < wire[c][i]
    /\ \A j \in 1 .. i - 1 : wire[c][j] < wire[c][i]

ServedInv == \A i \in 1 .. Len(served) : \A j \in 1 .. i - 1 : Before(served[j].request, served[i].request)

OrderInv == Strayed \/ (StagesInv /\ WireInv /\ ServedInv)

LEMMA OrderIsInOrder == OrderInv => InOrder
BY DEF OrderInv, ServedInv, Before, InOrder

\* A step by which nothing new is taken keeps the order.
LEMMA NothingTaken ==
  ASSUME ServiceInv, OrderInv, Strayed => Strayed',
         UNCHANGED <<log, served, queue>>,
         \A r : Held(r)' => Held(r), \A r : Handled(r)' => Handled(r),
         \A c \in Connections : wire'[c] = wire[c] \/ wire'[c] = <<>>
  PROVE  OrderInv'
<1> SUFFICES ASSUME ~Strayed PROVE (StagesInv /\ WireInv /\ ServedInv)'
  BY DEF OrderInv
<1>1. \A r : (Served(r)' <=> Served(r)) /\ (Queued(r)' <=> Queued(r))
  BY DEF Served, Queued
<1>2. \A r, s : Before(r, s)' <=> Before(r, s) BY DEF Before
<1>3. StagesInv' BY <1>1, <1>2 DEF OrderInv, StagesInv
<1>4. WireInv' BY <1>1 DEF OrderInv, WireInv, Taken
<1>5. ServedInv' BY <1>2 DEF OrderInv, ServedInv
<1> QED BY <1>3, <1>4, <1>5

\* A thread that neither gets nor loses a line holds what it held.
LEMMA SameHeld ==
  ASSUME ServiceInv, NEW k \in Connections, NEW to, to # "put", reader[k] # "put",
         reader' = [reader EXCEPT ![k] = to] \/ reader' = reader, holds' = holds
  PROVE  \A r : Held(r)' <=> Held(r)
<1>1. \A j \in Connections : reader'[j] = "put" <=> reader[j] = "put"
  BY DEF ServiceInv, TypeOK, HandlerTypeOK
<1> QED BY <1>1 DEF Held

\* What the threads but for ReadLine and Put do to the requests: nothing.
LEMMA Elsewhere ==
  ASSUME ServiceInv, NEW k \in Connections, Check(k) \/ ReadEnd(k) \/ SetClosed(k) \/ ReadFails(k)
  PROVE  /\ \A r : Held(r)' <=> Held(r)
         /\ UNCHANGED <<link, wire, log, queue, served, service, current>>
<1>1. UNCHANGED <<link, wire, log, queue, served, service, current, holds>>
  BY DEF Check, ReadEnd, SetClosed, ReadFails, clients, handler
<1>2. reader[k] # "put" /\ \E to \in {"ended", "read", "closing", "check", "died"} : reader' = [reader EXCEPT ![k] = to]
  BY DEF Check, ReadEnd, SetClosed, ReadFails
<1>3. PICK to \in {"ended", "read", "closing", "check", "died"} : reader' = [reader EXCEPT ![k] = to]
  BY <1>2
<1> QED BY <1>1, <1>2, <1>3, SameHeld

LEMMA StartHeld ==
  ASSUME ServiceInv, StartHandling
  PROVE  /\ \A r : Held(r)' <=> Held(r)
         /\ \A r : ~Handled(r) /\ ~Handled(r)'
<1>1. connection \in Connections /\ reader[connection] # "put"
  BY ServiceAssumption DEF StartHandling, ServiceInv, TypeOK, HandlerTypeOK, ReadersInv, Connections
<1> QED BY <1>1, SameHeld DEF StartHandling, Handled

\* The queue is in order: its head comes before the rest, which is what stays.
LEMMA TakeMoves ==
  ASSUME ServiceInv, Take
  PROVE  /\ \A r : Queued(r) <=> r = current' \/ Queued(r)'
         /\ \A r : (Held(r)' <=> Held(r)) /\ ~Handled(r) /\ (Handled(r)' <=> r = current')
         /\ queue \in Seq(Nat) /\ Len(queue) \in Nat \ {0} /\ Len(queue') = Len(queue) - 1
         /\ \A i \in 1 .. Len(queue') : queue'[i] = queue[i + 1]
         /\ current' = queue[1] /\ current' \in 1 .. Len(log) /\ Len(log) \in Nat
         /\ log' = log
<1>1. /\ queue \in Seq(Nat) /\ queue # <<>> /\ queue' = Tail(queue) /\ current' = Head(queue)
      /\ service = "poll" /\ service' = "perform"
      /\ UNCHANGED <<reader, holds, log>>
  BY DEF Take, ServiceInv, TypeOK, HandlerTypeOK, threads, clients
<1>2. /\ Len(queue) \in Nat \ {0} /\ Len(queue') = Len(queue) - 1
      /\ \A i \in 1 .. Len(queue') : queue'[i] = queue[i + 1]
      /\ current' = queue[1]
  BY <1>1, TailFacts
<1>3. ASSUME NEW r PROVE Queued(r) <=> r = current' \/ Queued(r)'
  <2>1. ASSUME NEW i \in 1 .. Len(queue), queue[i] = r, i # 1 PROVE Queued(r)'
    <3>1. i - 1 \in 1 .. Len(queue') /\ queue'[i - 1] = queue[(i - 1) + 1] /\ (i - 1) + 1 = i
      BY <1>2, <2>1
    <3> QED BY <2>1, <3>1 DEF Queued
  <2>2. ASSUME NEW i \in 1 .. Len(queue'), queue'[i] = r PROVE Queued(r)
    <3>1. i + 1 \in 1 .. Len(queue) /\ queue[i + 1] = r BY <1>2, <2>2
    <3> QED BY <3>1 DEF Queued
  <2>3. 1 \in 1 .. Len(queue) BY <1>2
  <2> QED BY <1>2, <2>1, <2>2, <2>3 DEF Queued
<1>4. current' \in 1 .. Len(log) /\ Len(log) \in Nat
  <2>1. 1 \in 1 .. Len(queue) BY <1>2
  <2>2. Known(queue[1]) BY <2>1 DEF ServiceInv, RequestsInv
  <2>3. Len(log) \in Nat BY DEF ServiceInv, TypeOK, ClientsTypeOK
  <2> QED BY <1>2, <2>2, <2>3 DEF Known
<1> QED BY <1>1, <1>2, <1>3, <1>4 DEF Held, Handled

LEMMA PerformMoves ==
  ASSUME ServiceInv, Perform
  PROVE  /\ \A r : Served(r)' <=> Served(r) \/ r = current
         /\ \A r : (Handled(r) <=> r = current) /\ ~Handled(r)'
         /\ \A r : (Queued(r)' <=> Queued(r)) /\ (Held(r)' <=> Held(r))
         /\ Len(served') = Len(served) + 1 /\ Len(served) \in Nat
         /\ \A i \in 1 .. Len(served) : served'[i] = served[i]
         /\ served'[Len(served) + 1].request = current
         /\ current \in 1 .. Len(log) /\ Len(log) \in Nat
         /\ log' = log
<1> DEFINE Answers == [request : Nat, to : Connections, status : {"OK", "ERROR", "BAD_REQUEST"}]
<1>1. current \in 1 .. Len(log) /\ Len(log) \in Nat /\ log[current].kind \in {"ok", "raises", "unknown"}
  BY ServiceAssumption, InLog DEF Perform, ServiceInv, RequestsInv, Known
<1>2. connection \in Connections
  BY ServiceAssumption DEF Perform, ServiceInv, TypeOK, HandlerTypeOK, ReadersInv, Connections
<1>3. Response \in Answers /\ Response.request = current
  BY <1>1, <1>2 DEF Response, StatusOf
<1>4. /\ Len(served') = Len(served) + 1 /\ Len(served) \in Nat
      /\ \A i \in 1 .. Len(served) : served'[i] = served[i]
      /\ served'[Len(served) + 1] = Response
  BY <1>3, AppendFacts DEF ServiceInv, TypeOK, HandlerTypeOK, Perform, Respond
<1>5. ASSUME NEW r PROVE Served(r)' <=> Served(r) \/ r = current
  <2>1. Len(served) + 1 \in 1 .. Len(served') BY <1>4
  <2>2. \A i \in 1 .. Len(served') : i \in 1 .. Len(served) \/ i = Len(served) + 1 BY <1>4
  <2>3. \A i \in 1 .. Len(served) : i \in 1 .. Len(served') BY <1>4
  <2> QED BY <1>3, <1>4, <2>1, <2>2, <2>3 DEF Served
<1> QED BY <1>1, <1>3, <1>4, <1>5 DEF Perform, Held, Handled, Queued, threads, clients

\* With none strayed, only the last client's thread holds a line.
LEMMA PutMoves ==
  ASSUME ServiceInv, NEW k \in Connections, Put(k)
  PROVE  /\ \A r : Queued(r)' <=> Queued(r) \/ r = holds[k]
         /\ \A r : Held(r) => Held(r)' \/ r = holds[k]
         /\ Held(holds[k]) /\ (~Strayed => \A r : ~Held(r)')
         /\ Len(queue') = Len(queue) + 1 /\ Len(queue) \in Nat
         /\ \A i \in 1 .. Len(queue) : queue'[i] = queue[i]
         /\ queue'[Len(queue) + 1] = holds[k]
         /\ holds[k] \in 1 .. Len(log) /\ Len(log) \in Nat
         /\ UNCHANGED <<log, wire, link, served, service, current>>
<1>0. /\ holds[k] \in 1 .. Len(log) /\ holds[k] \in Nat /\ Len(log) \in Nat
      /\ reader[k] = "put" /\ reader'[k] = "check"
      /\ \A j \in Connections \ {k} : reader'[j] = reader[j] /\ holds'[j] = holds[j]
      /\ UNCHANGED <<log, wire, link, served, service, current>>
  BY DEF Put, ServiceInv, TypeOK, ClientsTypeOK, HandlerTypeOK, RequestsInv, Known, clients, handler
<1>1. /\ Len(queue') = Len(queue) + 1 /\ Len(queue) \in Nat
      /\ \A i \in 1 .. Len(queue) : queue'[i] = queue[i]
      /\ queue'[Len(queue) + 1] = holds[k]
  BY <1>0, AppendFacts DEF Put, ServiceInv, TypeOK, HandlerTypeOK
<1>2. ASSUME NEW r PROVE Queued(r)' <=> Queued(r) \/ r = holds[k]
  <2>1. Len(queue) + 1 \in 1 .. Len(queue') BY <1>1
  <2>2. \A i \in 1 .. Len(queue') : i \in 1 .. Len(queue) \/ i = Len(queue) + 1 BY <1>1
  <2>3. \A i \in 1 .. Len(queue) : i \in 1 .. Len(queue') BY <1>1
  <2> QED BY <1>1, <2>1, <2>2, <2>3 DEF Queued
<1>3. ~Strayed => \A r : ~Held(r)'
  <2>1. ~Strayed => \A j \in Connections : reader[j] = "put" => j = k
    BY <1>0, ReaderIsLast
  <2> QED BY <1>0, <2>1 DEF Held
<1> QED BY <1>0, <1>1, <1>2, <1>3 DEF Held

LEMMA ReadMoves ==
  ASSUME ServiceInv, NEW k \in Connections, ReadLine(k)
  PROVE  LET c == on[k]
             h == wire[c][1]
         IN /\ c \in Connections /\ h \in 1 .. Len(log) /\ log[h].from = c /\ reader[k] = "read"
            /\ Len(log) \in Nat /\ Len(wire[c]) \in Nat \ {0} /\ Len(wire'[c]) = Len(wire[c]) - 1
            /\ \A i \in 1 .. Len(wire'[c]) : wire'[c][i] = wire[c][i + 1]
            /\ \A d \in Connections \ {c} : wire'[d] = wire[d]
            /\ \A r : Held(r) => Held(r)'
            /\ \A r : Held(r)' => Held(r) \/ r = h
            /\ \A r : r = h => Held(r)' \/ Strayed \/ Died'
            /\ UNCHANGED <<link, log, connection, service, current, queue, served, on>>
<1> DEFINE c == on[k]
           w == wire[c]
<1>0. c \in Connections /\ reader[k] = "read" /\ c >= k /\ wire \in [Connections -> Seq(Nat)]
  BY OnConnections DEF ReadLine, ServiceInv, TypeOK, ClientsTypeOK, HandlerTypeOK, ReadersInv
<1>1. /\ wire'[c] = Tail(w) /\ \A d \in Connections \ {c} : wire'[d] = wire[d]
      /\ w \in Seq(Nat) /\ w # <<>>
      /\ UNCHANGED <<link, log, connection, service, current, queue, served, on>>
  BY <1>0 DEF ReadLine, handler
<1>2. /\ Len(w) \in Nat \ {0} /\ Len(Tail(w)) = Len(w) - 1
      /\ \A i \in 1 .. Len(Tail(w)) : Tail(w)[i] = w[i + 1]
      /\ Head(w) = w[1]
  <2> HIDE DEF w
  <2> QED BY <1>1, TailFacts
<1>3. w[1] \in 1 .. Len(log) /\ log[w[1]].from = c /\ Len(log) \in Nat
  <2>1. 1 \in 1 .. Len(wire[c]) BY <1>2
  <2>2. Len(log) \in Nat BY DEF ServiceInv, TypeOK, ClientsTypeOK
  <2> QED BY <1>0, <2>1, <2>2 DEF ServiceInv, RequestsInv
<1>4. reader \in [Connections -> {"none", "check", "read", "put", "closing", "ended", "died"}]
      /\ holds \in [Connections -> Nat]
  BY DEF ServiceInv, TypeOK, HandlerTypeOK
<1>5. Shared(k) => Strayed
  <2> SUFFICES ASSUME NEW other \in Connections \ {k}, reader[other] = "read", on[other] = on[k]
               PROVE  Strayed
    BY DEF Shared
  <2>1. other \in Nat /\ k \in Nat /\ c \in Nat /\ c >= other
    BY <1>0, OnConnections DEF Connections, ServiceInv, TypeOK, HandlerTypeOK, ReadersInv
  <2> QED BY <1>0, <2>1 DEF Strayed
<1>6. \A j \in Connections \ {k} : reader'[j] = reader[j] /\ holds'[j] = holds[j]
  BY <1>4 DEF ReadLine
<1>7. \/ reader'[k] = "put" /\ holds'[k] = w[1]
      \/ reader'[k] # "put" /\ (Strayed \/ Died')
  <2>1. CASE reader' = [reader EXCEPT ![k] = "put"] /\ holds' = [holds EXCEPT ![k] = Head(wire[c])]
    BY <1>2, <1>4, <2>1
  <2>2. CASE reader' = [reader EXCEPT ![k] = "died"] BY <1>4, <2>2 DEF Died
  <2>3. CASE Shared(k) /\ UNCHANGED <<reader, holds>> BY <1>0, <1>5, <2>3
  <2> QED BY <2>1, <2>2, <2>3 DEF ReadLine
<1>8. \A r : Held(r) => Held(r)' BY <1>0, <1>6 DEF Held
<1>9. \A r : Held(r)' => Held(r) \/ r = w[1] BY <1>6, <1>7 DEF Held
<1>10. ASSUME NEW r, r = w[1] PROVE Held(r)' \/ Strayed \/ Died'
  <2>1. reader'[k] = "put" /\ holds'[k] = w[1] => Held(r)' BY <1>10 DEF Held
  <2> QED BY <1>7, <2>1
<1> QED BY <1>0, <1>1, <1>2, <1>3, <1>8, <1>9, <1>10

LEMMA SendMoves ==
  ASSUME ServiceInv, NEW c \in Connections, Send(c)
  PROVE  /\ Len(log') = Len(log) + 1 /\ Len(log) \in Nat
         /\ \A r \in 1 .. Len(log) : log'[r] = log[r]
         /\ log'[Len(log) + 1].from = c
         /\ Len(wire'[c]) = Len(wire[c]) + 1 /\ Len(wire[c]) \in Nat
         /\ \A i \in 1 .. Len(wire[c]) : wire'[c][i] = wire[c][i]
         /\ wire'[c][Len(wire[c]) + 1] = Len(log) + 1
         /\ \A d \in Connections \ {c} : wire'[d] = wire[d]
         /\ \A r : /\ Served(r)' <=> Served(r)
                   /\ Handled(r)' <=> Handled(r)
                   /\ Queued(r)' <=> Queued(r)
                   /\ Held(r)' <=> Held(r)
         /\ \A r : Taken(r) => r \in 1 .. Len(log)
         /\ UNCHANGED <<link, queue, served, on, reader>>
<1>0. PICK kind \in Kinds : log' = Append(log, [from |-> c, kind |-> kind]) BY DEF Send
<1>1. /\ Len(log') = Len(log) + 1 /\ Len(log) \in Nat
      /\ \A r \in 1 .. Len(log) : log'[r] = log[r]
      /\ log'[Len(log) + 1].from = c
  BY <1>0, AppendFacts DEF ServiceInv, TypeOK, ClientsTypeOK
<1>2. /\ wire[c] \in Seq(Nat) /\ wire'[c] = Append(wire[c], Len(log) + 1)
      /\ \A d \in Connections \ {c} : wire'[d] = wire[d]
  BY DEF Send, ServiceInv, TypeOK, ClientsTypeOK
<1>3. /\ Len(wire'[c]) = Len(wire[c]) + 1 /\ Len(wire[c]) \in Nat
      /\ \A i \in 1 .. Len(wire[c]) : wire'[c][i] = wire[c][i]
      /\ wire'[c][Len(wire[c]) + 1] = Len(log) + 1
  BY <1>1, <1>2, AppendFacts
<1>4. \A r : Taken(r) => r \in 1 .. Len(log)
  BY DEF Taken, Held, Queued, Handled, Served, ServiceInv, RequestsInv, Known
<1> QED BY <1>1, <1>2, <1>3, <1>4 DEF Send, Served, Handled, Queued, Held, handler, threads

LEMMA TakeOrders ==
  ASSUME ServiceInv, OrderInv, Take
  PROVE  OrderInv'
<1> SUFFICES ASSUME ~Strayed PROVE (StagesInv /\ WireInv /\ ServedInv)'
  BY StrayedStays DEF OrderInv, Service
<1>0. /\ \A r, s : Before(r, s)' <=> Before(r, s)
      /\ \A r : Served(r)' <=> Served(r)
      /\ UNCHANGED <<wire, served, log>>
  BY DEF Take, clients, Before, Served
<1>1. \A s : Queued(s)' => Before(current', s)
  <2> SUFFICES ASSUME NEW i \in 1 .. Len(queue') PROVE Before(current', queue'[i])
    BY DEF Queued
  <2>1. i + 1 \in 1 .. Len(queue) /\ 1 \in 1 .. (i + 1) - 1 BY TakeMoves
  <2> QED BY <2>1, TakeMoves DEF OrderInv, StagesInv
<1>2. StagesInv'
  <2>1. ASSUME NEW r \in 1 .. Len(log), NEW s \in 1 .. Len(log)
        PROVE  /\ Served(r)' /\ (Handled(s)' \/ Queued(s)' \/ Held(s)') => Before(r, s)
               /\ Handled(r)' /\ (Queued(s)' \/ Held(s)') => Before(r, s)
               /\ Queued(r)' /\ Held(s)' => Before(r, s)
    BY <1>0, <1>1, TakeMoves DEF OrderInv, StagesInv
  <2>2. ASSUME NEW i \in 1 .. Len(queue'), NEW j \in 1 .. i - 1
        PROVE  Before(queue'[j], queue'[i])
    <3>1. /\ i + 1 \in 1 .. Len(queue) /\ j + 1 \in 1 .. (i + 1) - 1
          /\ queue'[i] = queue[i + 1] /\ queue'[j] = queue[j + 1]
      BY TakeMoves
    <3> QED BY <3>1 DEF OrderInv, StagesInv
  <2> QED BY <1>0, <2>1, <2>2 DEF StagesInv
<1>3. WireInv'
  <2>1. \A r : Taken(r)' => Taken(r) BY <1>0, TakeMoves DEF Taken
  <2> QED BY <1>0, <2>1 DEF OrderInv, WireInv
<1>4. ServedInv' BY <1>0 DEF OrderInv, ServedInv
<1> QED BY <1>2, <1>3, <1>4

LEMMA PerformOrders ==
  ASSUME ServiceInv, OrderInv, Perform
  PROVE  OrderInv'
<1> SUFFICES ASSUME ~Strayed PROVE (StagesInv /\ WireInv /\ ServedInv)'
  BY StrayedStays DEF OrderInv, Service
<1>0. /\ \A r, s : Before(r, s)' <=> Before(r, s)
      /\ UNCHANGED <<wire, queue, log>>
  BY DEF Perform, clients, Before
<1>1. StagesInv' BY <1>0, PerformMoves DEF OrderInv, StagesInv
<1>2. WireInv'
  <2>1. \A r : Taken(r)' => Taken(r) BY PerformMoves DEF Taken
  <2> QED BY <1>0, <2>1 DEF OrderInv, WireInv
<1>3. ServedInv'
  <2> SUFFICES ASSUME NEW i \in 1 .. Len(served'), NEW j \in 1 .. i - 1
               PROVE  Before(served'[j].request, served'[i].request)
    BY <1>0 DEF ServedInv
  <2>1. CASE i \in 1 .. Len(served)
    BY <2>1, PerformMoves DEF OrderInv, ServedInv
  <2>2. CASE i = Len(served) + 1
    <3>1. j \in 1 .. Len(served) /\ served'[j] = served[j] BY <2>2, PerformMoves
    <3>2. Served(served[j].request) /\ served[j].request \in 1 .. Len(log)
      BY <3>1 DEF Served, ServiceInv, RequestsInv, Known
    <3> QED BY <2>2, <3>1, <3>2, PerformMoves DEF OrderInv, StagesInv
  <2> QED BY <2>1, <2>2, PerformMoves
<1> QED BY <1>1, <1>2, <1>3

LEMMA PutOrders ==
  ASSUME ServiceInv, OrderInv, NEW k \in Connections, Put(k)
  PROVE  OrderInv'
<1> SUFFICES ASSUME ~Strayed PROVE (StagesInv /\ WireInv /\ ServedInv)'
  BY StrayedStays DEF OrderInv, Reader
<1>0. /\ \A r, s : Before(r, s)' <=> Before(r, s)
      /\ \A r : (Served(r)' <=> Served(r)) /\ (Handled(r)' <=> Handled(r))
  BY PutMoves DEF Before, Served, Handled
<1>1. StagesInv'
  <2>1. ASSUME NEW r \in 1 .. Len(log), NEW s \in 1 .. Len(log)
        PROVE  /\ Served(r)' /\ (Handled(s)' \/ Queued(s)' \/ Held(s)') => Before(r, s)
               /\ Handled(r)' /\ (Queued(s)' \/ Held(s)') => Before(r, s)
               /\ Queued(r)' /\ Held(s)' => Before(r, s)
    BY <1>0, PutMoves DEF OrderInv, StagesInv
  <2>2. ASSUME NEW i \in 1 .. Len(queue'), NEW j \in 1 .. i - 1
        PROVE  Before(queue'[j], queue'[i])
    <3>1. CASE i \in 1 .. Len(queue) BY <3>1, PutMoves DEF OrderInv, StagesInv
    <3>2. CASE i = Len(queue) + 1
      <4>1. j \in 1 .. Len(queue) /\ queue'[j] = queue[j] /\ queue'[i] = holds[k]
        BY <3>2, PutMoves
      <4>2. Queued(queue[j]) /\ queue[j] \in 1 .. Len(log)
        BY <4>1 DEF Queued, ServiceInv, RequestsInv, Known
      <4> QED BY <4>1, <4>2, PutMoves DEF OrderInv, StagesInv
    <3> QED BY <3>1, <3>2, PutMoves
  <2> QED BY <1>0, <2>1, <2>2, PutMoves DEF StagesInv
<1>2. WireInv'
  <2>1. \A r : Taken(r)' => Taken(r) BY <1>0, PutMoves DEF Taken
  <2> QED BY <2>1, PutMoves DEF OrderInv, WireInv
<1>3. ServedInv' BY <1>0, PutMoves DEF OrderInv, ServedInv
<1> QED BY <1>1, <1>2, <1>3

LEMMA ReadOrders ==
  ASSUME ServiceInv, OrderInv, NEW k \in Connections, ReadLine(k)
  PROVE  OrderInv'
<1> SUFFICES ASSUME ~Strayed PROVE (StagesInv /\ WireInv /\ ServedInv)'
  BY StrayedStays DEF OrderInv, Reader
<1> DEFINE c == on[k]
           h == wire[c][1]
<1>1. /\ c \in Connections /\ h \in 1 .. Len(log) /\ log[h].from = c
      /\ Len(wire[c]) \in Nat \ {0} /\ Len(wire'[c]) = Len(wire[c]) - 1
      /\ \A i \in 1 .. Len(wire'[c]) : wire'[c][i] = wire[c][i + 1]
      /\ \A d \in Connections \ {c} : wire'[d] = wire[d]
      /\ \A r : Held(r)' => Held(r) \/ r = h
      /\ UNCHANGED <<log, connection, service, current, queue, served>>
  BY ReadMoves
<1>2. /\ \A r, s : Before(r, s)' <=> Before(r, s)
      /\ \A r : /\ Served(r)' <=> Served(r)
                /\ Handled(r)' <=> Handled(r)
                /\ Queued(r)' <=> Queued(r)
  BY <1>1 DEF Before, Served, Handled, Queued
<1>3. c = connection /\ connection \in Nat
  BY ReaderIsLast DEF ReadLine, ServiceInv, TypeOK, HandlerTypeOK
<1>4. \A r \in 1 .. Len(log) : Taken(r) /\ log[r].from = c => r < h
  <2>1. 1 \in 1 .. Len(wire[c]) BY <1>1
  <2> QED BY <1>1, <2>1 DEF OrderInv, WireInv
\* Whatever was taken before is of this client and earlier, or of a client before.
<1>5. ASSUME NEW r \in 1 .. Len(log), Served(r) \/ Handled(r) \/ Queued(r) PROVE Before(r, h)
  <2>1. log[r].from \in Connections BY InLog DEF ServiceInv
  <2>2. log[r].from <= connection
    <3>1. CASE Queued(r) BY <3>1 DEF Queued, ServiceInv, RequestsInv, Known
    <3>2. CASE Handled(r) BY <3>2 DEF Handled, ServiceInv, RequestsInv, Known
    <3>3. CASE Served(r) BY <3>3 DEF Served, ServiceInv, RequestsInv, Known
    <3> QED BY <1>5, <3>1, <3>2, <3>3
  <2>3. log[r].from < connection \/ log[r].from = c
    BY <1>3, <2>1, <2>2 DEF Connections
  <2> QED BY <1>1, <1>3, <1>4, <1>5, <2>3 DEF Before, Taken
<1>6. StagesInv'
  <2>1. ASSUME NEW r \in 1 .. Len(log), NEW s \in 1 .. Len(log)
        PROVE  /\ Served(r)' /\ (Handled(s)' \/ Queued(s)' \/ Held(s)') => Before(r, s)
               /\ Handled(r)' /\ (Queued(s)' \/ Held(s)') => Before(r, s)
               /\ Queued(r)' /\ Held(s)' => Before(r, s)
    <3>1. Held(s)' => Held(s) \/ s = h BY <1>1
    <3> HIDE DEF h, c
    <3> QED BY <1>2, <1>5, <3>1 DEF OrderInv, StagesInv
  <2> HIDE DEF h, c
  <2> QED BY <1>1, <1>2, <2>1 DEF OrderInv, StagesInv
<1>7. WireInv'
  <2> SUFFICES ASSUME NEW d \in Connections, NEW i \in 1 .. Len(wire'[d])
               PROVE  /\ \A r \in 1 .. Len(log) : Taken(r)' /\ log[r].from = d => r < wire'[d][i]
                      /\ \A j \in 1 .. i - 1 : wire'[d][j] < wire'[d][i]
    BY <1>1 DEF WireInv
  <2>0. \A r : Taken(r)' => Taken(r) \/ r = h BY <1>1, <1>2 DEF Taken
  <2>1. CASE d # c BY <1>1, <2>0, <2>1 DEF OrderInv, WireInv
  <2>2. CASE d = c
    <3>0. /\ i \in 1 .. Len(wire'[c]) /\ Len(wire[c]) \in Nat /\ Len(wire'[c]) = Len(wire[c]) - 1
          /\ \A j \in 1 .. Len(wire'[c]) : wire'[c][j] = wire[c][j + 1]
      BY <1>1, <2>2
    <3>1. i + 1 \in 1 .. Len(wire[c]) /\ wire'[c][i] = wire[c][i + 1] /\ 1 \in 1 .. (i + 1) - 1
      BY <3>0
    <3>2. h < wire[c][i + 1] BY <1>1, <3>1 DEF OrderInv, WireInv
    <3>3. ASSUME NEW r \in 1 .. Len(log), Taken(r)', log[r].from = d PROVE r < wire'[d][i]
      BY <1>1, <2>0, <2>2, <3>1, <3>2, <3>3 DEF OrderInv, WireInv
    <3>4. ASSUME NEW j \in 1 .. i - 1 PROVE wire'[d][j] < wire'[d][i]
      <4>1. j \in 1 .. Len(wire'[c]) /\ j + 1 \in 1 .. (i + 1) - 1
        BY <1>1, <2>2, <3>1
      <4> QED BY <1>1, <2>2, <3>1, <4>1 DEF OrderInv, WireInv
    <3> QED BY <3>3, <3>4
  <2> QED BY <2>1, <2>2
<1>8. ServedInv' BY <1>1, <1>2 DEF OrderInv, ServedInv
<1> QED BY <1>6, <1>7, <1>8

LEMMA SendOrders ==
  ASSUME ServiceInv, OrderInv, NEW c \in Connections, Send(c)
  PROVE  OrderInv'
<1> SUFFICES ASSUME ~Strayed PROVE (StagesInv /\ WireInv /\ ServedInv)'
  BY SendMoves DEF OrderInv, Strayed
<1>0. \A r, s \in 1 .. Len(log) : Before(r, s)' <=> Before(r, s)
  BY SendMoves DEF Before
<1>01. \A r \in 1 .. Len(log) : log'[r] = log[r] BY SendMoves
<1>1. \A r : Taken(r)' <=> Taken(r) BY SendMoves DEF Taken
<1>2. StagesInv'
  <2>1. ASSUME NEW r, NEW s, Taken(r), Taken(s)
        PROVE  /\ Served(r)' /\ (Handled(s)' \/ Queued(s)' \/ Held(s)') => Before(r, s)'
               /\ Handled(r)' /\ (Queued(s)' \/ Held(s)') => Before(r, s)'
               /\ Queued(r)' /\ Held(s)' => Before(r, s)'
    <3>1. r \in 1 .. Len(log) /\ s \in 1 .. Len(log) BY <2>1, SendMoves
    <3> QED BY <1>0, <3>1, SendMoves DEF OrderInv, StagesInv
  <2>2. \A r : Served(r)' \/ Handled(r)' \/ Queued(r)' \/ Held(r)' => Taken(r)
    BY SendMoves DEF Taken
  <2>3. \A i \in 1 .. Len(queue) : queue[i] \in 1 .. Len(log)
    BY DEF ServiceInv, RequestsInv, Known
  <2>4. ASSUME NEW i \in 1 .. Len(queue'), NEW j \in 1 .. i - 1 PROVE Before(queue[j], queue[i])'
    <3>1. queue' = queue BY SendMoves
    <3>2. i \in 1 .. Len(queue) /\ j \in 1 .. Len(queue)
      BY <2>4, <3>1 DEF ServiceInv, TypeOK, HandlerTypeOK
    <3>3. Before(queue[j], queue[i]) BY <3>2, <2>4 DEF OrderInv, StagesInv
    <3> QED BY <1>01, <2>3, <3>1, <3>2, <3>3 DEF Before
  <2>5. (\A i \in 1 .. Len(queue) : \A j \in 1 .. i - 1 : Before(queue[j], queue[i]))' BY <2>4
  <2>6. (\A r, s \in 1 .. Len(log) :
           /\ Served(r) /\ (Handled(s) \/ Queued(s) \/ Held(s)) => Before(r, s)
           /\ Handled(r) /\ (Queued(s) \/ Held(s)) => Before(r, s)
           /\ Queued(r) /\ Held(s) => Before(r, s))'
    BY <2>1, <2>2
  <2> QED BY <2>5, <2>6 DEF StagesInv
<1>3. WireInv'
  <2> SUFFICES ASSUME NEW d \in Connections, NEW i \in 1 .. Len(wire'[d])
               PROVE  /\ \A r \in 1 .. Len(log') : Taken(r)' /\ log'[r].from = d => r < wire'[d][i]
                      /\ \A j \in 1 .. i - 1 : wire'[d][j] < wire'[d][i]
    BY DEF WireInv
  <2>1. \A r : Taken(r)' => Taken(r) /\ r \in 1 .. Len(log) /\ log'[r] = log[r]
    BY <1>1, SendMoves
  <2>2. CASE i \in 1 .. Len(wire[d]) /\ wire'[d][i] = wire[d][i] /\ \A j \in 1 .. i - 1 : wire'[d][j] = wire[d][j]
    BY <2>1, <2>2 DEF OrderInv, WireInv
  <2>3. CASE d = c /\ i = Len(wire[c]) + 1
    <3>1. ASSUME NEW j \in 1 .. i - 1 PROVE wire'[d][j] < wire'[d][i]
      <4>1. j \in 1 .. Len(wire[c]) /\ wire'[c][j] = wire[c][j] /\ wire'[c][i] = Len(log) + 1
        BY <2>3, SendMoves
      <4>2. wire[c][j] \in 1 .. Len(log) BY <4>1 DEF ServiceInv, RequestsInv
      <4> QED BY <2>3, <4>1, <4>2, SendMoves
    <3>2. ASSUME NEW r \in 1 .. Len(log'), Taken(r)' PROVE r < wire'[d][i]
      <4>1. r \in 1 .. Len(log) /\ Len(log) \in Nat BY <2>1, <3>2, SendMoves
      <4>2. wire'[d][i] = Len(log) + 1 BY <2>3, SendMoves
      <4> QED BY <4>1, <4>2
    <3> QED BY <3>1, <3>2
  <2>4. CASE d = c /\ i # Len(wire[c]) + 1
    <3>1. i \in 1 .. Len(wire[c]) /\ Len(wire[c]) \in Nat BY <2>4, SendMoves
    <3>2. \A j \in 1 .. i - 1 : j \in 1 .. Len(wire[c]) BY <3>1
    <3> QED BY <2>2, <2>4, <3>1, <3>2, SendMoves
  <2>5. CASE d # c
    <3>1. wire'[d] = wire[d] BY <2>5, SendMoves
    <3> QED BY <2>2, <3>1
  <2> QED BY <2>3, <2>4, <2>5
<1>4. ServedInv'
  <2> SUFFICES ASSUME NEW i \in 1 .. Len(served), NEW j \in 1 .. i - 1
               PROVE  Before(served[j].request, served[i].request)'
    BY SendMoves DEF ServedInv, Before
  <2>1. j \in 1 .. Len(served) BY DEF ServiceInv, TypeOK, HandlerTypeOK
  <2>2. served[j].request \in 1 .. Len(log) /\ served[i].request \in 1 .. Len(log)
    BY <2>1 DEF ServiceInv, RequestsInv, Known
  <2>3. Before(served[j].request, served[i].request) BY DEF OrderInv, ServedInv
  <2>4. served' = served BY SendMoves
  <2> QED BY <1>01, <2>2, <2>3, <2>4 DEF Before
<1> QED BY <1>2, <1>3, <1>4

LEMMA StrayedKept == ServiceInv /\ Strayed /\ [Next]_vars => Strayed'
<1> SUFFICES ASSUME ServiceInv, Strayed, [Next]_vars PROVE Strayed' OBVIOUS
<1>1. CASE \/ \E c \in Connections : Connect(c) \/ Send(c) \/ Close(c) \/ Vanish(c)
           \/ UNCHANGED vars
  BY <1>1 DEF Connect, Send, Close, Vanish, Goes, threads, vars, Strayed
<1> QED BY <1>1, StrayedStays DEF Next

LEMMA OrderStep == ServiceInv /\ OrderInv /\ [Next]_vars => OrderInv'
<1> SUFFICES ASSUME ServiceInv, OrderInv, [Next]_vars PROVE OrderInv' OBVIOUS
<1>0. Strayed => Strayed' BY StrayedKept
<1>1. ASSUME NEW c \in Connections, Connect(c) \/ Close(c) \/ Vanish(c) PROVE OrderInv'
  <2>1. /\ UNCHANGED <<log, served, queue, reader, holds, service, current>>
        /\ \A d \in Connections : wire'[d] = wire[d] \/ wire'[d] = <<>>
    BY <1>1 DEF Connect, Close, Vanish, Goes, handler, threads, ServiceInv, TypeOK, ClientsTypeOK
  <2> QED BY <1>0, <2>1, NothingTaken DEF Held, Handled
<1>2. CASE StartHandling
  BY <1>0, <1>2, StartHeld, NothingTaken DEF StartHandling, clients
<1>3. CASE Accept \/ Leave \/ SendFails \/ UNCHANGED vars
  <2>1. /\ UNCHANGED <<log, served, queue, reader, holds, wire>>
        /\ \A r : Handled(r)' => Handled(r)
    BY <1>3 DEF Accept, Leave, SendFails, vars, clients, handler, threads, Handled
  <2> QED BY <1>0, <2>1, NothingTaken DEF Held
<1>4. ASSUME NEW k \in Connections, Check(k) \/ ReadEnd(k) \/ SetClosed(k) \/ ReadFails(k)
      PROVE  OrderInv'
  BY <1>0, <1>4, Elsewhere, NothingTaken DEF Handled
<1> QED
  BY <1>1, <1>2, <1>3, <1>4, SendOrders, TakeOrders, PerformOrders, ReadOrders, PutOrders
  DEF Next, Service, Reader

LEMMA DiedStays == ServiceInv /\ Died /\ [Next]_vars => Died'
<1> SUFFICES ASSUME ServiceInv, [Next]_vars, NEW d \in Connections, reader[d] = "died"
             PROVE  reader'[d] = "died"
  BY DEF Died
<1>0. reader \in [Connections -> {"none", "check", "read", "put", "closing", "ended", "died"}]
  BY DEF ServiceInv, TypeOK, HandlerTypeOK
<1>1. CASE StartHandling
  <2>1. reader[connection] = "none" BY <1>1 DEF StartHandling, ServiceInv, ReadersInv
  <2> QED BY <1>0, <1>1, <2>1 DEF StartHandling
<1>2. CASE UNCHANGED reader BY <1>2
<1>3. ASSUME NEW k \in Connections, Reader(k) \/ ReadFails(k) PROVE reader'[d] = "died"
  <2>1. reader[k] # "died" /\ (UNCHANGED reader \/ \E to : reader' = [reader EXCEPT ![k] = to])
    BY <1>3 DEF Reader, Check, ReadLine, Put, ReadEnd, SetClosed, ReadFails
  <2> QED BY <1>0, <2>1
<1> QED
  BY <1>1, <1>2, <1>3 DEF Next, Connect, Send, Close, Vanish, Goes, Service, Accept, Leave, Take, Perform,
     SendFails, threads, vars

\* Only who has connected has sent something.
SentInv == \A r \in 1 .. Len(log) : link[log[r].from] # "none"

LEMMA SentStep == ServiceInv /\ SentInv /\ [Next]_vars => SentInv'
<1> SUFFICES ASSUME ServiceInv, SentInv, [Next]_vars PROVE SentInv' OBVIOUS
<1>0. link \in [Connections -> {"none", "open", "closed", "lost"}]
  BY DEF ServiceInv, TypeOK, ClientsTypeOK
<1>1. ASSUME NEW c \in Connections, Send(c) PROVE SentInv'
  <2>1. \A r \in 1 .. Len(log') : r \in 1 .. Len(log) \/ r = Len(log) + 1 BY <1>1, SendMoves
  <2>2. link[c] = "open" BY <1>1 DEF Send
  <2> QED BY <1>1, <2>1, <2>2, SendMoves DEF SentInv
<1>2. ASSUME NEW c \in Connections, Connect(c) \/ Close(c) \/ Vanish(c) PROVE SentInv'
  <2>1. log' = log /\ \A d \in Connections : link[d] # "none" => link'[d] # "none"
    BY <1>0, <1>2 DEF Connect, Close, Vanish, Goes
  <2> QED BY <2>1, InLog DEF SentInv, ServiceInv
<1>3. CASE UNCHANGED <<link, log>> BY <1>3 DEF SentInv
<1> QED
  BY <1>1, <1>2, <1>3 DEF Next, Service, Accept, StartHandling, Leave, Take, Perform, SendFails,
     Reader, Check, ReadLine, Put, ReadEnd, SetClosed, ReadFails, clients, vars

\* A step keeps every request where it was, moves it on, or drops it with its client gone.
Flow ==
  \A r \in 1 .. Len(log) :
    OnWire(r) \/ Taken(r) => OnWire(r)' \/ Taken(r)' \/ link'[log[r].from] # "open"

LEMMA SameWire == UNCHANGED <<wire, log>> => \A r : OnWire(r)' <=> OnWire(r)
BY DEF OnWire

LEMMA ClientsFlow ==
  ASSUME ServiceInv, NEW c \in Connections, Connect(c) \/ Close(c) \/ Vanish(c)
  PROVE  Flow
<1>1. /\ UNCHANGED <<log, handler, queue, threads>>
      /\ \A d \in Connections \ {c} : wire'[d] = wire[d]
      /\ wire' = wire \/ link'[c] # "open"
  BY DEF Connect, Close, Vanish, Goes, ServiceInv, TypeOK, ClientsTypeOK
<1>2. \A r : Taken(r)' <=> Taken(r)
  BY <1>1 DEF Taken, Held, Queued, Handled, Served, handler, threads
<1>3. ASSUME NEW r \in 1 .. Len(log), OnWire(r) PROVE OnWire(r)' \/ link'[log[r].from] # "open"
  <2>1. CASE log[r].from = c BY <1>1, <1>3, <2>1 DEF OnWire
  <2>2. CASE log[r].from # c BY <1>1, <1>3, <2>2, InLog DEF OnWire, ServiceInv
  <2> QED BY <2>1, <2>2
<1> QED BY <1>2, <1>3 DEF Flow

LEMMA ServiceFlow ==
  ASSUME ServiceInv, ~Strayed, Service \/ SendFails
  PROVE  Flow
<1>0. UNCHANGED <<wire, log, link>>
  BY DEF Service, Accept, StartHandling, Leave, Take, Perform, SendFails, clients
<1>1. CASE Accept \/ Leave
  BY <1>0, <1>1, SameWire DEF Accept, Leave, Flow, Taken, Held, Queued, Handled, Served, threads
<1>2. CASE StartHandling
  BY <1>0, <1>2, SameWire, StartHeld DEF StartHandling, Flow, Taken, Queued, Served
<1>3. CASE Take
  BY <1>0, <1>3, SameWire, TakeMoves DEF Take, Flow, Taken, Served
<1>4. CASE Perform
  BY <1>0, <1>4, SameWire, PerformMoves DEF Flow, Taken
<1>5. CASE SendFails
  <2>1. ASSUME NEW r, Handled(r) PROVE link[log[r].from] # "open"
    <3>1. Known(r) BY <2>1 DEF Handled, ServiceInv, RequestsInv
    <3>2. log[r].from \in Connections /\ connection \in Nat
      BY <3>1, InLog DEF Known, ServiceInv, TypeOK, HandlerTypeOK
    <3>3. log[r].from < connection \/ log[r].from = connection
      BY <3>1, <3>2 DEF Known, Connections
    <3> QED BY <1>5, <3>2, <3>3 DEF SendFails, GivenUp, ServiceInv, LeftInv, Done
  <2>2. \A r : Taken(r) => Taken(r)' \/ Handled(r)
    BY <1>5 DEF SendFails, Taken, Held, Queued, Served, threads
  <2> QED BY <1>0, <2>1, <2>2, SameWire DEF Flow
<1> QED BY <1>1, <1>2, <1>3, <1>4, <1>5 DEF Service

LEMMA ReaderFlow ==
  ASSUME ServiceInv, ~Strayed, NEW k \in Connections, Reader(k) \/ ReadFails(k)
  PROVE  Flow \/ Died'
<1>1. CASE Check(k) \/ ReadEnd(k) \/ SetClosed(k) \/ ReadFails(k)
  <2>1. \A r : Taken(r)' <=> Taken(r)
    BY <1>1, Elsewhere DEF Taken, Queued, Handled, Served
  <2> QED BY <1>1, <2>1, Elsewhere, SameWire DEF Flow
<1>2. CASE Put(k)
  <2>1. \A r : Taken(r) => Taken(r)'
    BY <1>2, PutMoves DEF Taken, Handled, Served
  <2> QED BY <1>2, <2>1, PutMoves, SameWire DEF Flow
<1>3. CASE ReadLine(k)
  <2> SUFFICES ASSUME ~Died' PROVE Flow OBVIOUS
  <2> DEFINE c == on[k]
             h == wire[c][1]
  <2>1. /\ Len(wire[c]) \in Nat \ {0} /\ Len(wire'[c]) = Len(wire[c]) - 1
        /\ \A i \in 1 .. Len(wire'[c]) : wire'[c][i] = wire[c][i + 1]
        /\ \A d \in Connections \ {c} : wire'[d] = wire[d]
        /\ UNCHANGED <<log, service, current, queue, served>>
    BY <1>3, ReadMoves
  <2>2. \A r : Held(r) \/ r = h => Held(r)' BY <1>3, ReadMoves
  <2>3. \A r : Taken(r) \/ r = h => Taken(r)'
    BY <2>1, <2>2 DEF Taken, Queued, Handled, Served
  <2>4. ASSUME NEW r \in 1 .. Len(log), OnWire(r) PROVE OnWire(r)' \/ r = h
    <3>1. CASE log[r].from # c BY <2>1, <2>4, <3>1, InLog DEF OnWire, ServiceInv
    <3>2. CASE log[r].from = c
      <4>1. PICK i \in 1 .. Len(wire[c]) : wire[c][i] = r BY <2>4, <3>2 DEF OnWire
      <4>2. CASE i = 1 BY <4>1, <4>2
      <4>3. CASE i # 1
        <5>1. i - 1 \in 1 .. Len(wire'[c]) /\ (i - 1) + 1 = i BY <2>1, <4>1, <4>3
        <5>2. wire'[c][i - 1] = r BY <2>1, <4>1, <5>1
        <5> QED BY <2>1, <3>2, <5>1, <5>2 DEF OnWire
      <4> QED BY <4>2, <4>3
    <3> QED BY <3>1, <3>2
  <2> QED BY <2>3, <2>4 DEF Flow
<1> QED BY <1>1, <1>2, <1>3 DEF Reader

LEMMA LostStep == ServiceInv /\ SentInv /\ NothingLost /\ [Next]_vars => NothingLost'
<1> SUFFICES ASSUME ServiceInv, SentInv, NothingLost, [Next]_vars, ~Strayed, ~Strayed', ~Died'
             PROVE  NothingLost'
  BY StrayedKept DEF NothingLost
<1>0. ~Died BY DiedStays
<1>1. ASSUME NEW c \in Connections, Send(c) PROVE NothingLost'
  <2> SUFFICES ASSUME NEW r \in 1 .. Len(log'), link'[log'[r].from] = "open"
               PROVE  OnWire(r)' \/ Taken(r)'
    BY DEF NothingLost
  <2>1. CASE r = Len(log) + 1
    <3>1. Len(wire[c]) + 1 \in 1 .. Len(wire'[c]) BY <1>1, SendMoves
    <3> QED BY <1>1, <2>1, <3>1, SendMoves DEF OnWire
  <2>2. CASE r \in 1 .. Len(log)
    <3>1. log'[r] = log[r] /\ link' = link BY <1>1, <2>2, SendMoves
    <3>2. Taken(r) => Taken(r)' BY <1>1, SendMoves DEF Taken
    <3>3. OnWire(r) => OnWire(r)'
      <4>1. ASSUME NEW i \in 1 .. Len(wire[c]) PROVE i \in 1 .. Len(wire'[c]) /\ wire'[c][i] = wire[c][i]
        BY <1>1, <4>1, SendMoves
      <4>2. \A d \in Connections \ {c} : wire'[d] = wire[d] BY <1>1, SendMoves
      <4> QED BY <2>2, <3>1, <4>1, <4>2, InLog DEF OnWire, ServiceInv
    <3> QED BY <1>0, <2>2, <3>1, <3>2, <3>3 DEF NothingLost
  <2> QED BY <1>1, <2>1, <2>2, SendMoves
<1>2. ASSUME Flow, log' = log,
             \A r \in 1 .. Len(log) : link'[log[r].from] = "open" => link[log[r].from] = "open"
      PROVE  NothingLost'
  BY <1>0, <1>2 DEF Flow, NothingLost
<1>3. ASSUME NEW c \in Connections, Connect(c) \/ Close(c) \/ Vanish(c) PROVE NothingLost'
  <2>1. \A d \in Connections : link'[d] = "open" => link[d] \in {"open", "none"}
    BY <1>3 DEF Connect, Close, Vanish, Goes, ServiceInv, TypeOK, ClientsTypeOK
  <2>2. \A r \in 1 .. Len(log) : link'[log[r].from] = "open" => link[log[r].from] = "open"
    BY <2>1, InLog DEF SentInv, ServiceInv
  <2> QED BY <1>2, <1>3, <2>2, ClientsFlow DEF Connect, Close, Vanish, Goes
<1>4. CASE Service \/ SendFails \/ \E k \in Connections : Reader(k) \/ ReadFails(k)
  <2>1. UNCHANGED <<link, log>>
    BY <1>4 DEF Service, Accept, StartHandling, Leave, Take, Perform, SendFails, clients,
       Reader, Check, ReadLine, Put, ReadEnd, SetClosed, ReadFails
  <2>2. Flow BY <1>4, ServiceFlow, ReaderFlow
  <2> QED BY <1>2, <2>1, <2>2
<1>5. CASE UNCHANGED vars
  BY <1>5 DEF vars, clients, handler, threads, NothingLost, OnWire, Taken, Held, Queued, Handled,
     Served, Strayed, Died
<1> QED BY <1>1, <1>3, <1>4, <1>5 DEF Next

-----------------------------------------------------------------------------
\* The invariant holds in every state.
THEOREM ServiceCorrect == Spec => []ServiceInv
<1>1. ServiceInv /\ [Next]_vars => ServiceInv'
  BY ConnectKeeps, SendKeeps, GoesKeeps, AcceptKeeps, StartKeeps, LeaveKeeps, TakeKeeps,
     PerformKeeps, SendFailsKeeps, CheckKeeps, ReadLineKeeps, PutKeeps, EndKeeps, StutterKeeps
  DEF Next, Close, Vanish, Service, Reader
<1> QED BY InitInv, <1>1, PTL DEF Spec

\* Every variable keeps its type: no request that did not parse reaches a handler.
THEOREM ServiceTypeCorrect == Spec => []TypeOK
<1>1. ServiceInv => TypeOK BY DEF ServiceInv
<1> QED BY ServiceCorrect, <1>1, PTL

\* An answer goes to another client than the one that asked only when that one is gone.
THEOREM AnswersGoHome == Spec => []AnswerHome
<1>1. ServiceInv => AnswerHome BY DEF ServiceInv
<1> QED BY ServiceCorrect, <1>1, PTL

\* The service does not turn away from a client that is still there.
THEOREM ServiceLeavesOnlyClosed == Spec => LeavesOnlyClosed
<1>1. ServiceInv /\ [Next]_vars
      => [service = "poll" /\ service' = "accept" => Strayed \/ link[connection] = "closed"]_vars
  <2> SUFFICES ASSUME ServiceInv, Next, service = "poll", service' = "accept"
               PROVE  Strayed \/ link[connection] = "closed"
    OBVIOUS
  <2>1. Leave
    BY DEF Next, Connect, Send, Close, Vanish, Goes, Service, Accept, StartHandling, Leave, Take, Perform,
       SendFails, Reader, Check, ReadLine, Put, ReadEnd, SetClosed, ReadFails, handler
  <2> QED BY <2>1 DEF Leave, ServiceInv, LeftInv, Done
<1> QED BY ServiceCorrect, <1>1, PTL DEF Spec, LeavesOnlyClosed

\* While the service serves a connection, the flag is set or the thread of the connection is
\* there to set it, unless it died: nobody but StartHandling takes the flag back.
THEOREM ServiceWatched == Spec => []WatchInv
<1>1. Init => WatchInv BY DEF Init, WatchInv
<1>2. ServiceInv /\ WatchInv /\ [Next]_vars => WatchInv' BY WatchStep
<1> QED BY ServiceCorrect, <1>1, <1>2, PTL DEF Spec

\* Requests are served in the order in which they were sent, one client after the other, none
\* twice, unless a reader thread strayed.
THEOREM ServedInOrder == Spec => []InOrder
<1>1. Init => OrderInv
  BY DEF Init, OrderInv, StagesInv, WireInv, ServedInv, Served, Queued, Handled, Taken, Held
<1>2. ServiceInv /\ OrderInv /\ [Next]_vars => OrderInv' BY OrderStep
<1> QED BY ServiceCorrect, <1>1, <1>2, OrderIsInOrder, PTL DEF Spec

\* No request of a client that is still there gets lost, unless a reader thread died or strayed.
THEOREM ServiceLosesNothing == Spec => []NothingLost
<1>1. Init => SentInv /\ NothingLost BY DEF Init, SentInv, NothingLost
<1>2. ServiceInv /\ SentInv /\ [Next]_vars => SentInv' BY SentStep
<1>3. ServiceInv /\ SentInv /\ NothingLost /\ [Next]_vars => NothingLost' BY LostStep
<1> QED BY ServiceCorrect, <1>1, <1>2, <1>3, PTL DEF Spec
=============================================================================
