---------------------------- MODULE RequestService ----------------------------
(***************************************************************************)
(* The Wi-Fi service of the core: its thread accepts one client after the  *)
(* other and serves the requests in the queue, while a reader thread per   *)
(* connection fills it. The queue, the flag is_connection_closed and the   *)
(* communicator's connection belong to the service and outlive a           *)
(* connection, and with it possibly its reader thread.                     *)
(*                                                                         *)
(* Clients connect in the order of their numbers, which is the order of    *)
(* the listening socket's backlog. A request stands for its place in       *)
(* `log', the lines the clients sent; of its endpoint and parameters only  *)
(* the kind of answer counts.                                              *)
(***************************************************************************)
EXTENDS Naturals, Sequences

CONSTANTS
  MaxConnections, \* bound: how often a client connects
  MaxRequests,    \* bound: how many lines the clients send
  Kinds           \* what the lines are, of "ok", "raises", "unknown", "garbled"

ASSUME ServiceAssumption ==
  /\ MaxConnections \in Nat /\ MaxRequests \in Nat
  /\ Kinds \subseteq {"ok", "raises", "unknown", "garbled"}

VARIABLES
  link,       \* the client's end of each connection: "none", "open", "closed", "lost"
  wire,       \* the lines on the way from each client
  log,        \* the lines sent: [from, kind] (history)
  connection, \* WifiCommunicator._connection and _reader
  closed,     \* RequestHandlerService.is_connection_closed
  queue,      \* RequestHandlerService._queue
  reader,     \* where the reader thread of each connection is
  on,         \* the connection each reader thread reads from, or 0
  holds,      \* the request each has read and not put yet, or 0
  service,    \* where the service thread is
  current,    \* the request it handles, or 0
  served      \* the answers sent: [request, to, status] (history)

clients == <<link, wire, log>>
handler == <<connection, closed, service, current, served>>
threads == <<reader, on, holds>>
vars == <<clients, handler, queue, threads>>

Connections == 1 .. MaxConnections

Init ==
  /\ link = [c \in Connections |-> "none"]
  /\ wire = [c \in Connections |-> <<>>]
  /\ log = <<>>
  /\ connection = 0 /\ closed = FALSE
  /\ queue = <<>>
  /\ reader = [k \in Connections |-> "none"]
  /\ on = [k \in Connections |-> 0] /\ holds = [k \in Connections |-> 0]
  /\ service = "accept" /\ current = 0
  /\ served = <<>>

-----------------------------------------------------------------------------
(* The clients.                                                             *)

Connect(c) ==
  /\ link[c] = "none"
  /\ \A d \in 1 .. c - 1 : link[d] # "none"
  /\ link' = [link EXCEPT ![c] = "open"]
  /\ UNCHANGED <<wire, log, handler, queue, threads>>

Send(c) ==
  /\ link[c] = "open" /\ Len(log) < MaxRequests
  /\ \E kind \in Kinds : log' = Append(log, [from |-> c, kind |-> kind])
  /\ wire' = [wire EXCEPT ![c] = Append(@, Len(log) + 1)]
  /\ UNCHANGED <<link, handler, queue, threads>>

\* What was sent still arrives, or is lost.
Goes(c, how) ==
  /\ link[c] = "open"
  /\ link' = [link EXCEPT ![c] = how]
  /\ wire' \in {wire, [wire EXCEPT ![c] = <<>>]}
  /\ UNCHANGED <<log, handler, queue, threads>>

\* In order, or by a reset.
Close(c) == Goes(c, "closed")

\* Out of the network, or without current: the core is not told, and never asks.
Vanish(c) == Goes(c, "lost")

-----------------------------------------------------------------------------
(* The service thread.                                                      *)

\* Slip: a client is not waited for.
AcceptNobody ==
  /\ service = "accept"
  /\ connection' = connection + 1 /\ service' = "start"
  /\ UNCHANGED <<clients, closed, current, served, queue, threads>>

Accept ==
  /\ service = "accept"
  /\ connection < MaxConnections /\ link[connection + 1] # "none"
  /\ connection' = connection + 1 /\ service' = "start"
  /\ UNCHANGED <<clients, closed, current, served, queue, threads>>

StartHandling ==
  /\ service = "start"
  /\ closed' = FALSE
  /\ reader' = [reader EXCEPT ![connection] = "check"]
  /\ service' = "poll"
  /\ UNCHANGED <<clients, connection, current, served, queue, on, holds>>

Leave ==
  /\ service = "poll" /\ closed
  /\ service' = "accept"
  /\ UNCHANGED <<clients, connection, closed, current, served, queue, threads>>

\* Slip: the request that came last is served first.
TakeLast ==
  /\ service = "poll" /\ ~closed /\ queue # <<>>
  /\ current' = queue[Len(queue)]
  /\ queue' = SubSeq(queue, 1, Len(queue) - 1)
  /\ service' = "perform"
  /\ UNCHANGED <<clients, connection, closed, served, threads>>

Take ==
  /\ service = "poll" /\ ~closed /\ queue # <<>>
  /\ current' = Head(queue)
  /\ queue' = Tail(queue)
  /\ service' = "perform"
  /\ UNCHANGED <<clients, connection, closed, served, threads>>

StatusOf(request) ==
  CASE log[request].kind = "ok" -> "OK"
    [] log[request].kind = "raises" -> "ERROR"
    [] log[request].kind = "unknown" -> "BAD_REQUEST"

Response == [request |-> current, to |-> connection, status |-> StatusOf(current)]

\* Slip: a wrong endpoint is passed over.
RespondIfKnown ==
  served' = IF StatusOf(current) = "BAD_REQUEST" THEN served ELSE Append(served, Response)

Respond == served' = Append(served, Response)

\* The answer goes to the client of the moment, who may be gone: what is sent is lost.
Perform ==
  /\ service = "perform"
  /\ Respond
  /\ current' = 0 /\ service' = "poll"
  /\ UNCHANGED <<clients, connection, closed, queue, threads>>

\* The kernel notices the loss of a client only by an answer that nobody acknowledges.
GivenUp(c) == link[c] = "lost" /\ \E i \in 1 .. Len(served) : served[i].to = c

\* Or sendall raises, which ends the service: nobody catches it below WifiService.run.
SendFails ==
  /\ service = "perform" /\ (link[connection] = "closed" \/ GivenUp(connection))
  /\ current' = 0 /\ service' = "failed"
  /\ UNCHANGED <<clients, connection, closed, served, queue, threads>>

Service == Accept \/ StartHandling \/ Leave \/ Take \/ Perform

-----------------------------------------------------------------------------
(* A reader thread. Its test of the flag and its call of read() are one     *)
(* step: in between, only another reader thread could have the service      *)
(* accept the next client.                                                  *)

Check(k) ==
  /\ reader[k] = "check"
  /\ IF closed THEN reader' = [reader EXCEPT ![k] = "ended"] /\ UNCHANGED on
     ELSE reader' = [reader EXCEPT ![k] = "read"] /\ on' = [on EXCEPT ![k] = connection]
  /\ UNCHANGED <<clients, handler, queue, holds>>

Shared(k) ==
  \E other \in Connections \ {k} : reader[other] = "read" /\ on[other] = on[k]

\* A line that does not parse raises in the thread, which dies. Two threads in readline() of
\* one file: it is not made for that, a line may get lost or be torn.
ReadLine(k) ==
  LET c == on[k] IN
  /\ reader[k] = "read" /\ wire[c] # <<>>
  /\ wire' = [wire EXCEPT ![c] = Tail(@)]
  /\ \/ /\ log[Head(wire[c])].kind # "garbled"
        /\ reader' = [reader EXCEPT ![k] = "put"]
        /\ holds' = [holds EXCEPT ![k] = Head(wire[c])]
     \/ /\ log[Head(wire[c])].kind = "garbled" \/ Shared(k)
        /\ reader' = [reader EXCEPT ![k] = "died"]
        /\ UNCHANGED holds
     \/ Shared(k) /\ UNCHANGED <<reader, holds>>
  /\ UNCHANGED <<link, log, handler, queue, on>>

Put(k) ==
  /\ reader[k] = "put"
  /\ queue' = Append(queue, holds[k])
  /\ reader' = [reader EXCEPT ![k] = "check"]
  /\ holds' = [holds EXCEPT ![k] = 0]
  /\ UNCHANGED <<clients, handler, on>>

\* Slip: to have read nothing yet is taken for the end.
ReadNothing(k) ==
  /\ reader[k] = "read" /\ wire[on[k]] = <<>>
  /\ reader' = [reader EXCEPT ![k] = "closing"]
  /\ UNCHANGED <<clients, handler, queue, on, holds>>

ReadEnd(k) ==
  /\ reader[k] = "read" /\ wire[on[k]] = <<>> /\ link[on[k]] = "closed"
  /\ reader' = [reader EXCEPT ![k] = "closing"]
  /\ UNCHANGED <<clients, handler, queue, on, holds>>

\* Slip: the end of the connection ends the thread, and nobody is told.
EndUnsaid(k) ==
  /\ reader[k] = "closing"
  /\ reader' = [reader EXCEPT ![k] = "ended"]
  /\ UNCHANGED <<clients, handler, queue, on, holds>>

SetClosed(k) ==
  /\ reader[k] = "closing"
  /\ closed' = TRUE
  /\ reader' = [reader EXCEPT ![k] = "check"]
  /\ UNCHANGED <<clients, connection, service, current, served, queue, on, holds>>

\* The client is gone in the middle of a line, or the socket fails in another way than by a
\* reset, as it does after an answer was given up.
ReadFails(k) ==
  /\ reader[k] = "read" /\ (link[on[k]] = "closed" \/ GivenUp(on[k]))
  /\ reader' = [reader EXCEPT ![k] = "died"]
  /\ UNCHANGED <<clients, handler, queue, on, holds>>

Reader(k) == Check(k) \/ ReadLine(k) \/ Put(k) \/ ReadEnd(k) \/ SetClosed(k)

Next ==
  \/ \E c \in Connections : Connect(c) \/ Send(c) \/ Close(c) \/ Vanish(c)
  \/ Service \/ SendFails
  \/ \E k \in Connections : Reader(k) \/ ReadFails(k)

Spec == Init /\ [][Next]_vars

\* Every thread goes on, and every handler returns. No client has to do anything.
Fairness == WF_vars(Service) /\ \A k \in Connections : WF_vars(Reader(k))

FairSpec == Spec /\ Fairness

-----------------------------------------------------------------------------
ClientsTypeOK ==
  /\ link \in [Connections -> {"none", "open", "closed", "lost"}]
  /\ wire \in [Connections -> Seq(Nat)]
  /\ log \in Seq([from : Connections, kind : Kinds])

HandlerTypeOK ==
  /\ connection \in 0 .. MaxConnections /\ closed \in BOOLEAN
  /\ queue \in Seq(Nat)
  /\ reader \in [Connections -> {"none", "check", "read", "put", "closing", "ended", "died"}]
  /\ on \in [Connections -> 0 .. MaxConnections] /\ holds \in [Connections -> Nat]
  /\ service \in {"accept", "start", "poll", "perform", "failed"}
  /\ current \in Nat
  /\ served \in Seq([request : Nat, to : Connections, status : {"OK", "ERROR", "BAD_REQUEST"}])

TypeOK == ClientsTypeOK /\ HandlerTypeOK

\* A reader thread missed the flag: the next client had been accepted by the time it looked.
Strayed == \E k \in Connections : on[k] > k

Died == \E k \in Connections : reader[k] = "died"

\* What is served of each client is in the order it sent it, and one client after the other,
\* whatever was left in the queue: no request is served twice. (A strayed reader thread may
\* have a line overtaken by the next.)
InOrder ==
  Strayed \/ \A i \in 1 .. Len(served) : \A j \in 1 .. i - 1 :
    LET r == served[i].request
        s == served[j].request
    IN log[s].from < log[r].from \/ (log[s].from = log[r].from /\ s < r)

\* An answer goes to another client than the one that asked only when that one is gone.
AnswerHome ==
  Strayed \/ \A i \in 1 .. Len(served) :
    LET asker == log[served[i].request].from
    IN served[i].to = asker \/ (asker < served[i].to /\ link[asker] = "closed")

\* Where the request r is: on its way, held by a thread, in the queue, being handled, answered.
OnWire(r) == \E i \in 1 .. Len(wire[log[r].from]) : wire[log[r].from][i] = r
Held(r) == \E k \in Connections : reader[k] = "put" /\ holds[k] = r
Queued(r) == \E i \in 1 .. Len(queue) : queue[i] = r
Handled(r) == service = "perform" /\ current = r
Served(r) == \E i \in 1 .. Len(served) : served[i].request = r

Taken(r) == Held(r) \/ Queued(r) \/ Handled(r) \/ Served(r)

\* No request of a client that is still there gets lost between its socket and the answer, as
\* long as no reader thread dies or strays: not even by the service's turn to the next client.
NothingLost ==
  Strayed \/ Died \/ \A r \in 1 .. Len(log) :
    link[log[r].from] = "open" => OnWire(r) \/ Taken(r)

\* The service does not turn away from a client that is still there.
LeavesOnlyClosed ==
  [][service = "poll" /\ service' = "accept" => Strayed \/ link[connection] = "closed"]_vars

\* The handling of a client ends when the client closes or resets the connection, but for a
\* reader thread that died without setting the flag, or an answer that could not be sent.
\* Not when the client is lost, as handler.py:40 has it: for that the service may wait for ever.
Released ==
  service = "poll" /\ link[connection] = "closed" ~> service \in {"accept", "failed"} \/ Died

\* A request of the accepted client that is not answered, though all threads live.
Unanswered(r) ==
  /\ r <= Len(log) /\ connection = log[r].from /\ link[connection] = "open"
  /\ \A i \in 1 .. Len(served) : served[i].request # r
  /\ service # "failed" /\ ~Died /\ ~Strayed

\* An accepted client that stays is not left waiting for ever.
Answered == \A r \in 1 .. MaxRequests : []<>~Unanswered(r)
=============================================================================
