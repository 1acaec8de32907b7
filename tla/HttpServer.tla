------------------------------ MODULE HttpServer ------------------------------
(***************************************************************************)
(* How the mock server's HTTP library (webui/src/httplib.h) serves          *)
(* connections: Server::listen_internal() accepts and queues them,          *)
(* ThreadPool's workers take them, keep_alive() holds a worker while a      *)
(* connection may send another request, and the signal handler of main()    *)
(* stops it all.  A critical section of the pool's mutex is one step; what  *)
(* is done outside of it, a notify among it, is another.  What a request    *)
(* does is in MockServer.  Sockets are external.                            *)
(***************************************************************************)
EXTENDS Integers, FiniteSets, Sequences, SequencesExt

CONSTANTS
  Worker, Conn,
  MaxKeep,        \* keep_alive_max_count_
  MaxSends,       \* requests a connection makes
  MaxSignals

ASSUME HttpAssumption ==
  /\ Worker # {} /\ IsFiniteSet(Worker) /\ Conn # {}
  /\ MaxKeep \in Nat \ {0} /\ MaxSends \in Nat /\ MaxSignals \in Nat

VARIABLES
  svrSock,        \* svr_sock_ is not INVALID_SOCKET
  running,        \* is_running_
  lpc,            \* the listener: accept, notify, shutdown, notifyAll, join, returned
  jobs, shutdown, \* the pool's, under its mutex
  wpc,            \* [Worker -> test, wait, keep, handle or ended]
  serves,         \* [Worker -> its connection]
  count,          \* [Worker -> requests it may still take from it]
  conn,           \* [Conn -> none, backlog, queued, open or closed]
  pending, sends, \* [Conn -> requests not yet read], [Conn -> requests made]
  signals,
  aborted         \* the assertion of stop() has failed

poolVars == <<jobs, shutdown, wpc, serves, count>>
connVars == <<conn, pending, sends>>
vars == <<svrSock, running, lpc, jobs, shutdown, wpc, serves, count, conn, pending, sends,
          signals, aborted>>

Init ==
  /\ svrSock = TRUE /\ running = TRUE /\ lpc = "accept"
  /\ jobs = <<>> /\ shutdown = FALSE
  /\ wpc = [w \in Worker |-> "test"] /\ serves = [w \in Worker |-> CHOOSE c \in Conn : TRUE] /\ count = [w \in Worker |-> 0]
  /\ conn = [c \in Conn |-> "none"]
  /\ pending = [c \in Conn |-> 0] /\ sends = [c \in Conn |-> 0]
  /\ signals = 0 /\ aborted = FALSE

-------------------------------------------------------------------------------
(* Clients, and the signal. *)

Connect(c) ==
  /\ svrSock /\ conn[c] = "none" /\ ~aborted
  /\ conn' = [conn EXCEPT ![c] = "backlog"]
  /\ UNCHANGED <<svrSock, running, lpc, poolVars, pending, sends, signals, aborted>>

Send(c) ==
  /\ conn[c] \in {"backlog", "queued", "open"} /\ sends[c] < MaxSends /\ ~aborted
  /\ sends' = [sends EXCEPT ![c] = @ + 1] /\ pending' = [pending EXCEPT ![c] = @ + 1]
  /\ UNCHANGED <<svrSock, running, lpc, poolVars, conn, signals, aborted>>

\* signalHandler(), Server::stop()
Stop ==
  /\ signals < MaxSignals /\ signals' = signals + 1 /\ ~aborted
  /\ svrSock' = IF running THEN FALSE ELSE svrSock
  /\ aborted' = (running /\ ~svrSock)
  /\ conn' = [c \in Conn |-> IF running /\ conn[c] = "backlog" THEN "closed" ELSE conn[c]]
  /\ UNCHANGED <<running, lpc, poolVars, pending, sends>>

-------------------------------------------------------------------------------
(* The listener. *)

Waiting == {w \in Worker : wpc[w] = "wait"}
Woken(ws) == [w \in Worker |-> IF w \in ws THEN "test" ELSE wpc[w]]

\* accept(), and enqueue() up to the end of its critical section
Accept(c) ==
  /\ lpc = "accept" /\ svrSock /\ conn[c] = "backlog"
  /\ conn' = [conn EXCEPT ![c] = "queued"]
  /\ jobs' = Append(jobs, c) /\ lpc' = "notify"
  /\ UNCHANGED <<svrSock, running, shutdown, wpc, serves, count, pending, sends, signals, aborted>>

\* Mutant of Notify: only the first job of a queue wakes a worker.
NotifyFirst ==
  /\ lpc = "notify" /\ lpc' = "accept"
  /\ \/ Len(jobs) < 2 /\ \E w \in Waiting : wpc' = Woken({w})
     \/ (Waiting = {} \/ Len(jobs) >= 2) /\ UNCHANGED wpc
  /\ UNCHANGED <<svrSock, running, jobs, shutdown, serves, count, connVars, signals, aborted>>

\* notify_one
Notify ==
  /\ lpc = "notify" /\ lpc' = "accept"
  /\ \/ \E w \in Waiting : wpc' = Woken({w})
     \/ Waiting = {} /\ UNCHANGED wpc
  /\ UNCHANGED <<svrSock, running, jobs, shutdown, serves, count, connVars, signals, aborted>>

\* accept() fails on the closed socket; shutdown() sets the flag.
EndAccept ==
  /\ lpc = "accept" /\ ~svrSock
  /\ lpc' = "notifyAll" /\ shutdown' = TRUE
  /\ UNCHANGED <<svrSock, running, jobs, wpc, serves, count, connVars, signals, aborted>>

\* Mutant of NotifyAll: one worker is woken.
NotifyOneAtEnd ==
  /\ lpc = "notifyAll" /\ lpc' = "join"
  /\ \/ \E w \in Waiting : wpc' = Woken({w})
     \/ Waiting = {} /\ UNCHANGED wpc
  /\ UNCHANGED <<svrSock, running, jobs, shutdown, serves, count, connVars, signals, aborted>>

NotifyAll ==
  /\ lpc = "notifyAll" /\ lpc' = "join"
  /\ wpc' = Woken(Waiting)
  /\ UNCHANGED <<svrSock, running, jobs, shutdown, serves, count, connVars, signals, aborted>>

\* Every thread is joined; is_running_ is reset on the way out.
Join ==
  /\ lpc = "join" /\ \A w \in Worker : wpc[w] = "ended"
  /\ lpc' = "returned" /\ running' = FALSE
  /\ UNCHANGED <<svrSock, poolVars, connVars, signals, aborted>>

Listener == (Notify \/ EndAccept \/ NotifyAll \/ Join \/ \E c \in Conn : Accept(c)) /\ ~aborted

-------------------------------------------------------------------------------
(* A worker. *)

\* Mutant of Ends: the queue is left as it is.
EndsAtOnce == shutdown

\* A worker ends when the pool shuts down and nothing is queued.
Ends == shutdown /\ jobs = <<>>

Rest == Tail(jobs)

\* The critical section: take a job, end, or give up the mutex and wait.
Test(w) ==
  /\ wpc[w] = "test"
  /\ \/ /\ Ends
        /\ wpc' = [wpc EXCEPT ![w] = "ended"] /\ UNCHANGED <<jobs, serves, count, conn>>
     \/ /\ ~Ends /\ jobs # <<>>
        /\ wpc' = [wpc EXCEPT ![w] = "keep"]
        /\ serves' = [serves EXCEPT ![w] = Head(jobs)] /\ jobs' = Rest
        /\ count' = [count EXCEPT ![w] = MaxKeep]
        /\ conn' = [conn EXCEPT ![Head(jobs)] = "open"]
     \/ /\ ~Ends /\ jobs = <<>>
        /\ wpc' = [wpc EXCEPT ![w] = "wait"] /\ UNCHANGED <<jobs, serves, count, conn>>
  /\ UNCHANGED <<svrSock, running, lpc, shutdown, pending, sends, signals, aborted>>

Closes(w) ==
  /\ wpc' = [wpc EXCEPT ![w] = "test"] /\ conn' = [conn EXCEPT ![serves[w]] = "closed"]
  /\ pending' = [pending EXCEPT ![serves[w]] = 0]

\* keep_alive(): a request is there
Readable(w) ==
  /\ wpc[w] = "keep" /\ count[w] > 0 /\ pending[serves[w]] > 0
  /\ wpc' = [wpc EXCEPT ![w] = "handle"]
  /\ UNCHANGED <<svrSock, running, lpc, jobs, shutdown, serves, count, connVars, signals, aborted>>

\* Mutant of Over: a connection that sends nothing is not timed.
OverUntimed(w) == count[w] = 0 \/ (pending[serves[w]] = 0 /\ ~svrSock)

\* No request is there and the server socket is closed or the time is over; or enough
\* were read.
Over(w) == count[w] = 0 \/ pending[serves[w]] = 0

GiveUp(w) ==
  /\ wpc[w] = "keep" /\ Over(w)
  /\ Closes(w)
  /\ UNCHANGED <<svrSock, running, lpc, jobs, shutdown, serves, count, sends, signals, aborted>>

\* process_request(), which may also end the connection
Handle(w) ==
  /\ wpc[w] = "handle"
  /\ \/ /\ wpc' = [wpc EXCEPT ![w] = "keep"]
        /\ pending' = [pending EXCEPT ![serves[w]] = @ - 1] /\ UNCHANGED conn
     \/ Closes(w)
  /\ count' = [count EXCEPT ![w] = @ - 1]
  /\ UNCHANGED <<svrSock, running, lpc, jobs, shutdown, serves, sends, signals, aborted>>

Work(w) == (Test(w) \/ Readable(w) \/ GiveUp(w) \/ Handle(w)) /\ ~aborted

Next == \/ Stop \/ Listener
        \/ \E c \in Conn : Connect(c) \/ Send(c)
        \/ \E w \in Worker : Work(w)

\* The threads go on; a connection that sends nothing is given up after 5 s.
Spec == Init /\ [][Next]_vars /\ WF_vars(Listener) /\ \A w \in Worker : WF_vars(Work(w))

-------------------------------------------------------------------------------
(* Properties. *)

\* Types, and which connections a worker holds.
TypeOK ==
  /\ {svrSock, running, shutdown, aborted} \subseteq BOOLEAN
  /\ lpc \in {"accept", "notify", "notifyAll", "join", "returned"}
  /\ jobs \in Seq(Conn) /\ ToSet(jobs) = {c \in Conn : conn[c] = "queued"}
  /\ \A w \in Worker : wpc[w] \in {"keep", "handle"} => conn[serves[w]] = "open"
  /\ \A c \in Conn : pending[c] \in 0 .. sends[c] /\ sends[c] \in 0 .. MaxSends

\* listen() returns only when every connection it accepted has been served to its end,
\* however the signal falls (httplib.h:899-912, 924-931).
AcceptedIsServed == lpc = "returned" => \A c \in Conn : conn[c] \in {"none", "closed"}

\* No worker sleeps beside work: while one waits, every job has an awake worker to take
\* it, or its notification is still to come (httplib.h:886-897, 924).
Awake == {w \in Worker : wpc[w] = "test"}
NoLostWakeup ==
  Waiting # {} => Len(jobs) <= Cardinality(Awake) + (IF lpc = "notify" THEN 1 ELSE 0)

\* An accepted connection does not wait forever, even with every worker held by a
\* connection that sends nothing (httplib.h:3771-3786).
EveryJobEnds == \A c \in Conn : conn[c] = "queued" ~> conn[c] = "closed" \/ aborted

\* After the signal, listen() returns (webui/src/main.cpp:14-19).
StopReturns == ~svrSock ~> (lpc = "returned" \/ aborted)

\* stop() finds the server socket open while the server runs: the assertion of
\* httplib.h:7878.
StopFindsSocket == ~aborted

================================================================================
