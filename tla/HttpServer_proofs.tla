--------------------------- MODULE HttpServer_proofs ---------------------------
(***************************************************************************)
(* For every number of workers, connections, requests and signals, the      *)
(* pool of HttpServer loses no wake-up, and listen() returns only when      *)
(* every connection it accepted is closed.                                  *)
(***************************************************************************)
EXTENDS HttpServer, FiniteSetTheorems, SequenceTheorems, TLAPS

WorkerPlace == {"test", "wait", "keep", "handle", "ended"}
ConnState == {"none", "backlog", "queued", "open", "closed"}
ListenerPlace == {"accept", "notify", "notifyAll", "join", "returned"}

Typed ==
  /\ lpc \in ListenerPlace
  /\ jobs \in Seq(Conn)
  /\ wpc \in [Worker -> WorkerPlace] /\ serves \in [Worker -> Conn]
  /\ conn \in [Conn -> ConnState]

LEMMA InitTyped == Init => Typed
  BY HttpAssumption DEF Init, Typed, WorkerPlace, ConnState, ListenerPlace

LEMMA StepTyped == Typed /\ [Next]_vars => Typed'
<1> SUFFICES ASSUME Typed, [Next]_vars PROVE Typed'
  OBVIOUS
<1> USE DEF Typed, WorkerPlace, ConnState, ListenerPlace
<1>1. ASSUME NEW c \in Conn, Connect(c) \/ Send(c) PROVE Typed'
  BY <1>1 DEF Connect, Send, poolVars
<1>2. CASE Stop
  BY <1>2 DEF Stop, poolVars
<1>3. ASSUME NEW c \in Conn, Accept(c) PROVE Typed'
  BY <1>3, AppendProperties DEF Accept
<1>4. CASE Notify
  BY <1>4 DEF Notify, Woken, Waiting, connVars
<1>5. CASE EndAccept
  BY <1>5 DEF EndAccept, connVars
<1>6. CASE NotifyAll
  BY <1>6 DEF NotifyAll, Woken, Waiting, connVars
<1>7. CASE Join
  BY <1>7 DEF Join, poolVars, connVars
<1>8. ASSUME NEW w \in Worker, Test(w) PROVE Typed'
  <2>1. jobs # <<>> => Head(jobs) \in Conn /\ Tail(jobs) \in Seq(Conn)
    BY HeadTailProperties
  <2>2. lpc' = lpc
    BY <1>8 DEF Test
  <2>3. CASE UNCHANGED <<jobs, serves, count, conn>>
    BY <1>8, <2>2, <2>3 DEF Test
  <2>4. CASE jobs # <<>>
    <3>1. /\ wpc' = [wpc EXCEPT ![w] = "keep"]
          /\ serves' = [serves EXCEPT ![w] = Head(jobs)] /\ jobs' = Tail(jobs)
          /\ conn' = [conn EXCEPT ![Head(jobs)] = "open"]
      BY <1>8, <2>4 DEF Test, Ends, Rest
    <3>2. wpc' \in [Worker -> WorkerPlace] /\ serves' \in [Worker -> Conn]
      BY <2>1, <2>4, <3>1
    <3>3. conn' \in [Conn -> ConnState]
      BY <2>1, <2>4, <3>1
    <3> QED
      BY <2>1, <2>2, <2>4, <3>1, <3>2, <3>3
  <2> QED
    BY <1>8, <2>3, <2>4 DEF Test
<1>9. ASSUME NEW w \in Worker, Readable(w) \/ GiveUp(w) \/ Handle(w) PROVE Typed'
  BY <1>9 DEF Readable, GiveUp, Handle, Closes, connVars
<1>10. CASE UNCHANGED vars
  BY <1>10 DEF vars
<1> QED
  BY <1>1, <1>2, <1>3, <1>4, <1>5, <1>6, <1>7, <1>8, <1>9, <1>10 DEF Next, Listener, Work

-------------------------------------------------------------------------------
(* No lost wake-up. *)

\* A set of workers, and what one of them coming or going does to its size.
LEMMA WorkersFinite ==
  ASSUME NEW S \in SUBSET Worker
  PROVE  IsFiniteSet(S) /\ Cardinality(S) \in Nat
  BY HttpAssumption, FS_Subset, FS_CardinalityType

LEMMA OneMore ==
  ASSUME NEW S \in SUBSET Worker, NEW w \in Worker, w \notin S
  PROVE  Cardinality(S \union {w}) = Cardinality(S) + 1
  BY WorkersFinite, FS_AddElement

LEMMA OneLess ==
  ASSUME NEW S \in SUBSET Worker, NEW w \in S
  PROVE  Cardinality(S \ {w}) = Cardinality(S) - 1
  BY WorkersFinite, FS_RemoveElement

LEMMA AwakeFinite == Cardinality(Awake) \in Nat /\ Cardinality(Awake)' \in Nat
<1>1. Awake \in SUBSET Worker /\ Awake' \in SUBSET Worker
  BY DEF Awake
<1> QED
  BY <1>1, WorkersFinite

\* A step that moves no worker, queues nothing and takes back no notification.
LEMMA StillAwake ==
  ASSUME Typed, NoLostWakeup, UNCHANGED <<wpc, jobs>>, lpc = "notify" => lpc' = "notify"
  PROVE  NoLostWakeup'
<1>1. Waiting' = Waiting /\ Awake' = Awake
  BY DEF Waiting, Awake
<1>2. CASE lpc = "notify"
  BY <1>1, <1>2 DEF NoLostWakeup
<1>3. CASE lpc # "notify"
  <2>1. Waiting # {} => Len(jobs) <= Cardinality(Awake)
    BY <1>3, AwakeFinite DEF NoLostWakeup
  <2> QED
    BY <1>1, <2>1, AwakeFinite DEF NoLostWakeup
<1> QED
  BY <1>2, <1>3

\* A worker that stops to test takes a job with it, or finds none.
LEMMA TestKeepsAwake ==
  ASSUME Typed, NoLostWakeup, NEW w \in Worker, Test(w)
  PROVE  NoLostWakeup'
<1>1. wpc[w] = "test" /\ lpc' = lpc
  BY DEF Test
<1>2. CASE jobs' = <<>>
  <2>1. Len(jobs') = 0
    BY <1>2
  <2> QED
    BY <2>1, AwakeFinite DEF NoLostWakeup
<1>3. CASE jobs' # <<>>
  <2>1. jobs # <<>> /\ jobs' = Tail(jobs) /\ wpc' = [wpc EXCEPT ![w] = "keep"]
    BY <1>3 DEF Test, Ends, Rest
  <2>2. Len(jobs') = Len(jobs) - 1 /\ Len(jobs) \in Nat
    BY <2>1, HeadTailProperties, LenProperties DEF Typed
  <2>3. Waiting' = Waiting /\ Awake' = Awake \ {w} /\ w \in Awake
    BY <1>1, <2>1 DEF Typed, Waiting, Awake
  <2>4. Cardinality(Awake') = Cardinality(Awake) - 1
    BY <2>3, OneLess DEF Awake
  <2> QED
    BY <1>1, <2>2, <2>3, <2>4, AwakeFinite DEF NoLostWakeup
<1> QED
  BY <1>2, <1>3

\* A worker that is done with its connection is awake again.
LEMMA ClosesKeepsAwake ==
  ASSUME Typed, NoLostWakeup, NEW w \in Worker, wpc[w] \in {"keep", "handle"},
         wpc' = [wpc EXCEPT ![w] = "test"], UNCHANGED <<jobs, lpc>>
  PROVE  NoLostWakeup'
<1>1. Waiting' = Waiting /\ Awake' = Awake \union {w} /\ w \notin Awake
  BY DEF Typed, Waiting, Awake
<1>2. Cardinality(Awake') = Cardinality(Awake) + 1 /\ Len(jobs) \in Nat
  BY <1>1, OneMore, LenProperties DEF Typed, Awake
<1> QED
  BY <1>1, <1>2, AwakeFinite DEF NoLostWakeup

\* The notification that Accept owes wakes a worker, unless none waits.
LEMMA NotifyKeepsAwake ==
  ASSUME Typed, NoLostWakeup, Notify
  PROVE  NoLostWakeup'
<1>1. lpc = "notify" /\ lpc' = "accept" /\ jobs' = jobs
  BY DEF Notify
<1>2. ASSUME NEW w \in Waiting, wpc' = Woken({w}) PROVE NoLostWakeup'
  <2>1. w \in Worker /\ wpc[w] = "wait"
    BY DEF Waiting
  <2>2. wpc' = [wpc EXCEPT ![w] = "test"]
    BY <1>2, <2>1 DEF Woken, Typed
  <2>3. Awake' = Awake \union {w} /\ w \notin Awake
    BY <2>1, <2>2 DEF Typed, Awake
  <2>4. Cardinality(Awake') = Cardinality(Awake) + 1 /\ Len(jobs) \in Nat
    BY <2>1, <2>3, OneMore, LenProperties DEF Typed, Awake
  <2> QED
    BY <1>1, <2>4, AwakeFinite DEF NoLostWakeup
<1>3. CASE Waiting = {} /\ UNCHANGED wpc
  <2>1. Waiting' = {}
    BY <1>3 DEF Waiting
  <2> QED
    BY <2>1 DEF NoLostWakeup
<1> QED
  BY <1>2, <1>3 DEF Notify

LEMMA StepNoLostWakeup == Typed /\ NoLostWakeup /\ [Next]_vars => NoLostWakeup'
<1> SUFFICES ASSUME Typed, NoLostWakeup, [Next]_vars PROVE NoLostWakeup'
  OBVIOUS
<1>1. ASSUME NEW c \in Conn, Connect(c) \/ Send(c) PROVE NoLostWakeup'
  BY <1>1, StillAwake DEF Connect, Send, poolVars
<1>2. CASE Stop
  BY <1>2, StillAwake DEF Stop, poolVars
<1>3. ASSUME NEW c \in Conn, Accept(c) PROVE NoLostWakeup'
  <2>1. lpc = "accept" /\ lpc' = "notify" /\ Waiting' = Waiting /\ Awake' = Awake
    BY <1>3 DEF Accept, Waiting, Awake
  <2>2. Len(jobs') = Len(jobs) + 1 /\ Len(jobs) \in Nat
    BY <1>3, AppendProperties, LenProperties DEF Accept, Typed
  <2> QED
    BY <2>1, <2>2, AwakeFinite DEF NoLostWakeup
<1>4. CASE Notify
  BY <1>4, NotifyKeepsAwake
<1>5. CASE EndAccept \/ Join
  BY <1>5, StillAwake DEF EndAccept, Join, poolVars
<1>6. CASE NotifyAll
  <2>1. Waiting' = {}
    BY <1>6 DEF NotifyAll, Woken, Waiting
  <2> QED
    BY <2>1 DEF NoLostWakeup
<1>7. ASSUME NEW w \in Worker, Test(w) PROVE NoLostWakeup'
  BY <1>7, TestKeepsAwake
<1>8. ASSUME NEW w \in Worker, GiveUp(w) \/ Handle(w), wpc' = [wpc EXCEPT ![w] = "test"]
      PROVE  NoLostWakeup'
  BY <1>8, ClosesKeepsAwake DEF GiveUp, Handle
<1>9. ASSUME NEW w \in Worker, wpc[w] \in {"keep", "handle"},
             wpc' = [wpc EXCEPT ![w] = "keep"] \/ wpc' = [wpc EXCEPT ![w] = "handle"],
             UNCHANGED <<jobs, lpc>>
      PROVE  NoLostWakeup'
  <2>1. Waiting' = Waiting /\ Awake' = Awake
    BY <1>9 DEF Typed, Waiting, Awake
  <2> QED
    BY <1>9, <2>1 DEF NoLostWakeup
<1>10. CASE UNCHANGED vars
  BY <1>10, StillAwake DEF vars
<1>11. ASSUME NEW w \in Worker, Readable(w) PROVE NoLostWakeup'
  BY <1>9, <1>11 DEF Readable
<1>12. ASSUME NEW w \in Worker, GiveUp(w) PROVE NoLostWakeup'
  BY <1>8, <1>12 DEF GiveUp, Closes
<1>13. ASSUME NEW w \in Worker, Handle(w) PROVE NoLostWakeup'
  BY <1>8, <1>9, <1>13 DEF Handle, Closes
<1> QED
  BY <1>1, <1>2, <1>3, <1>4, <1>5, <1>6, <1>7, <1>10, <1>11, <1>12, <1>13
  DEF Next, Listener, Work

\* No worker sleeps beside work (httplib.h:886-897, 924).
THEOREM WakeupsArrive == Spec => []NoLostWakeup
<1>1. Init => NoLostWakeup
  <2>1. Init => Waiting = {}
    BY DEF Init, Waiting
  <2> QED
    BY <2>1 DEF NoLostWakeup
<1> QED
  BY <1>1, InitTyped, StepTyped, StepNoLostWakeup, PTL DEF Spec

-------------------------------------------------------------------------------
(* listen() returns when all is served. *)

Holds(w) == wpc[w] \in {"keep", "handle"}

\* Every accepted connection is in the queue or in the hands of a worker; once the
\* listener has stopped accepting nothing can come in, and a worker ends only then and
\* only on an empty queue.
QueuedIsJob == \A c \in Conn : conn[c] = "queued" => \E i \in 1 .. Len(jobs) : jobs[i] = c
OpenIsHeld == \A c \in Conn : conn[c] = "open" => \E w \in Worker : Holds(w) /\ serves[w] = c
Ending ==
  /\ svrSock \in BOOLEAN /\ shutdown \in BOOLEAN /\ running \in BOOLEAN
  /\ ~svrSock => \A c \in Conn : conn[c] # "backlog"
  /\ shutdown <=> lpc \in {"notifyAll", "join", "returned"}
  /\ shutdown => ~svrSock
  /\ \A w \in Worker : wpc[w] = "ended" => shutdown /\ jobs = <<>>
  /\ lpc = "returned" => \A w \in Worker : wpc[w] = "ended"
  /\ running <=> lpc # "returned"
Accounted == QueuedIsJob /\ OpenIsHeld /\ Ending

LEMMA InitAccounted == Init => Accounted
  BY DEF Init, Accounted, QueuedIsJob, OpenIsHeld, Ending

LEMMA ListenerAccounted == Typed /\ Accounted /\ Listener => Accounted'
<1> SUFFICES ASSUME Typed, Accounted, Listener PROVE Accounted'
  OBVIOUS
<1>1. ASSUME NEW c \in Conn, Accept(c) PROVE Accounted'
  <2>1. /\ conn' = [conn EXCEPT ![c] = "queued"] /\ jobs' = Append(jobs, c)
        /\ lpc = "accept" /\ lpc' = "notify"
        /\ UNCHANGED <<svrSock, running, shutdown, wpc, serves>>
    BY <1>1 DEF Accept
  <2>2. /\ Len(jobs') = Len(jobs) + 1 /\ Len(jobs) \in Nat
        /\ \A i \in 1 .. Len(jobs) : jobs'[i] = jobs[i]
        /\ jobs'[Len(jobs) + 1] = c
    BY <2>1, AppendProperties, LenProperties DEF Typed
  <2>3. QueuedIsJob'
    BY <2>1, <2>2 DEF Typed, Accounted, QueuedIsJob
  <2>4. OpenIsHeld'
    BY <2>1 DEF Typed, Accounted, OpenIsHeld, Holds
  <2>5. \A w \in Worker : wpc[w] # "ended"
    BY <2>1 DEF Accounted, Ending
  <2>6. Ending'
    BY <2>1, <2>5 DEF Typed, Accounted, Ending
  <2> QED
    BY <2>3, <2>4, <2>6 DEF Accounted
<1>2. ASSUME NEW ws \in SUBSET Waiting, wpc' = Woken(ws),
             UNCHANGED <<svrSock, running, shutdown, jobs, conn, serves>>
      PROVE  /\ QueuedIsJob' /\ OpenIsHeld'
             /\ \A w \in Worker : (wpc[w] = "ended") <=> (wpc'[w] = "ended")
  <2>1. \A w \in Worker : /\ Holds(w) => Holds(w)'
                          /\ (wpc[w] = "ended") <=> (wpc'[w] = "ended")
    BY <1>2 DEF Woken, Waiting, Holds
  <2>2. QueuedIsJob' /\ OpenIsHeld'
    BY <1>2, <2>1 DEF Accounted, QueuedIsJob, OpenIsHeld
  <2> QED
    BY <2>1, <2>2
<1>3. CASE Notify
  <2>1. /\ UNCHANGED <<svrSock, running, shutdown, jobs, conn, serves>>
        /\ lpc = "notify" /\ lpc' = "accept"
        /\ (\E w \in Waiting : wpc' = Woken({w})) \/ wpc' = wpc
    BY <1>3 DEF Notify, connVars
  <2>2. /\ QueuedIsJob' /\ OpenIsHeld'
        /\ \A w \in Worker : (wpc[w] = "ended") <=> (wpc'[w] = "ended")
    <3>1. CASE wpc' = wpc
      BY <2>1, <3>1 DEF Accounted, QueuedIsJob, OpenIsHeld, Holds
    <3>2. ASSUME NEW w \in Waiting, wpc' = Woken({w}) PROVE <2>2
      BY <1>2, <2>1, <3>2
    <3> QED
      BY <2>1, <3>1, <3>2
  <2>3. Ending'
    BY <2>1, <2>2 DEF Accounted, Ending
  <2> QED
    BY <2>2, <2>3 DEF Accounted
<1>4. CASE NotifyAll
  <2>1. /\ UNCHANGED <<svrSock, running, shutdown, jobs, conn, serves>>
        /\ lpc = "notifyAll" /\ lpc' = "join" /\ wpc' = Woken(Waiting)
    BY <1>4 DEF NotifyAll, connVars
  <2>2. /\ QueuedIsJob' /\ OpenIsHeld'
        /\ \A w \in Worker : (wpc[w] = "ended") <=> (wpc'[w] = "ended")
    BY <1>2, <2>1
  <2>3. Ending'
    BY <2>1, <2>2 DEF Accounted, Ending
  <2> QED
    BY <2>2, <2>3 DEF Accounted
<1>5. CASE EndAccept
  BY <1>5 DEF EndAccept, connVars, Accounted, QueuedIsJob, OpenIsHeld, Holds, Ending
<1>6. CASE Join
  BY <1>6 DEF Join, connVars, poolVars, Accounted, QueuedIsJob, OpenIsHeld, Holds, Ending
<1> QED
  BY <1>1, <1>3, <1>4, <1>5, <1>6 DEF Listener

LEMMA WorkAccounted ==
  ASSUME Typed, Accounted, NEW w \in Worker, Work(w)
  PROVE  Accounted'
<1>0. UNCHANGED <<svrSock, running, lpc, shutdown>>
  BY DEF Work, Test, Readable, GiveUp, Handle
<1>1. CASE Test(w)
  <2>1. wpc[w] = "test" /\ ~Holds(w) /\ lpc # "returned"
    BY <1>1 DEF Test, Holds, Accounted, Ending
  <2>2. CASE jobs = <<>>
    <3>1. /\ \/ wpc' = [wpc EXCEPT ![w] = "ended"] /\ Ends
             \/ wpc' = [wpc EXCEPT ![w] = "wait"]
          /\ UNCHANGED <<jobs, serves, conn>>
      BY <1>1, <2>2 DEF Test
    <3>2. QueuedIsJob'
      BY <3>1 DEF Accounted, QueuedIsJob
    <3>3. OpenIsHeld'
      BY <2>1, <3>1 DEF Typed, Accounted, OpenIsHeld, Holds
    <3>4. Ending'
      BY <1>0, <2>1, <2>2, <3>1 DEF Typed, Accounted, Ending, Ends
    <3> QED
      BY <3>2, <3>3, <3>4 DEF Accounted
  <2>3. CASE jobs # <<>>
    <3>1. /\ wpc' = [wpc EXCEPT ![w] = "keep"]
          /\ serves' = [serves EXCEPT ![w] = Head(jobs)] /\ jobs' = Tail(jobs)
          /\ conn' = [conn EXCEPT ![Head(jobs)] = "open"]
      BY <1>1, <2>3 DEF Test, Ends, Rest
    <3>2. /\ Head(jobs) = jobs[1] /\ Head(jobs) \in Conn
          /\ Len(jobs) \in Nat /\ Len(jobs') = Len(jobs) - 1
          /\ \A i \in 1 .. Len(jobs') : jobs'[i] = jobs[i + 1]
      BY <2>3, <3>1, HeadTailProperties, LenProperties DEF Typed
    <3>3. QueuedIsJob'
      <4> SUFFICES ASSUME NEW c \in Conn, conn'[c] = "queued"
                   PROVE  \E i \in 1 .. Len(jobs') : jobs'[i] = c
        BY DEF QueuedIsJob
      <4>1. c # Head(jobs) /\ conn[c] = "queued"
        BY <3>1, <3>2 DEF Typed
      <4>2. PICK i \in 1 .. Len(jobs) : jobs[i] = c
        BY <4>1 DEF Accounted, QueuedIsJob
      <4>3. i - 1 \in 1 .. Len(jobs') /\ jobs'[i - 1] = c
        BY <3>2, <4>1, <4>2
      <4> QED
        BY <4>3
    <3>4. OpenIsHeld'
      <4> SUFFICES ASSUME NEW c \in Conn, conn'[c] = "open"
                   PROVE  \E v \in Worker : Holds(v)' /\ serves'[v] = c
        BY DEF OpenIsHeld
      <4>1. CASE c = Head(jobs)
        BY <3>1, <4>1 DEF Typed, Holds
      <4>2. CASE c # Head(jobs)
        <5>1. PICK v \in Worker : Holds(v) /\ serves[v] = c
          BY <3>1, <4>2 DEF Typed, Accounted, OpenIsHeld
        <5>2. v # w
          BY <2>1, <5>1
        <5> QED
          BY <3>1, <5>1, <5>2 DEF Typed, Holds
      <4> QED
        BY <4>1, <4>2
    <3>5. Ending'
      BY <1>0, <2>1, <2>3, <3>1 DEF Typed, Accounted, Ending
    <3> QED
      BY <3>3, <3>4, <3>5 DEF Accounted
  <2> QED
    BY <2>2, <2>3
<1>2. ASSUME Holds(w), NEW p \in {"keep", "handle"}, wpc' = [wpc EXCEPT ![w] = p],
             UNCHANGED <<jobs, serves, conn>>
      PROVE  Accounted'
  <2>1. \A v \in Worker : /\ Holds(v) <=> Holds(v)'
                          /\ (wpc[v] = "ended") <=> (wpc'[v] = "ended")
    BY <1>2 DEF Typed, Holds
  <2>2. QueuedIsJob' /\ OpenIsHeld'
    BY <1>2, <2>1 DEF Accounted, QueuedIsJob, OpenIsHeld
  <2>3. Ending'
    BY <1>0, <1>2, <2>1 DEF Accounted, Ending
  <2> QED
    BY <2>2, <2>3 DEF Accounted
<1>3. ASSUME Holds(w), Closes(w), UNCHANGED <<jobs, serves>> PROVE Accounted'
  <2>1. /\ wpc' = [wpc EXCEPT ![w] = "test"]
        /\ conn' = [conn EXCEPT ![serves[w]] = "closed"]
    BY <1>3 DEF Closes
  <2>2. \A v \in Worker : /\ v # w => (Holds(v) <=> Holds(v)')
                          /\ (wpc[v] = "ended") <=> (wpc'[v] = "ended")
    BY <1>3, <2>1 DEF Typed, Holds
  <2>3. QueuedIsJob' /\ OpenIsHeld'
    BY <1>3, <2>1, <2>2 DEF Typed, Accounted, QueuedIsJob, OpenIsHeld
  <2>4. Ending'
    BY <1>0, <1>3, <2>1, <2>2 DEF Typed, Accounted, Ending
  <2> QED
    BY <2>3, <2>4 DEF Accounted
<1>4. CASE Readable(w)
  BY <1>2, <1>4 DEF Readable, Holds, connVars
<1>5. CASE GiveUp(w)
  BY <1>3, <1>5 DEF GiveUp, Holds
<1>6. CASE Handle(w)
  BY <1>2, <1>3, <1>6 DEF Handle, Holds
<1> QED
  BY <1>1, <1>4, <1>5, <1>6 DEF Work

LEMMA StepAccounted == Typed /\ Accounted /\ [Next]_vars => Accounted'
<1> SUFFICES ASSUME Typed, Accounted, [Next]_vars PROVE Accounted'
  OBVIOUS
<1>1. ASSUME NEW c \in Conn, Connect(c) PROVE Accounted'
  <2>1. /\ svrSock /\ conn[c] = "none" /\ conn' = [conn EXCEPT ![c] = "backlog"]
        /\ UNCHANGED <<svrSock, running, lpc, shutdown, jobs, wpc, serves>>
    BY <1>1 DEF Connect, poolVars
  <2>2. QueuedIsJob' /\ OpenIsHeld'
    BY <2>1 DEF Typed, Accounted, QueuedIsJob, OpenIsHeld, Holds
  <2>3. Ending'
    BY <2>1 DEF Accounted, Ending
  <2> QED
    BY <2>2, <2>3 DEF Accounted
<1>2. ASSUME NEW c \in Conn, Send(c) PROVE Accounted'
  BY <1>2 DEF Send, poolVars, Accounted, QueuedIsJob, OpenIsHeld, Holds, Ending
<1>3. CASE Stop
  <2>1. UNCHANGED <<running, lpc, shutdown, jobs, wpc, serves>>
    BY <1>3 DEF Stop, poolVars
  <2>2. conn' = [c \in Conn |-> IF running /\ conn[c] = "backlog" THEN "closed" ELSE conn[c]]
    BY <1>3 DEF Stop
  <2>3. QueuedIsJob' /\ OpenIsHeld'
    BY <2>1, <2>2 DEF Accounted, QueuedIsJob, OpenIsHeld, Holds
  <2>4. svrSock' = IF running THEN FALSE ELSE svrSock
    BY <1>3 DEF Stop
  <2>5. ~svrSock' => \A c \in Conn : conn'[c] # "backlog"
    BY <2>2, <2>4 DEF Accounted, Ending
  <2>6. Ending'
    BY <2>1, <2>4, <2>5 DEF Accounted, Ending
  <2> QED
    BY <2>3, <2>6 DEF Accounted
<1>4. CASE Listener
  BY <1>4, ListenerAccounted
<1>5. ASSUME NEW w \in Worker, Work(w) PROVE Accounted'
  BY <1>5, WorkAccounted
<1>6. CASE UNCHANGED vars
  BY <1>6 DEF vars, Accounted, QueuedIsJob, OpenIsHeld, Holds, Ending
<1> QED
  BY <1>1, <1>2, <1>3, <1>4, <1>5, <1>6 DEF Next

\* listen() returns only when every connection it accepted is closed
\* (httplib.h:899-912, 924-931).
THEOREM NoneLeftBehind == Spec => []AcceptedIsServed
<1>1. Typed /\ Accounted => AcceptedIsServed
  <2> SUFFICES ASSUME Typed, Accounted, lpc = "returned", NEW c \in Conn
               PROVE  conn[c] \in {"none", "closed"}
    BY DEF AcceptedIsServed
  <2>1. ~svrSock /\ jobs = <<>> /\ \A w \in Worker : wpc[w] = "ended"
    BY HttpAssumption DEF Accounted, Ending
  <2>2. conn[c] # "backlog" /\ conn[c] # "queued" /\ conn[c] # "open"
    BY <2>1 DEF Accounted, Ending, QueuedIsJob, OpenIsHeld, Holds
  <2> QED
    BY <2>2 DEF Typed, ConnState
<1> QED
  BY <1>1, InitTyped, StepTyped, InitAccounted, StepAccounted, PTL DEF Spec

===============================================================================
