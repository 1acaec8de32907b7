---------------------------- MODULE Network_proofs -----------------------------
(***************************************************************************)
(* The network side apart from the web server and the connection itself:    *)
(* the page in the browser, the captive DNS server and the mock server's    *)
(* files.                                                                   *)
(***************************************************************************)
EXTENDS WebClient, Parts, FiniteSetTheorems, SequenceTheorems, TLAPS

-------------------------------------------------------------------------------
(* WebClient: the form and the device. *)

\* What is written in place is never what Cancel shows: currentConfig and originalConfig
\* refer to bands of their own.
BandInv ==
  /\ band = [o \in Object |-> band[o]] /\ current \in Object /\ original.bands \in Object
  /\ current # original.bands
  /\ loaded => Original = kept

LEMMA CopyIsOther == \A o \in Object : Copy(o) \in Object /\ Copy(o) # o
BY DEF Object, Copy

LEMMA TakenUp ==
  ASSUME NEW v, TakeUp(Shown(v))
  PROVE  /\ Original' = Shown(v) /\ band' = [o \in Object |-> band'[o]]
         /\ current' \in Object /\ original'.bands \in Object /\ current' # original'.bands
<1>1. /\ band' = [o \in Object |-> BandsOf(Shown(v))]
      /\ current' = 1 /\ original' = [station |-> Shown(v).station, bands |-> Copy(1)]
  BY DEF TakeUp
<1>2. 1 \in Object /\ Copy(1) \in Object /\ Copy(1) # 1
  BY CopyIsOther DEF Object
<1>3. original'.bands = Copy(1) /\ original'.station = Shown(v).station
  BY <1>1
<1>4. band'[original'.bands] = BandsOf(Shown(v))
  BY <1>1, <1>2, <1>3
<1>5. Original' = [station |-> v.station, bands |-> v.bands, window |-> NoWindow]
  BY <1>3, <1>4 DEF Original, BandsOf, Shown
<1> QED
  BY <1>1, <1>2, <1>3, <1>5 DEF Shown

LEMMA StartedOver ==
  ASSUME Init
  PROVE  BandInv /\ Original = Blank /\ ~loaded
<1>1. /\ ~loaded /\ band = [o \in Object |-> BandsOf(Blank)]
      /\ current = 1 /\ original = [station |-> 0, bands |-> 2]
  BY DEF Init
<1>2. 1 \in Object /\ 2 \in Object
  BY DEF Object
<1>3. band[original.bands] = BandsOf(Blank)
  BY <1>1, <1>2
<1> QED
  BY <1>1, <1>2, <1>3 DEF BandInv, Original, BandsOf, Blank, Shown, Default

LEMMA ReloadedBands ==
  ASSUME Reload
  PROVE  BandInv' /\ Original' = Blank
<1>1. /\ ~loaded' /\ band' = [o \in Object |-> BandsOf(Blank)]
      /\ current' = 1 /\ original' = [station |-> 0, bands |-> 2]
  BY DEF Reload
<1>2. 1 \in Object /\ 2 \in Object
  BY DEF Object
<1>3. band'[original'.bands] = BandsOf(Blank)
  BY <1>1, <1>2
<1> QED
  BY <1>1, <1>2, <1>3 DEF BandInv, Original, BandsOf, Blank, Shown, Default

\* No step but those two and a load changes what Cancel would show.
LEMMA OriginalStays ==
  ASSUME BandInv,
         \/ Edit \/ Save \/ Cancel \/ UNCHANGED vars
         \/ \E i \in Call : Perform(i) \/ Saved(i) \/ Forget(i) \/ Fail(i)
  PROVE  Original' = Original /\ BandInv'
<1>1. CASE Save
  <2>1. /\ band' = [band EXCEPT ![current] = BandsOf(form)]
        /\ UNCHANGED <<loaded, current, original, kept>>
    BY <1>1 DEF Save, Gathered
  <2>2. band'[original.bands] = band[original.bands] /\ band' = [o \in Object |-> band'[o]]
    BY <2>1 DEF BandInv
  <2> QED
    BY <2>1, <2>2 DEF BandInv, Original
<1>2. CASE Cancel
  <2>1. /\ current' = Copy(original.bands) /\ band' = [band EXCEPT ![current'] = band[original.bands]]
        /\ UNCHANGED <<loaded, original, kept>>
    BY <1>2 DEF Cancel
  <2>2. current' \in Object /\ current' # original.bands
    BY <2>1, CopyIsOther DEF BandInv
  <2>3. band'[original.bands] = band[original.bands] /\ band' = [o \in Object |-> band'[o]]
    BY <2>1, <2>2 DEF BandInv
  <2> QED
    BY <2>1, <2>2, <2>3 DEF BandInv, Original
<1>3. CASE UNCHANGED <<loaded, band, current, original, kept>>
  BY <1>3 DEF BandInv, Original
<1>4. CASE Edit \/ UNCHANGED vars
  BY <1>3, <1>4 DEF Edit, vars
<1>5. ASSUME NEW i \in Call, Perform(i) \/ Saved(i) \/ Forget(i) \/ Fail(i)
      PROVE  Original' = Original /\ BandInv'
  BY <1>3, <1>5 DEF Perform, Saved, Forget, Fail, pageVars
<1> QED
  BY <1>1, <1>2, <1>4, <1>5

LEMMA LoadedBands == ASSUME NEW i \in Call, Load(i) PROVE BandInv'
<1>1. PICK v : v = call[i].answer.v
  OBVIOUS
<1>2. TakeUp(Shown(v)) /\ kept' = Shown(v)
  BY <1>1 DEF Load
<1> QED
  BY <1>2, TakenUp DEF BandInv

LEMMA StepBandInv == BandInv /\ [Next]_vars => BandInv'
BY OriginalStays, LoadedBands, ReloadedBands DEF Next, Net

\* After Cancel the form shows what the last load brought, whatever was typed, sent and
\* cancelled since, and in whatever order the calls are performed and answered
\* (app.js:73, 197-225, 249-255): nothing that is written in place can be reached from
\* originalConfig.
THEOREM CancelBringsBack == Spec => CancelRestores
<1>1. Init => BandInv
  BY StartedOver
<1>2. BandInv /\ [Next]_vars => [Cancel => form' = kept]_vars
  BY DEF BandInv, Cancel
<1> QED
  BY <1>1, <1>2, StepBandInv, PTL DEF Spec, CancelRestores

Forms == [station : Setting \union {0, Invalid}, bands : Setting \union {0},
          window : Setting \union {NoWindow}]
Calls == [st : {"idle", "sent", "done"}, op : Server!Op,
          answer : [s : {"none", "ok", "config", "other"}, v : Config]]

ClientTypes ==
  /\ stored \in Config /\ form \in Forms /\ Original \in Forms
  /\ loaded \in BOOLEAN /\ dirty \in BOOLEAN /\ alerted \in BOOLEAN
  /\ call \in [Call -> Calls] /\ task \in [Call -> {"load", "save", "none"}]
  /\ queue \in Seq(Call)

\* Each call under way is in the queue once, and the calls performed are ahead of the others.
QueueInv ==
  /\ \A m, n \in 1 .. Len(queue) : queue[m] = queue[n] => m = n
  /\ \A m \in 1 .. Len(queue) : call[queue[m]].st # "idle"
  /\ \A m, n \in 1 .. Len(queue) :
       m < n /\ call[queue[n]].st = "done" => call[queue[m]].st = "done"

\* Once loaded the page waits for all its calls; before, for the last one alone, a load.
TaskInv ==
  /\ \A m \in 1 .. Len(queue) : task[queue[m]] = "load" => call[queue[m]].op.kind = "get"
  /\ loaded => \A m \in 1 .. Len(queue) : task[queue[m]] # "none"
  /\ ~loaded => \A m \in 1 .. Len(queue) :
       task[queue[m]] # "save" /\ (m < Len(queue) => task[queue[m]] = "none")

\* An answer to a load is what the device holds unless a save behind it has been performed;
\* with nothing under way, what was loaded last is.
TruthInv ==
  /\ \A m \in 1 .. Len(queue) :
       /\ call[queue[m]].st = "done" /\ call[queue[m]].op.kind = "get"
       /\ \A n \in m + 1 .. Len(queue) :
            call[queue[n]].op.kind = "put" => call[queue[n]].st = "sent"
       => call[queue[m]].answer.v = stored
  /\ loaded /\ ~alerted /\ queue = <<>> => Original = Shown(stored)
  /\ loaded /\ ~dirty => form = Original

ClientInv == ClientTypes /\ QueueInv /\ TaskInv /\ TruthInv

LEMMA HeadLeaves ==
  ASSUME InOrder, ClientTypes, QueueInv, NEW i \in Call, i \in ToSet(queue), Turn(i)
  PROVE  /\ Len(queue) \in Nat /\ Len(queue) >= 1 /\ queue[1] = i
         /\ Without(i) \in Seq(Call) /\ Len(Without(i)) = Len(queue) - 1
         /\ \A m \in 1 .. Len(queue) - 1 : Without(i)[m] = queue[m + 1]
<1>1. queue \in Seq(Call) /\ Len(queue) \in Nat /\ DOMAIN queue = 1 .. Len(queue)
  BY LenProperties DEF ClientTypes
<1>2. queue # <<>> /\ Len(queue) >= 1
  BY <1>1 DEF ToSet
<1>3. queue[1] = i
  BY <1>1, <1>2 DEF Turn
<1>4. (CHOOSE k \in DOMAIN queue : queue[k] = i) = 1
  <2>1. \A k \in DOMAIN queue : queue[k] = i => k = 1
    BY <1>1, <1>2, <1>3 DEF QueueInv
  <2>2. 1 \in DOMAIN queue
    BY <1>1, <1>2
  <2> QED
    BY <1>3, <2>1, <2>2
<1>5. SubSeq(queue, 1, 1 - 1) = <<>>
  BY SubSeqEmpty
<1>6. SubSeq(queue, 1 + 1, Len(queue)) = Tail(queue)
  BY <1>1, <1>2, TailIsSubSeq
<1>7. Tail(queue) \in Seq(Call)
  BY <1>1, <1>2, HeadTailProperties
<1>8. Without(i) = Tail(queue)
  BY <1>4, <1>5, <1>6, <1>7, ConcatEmptySeq DEF Without, RemoveAt
<1> QED
  BY <1>1, <1>2, <1>3, <1>8, HeadTailProperties

LEMMA Appended ==
  ASSUME NEW q \in Seq(Call), NEW i \in Call
  PROVE  /\ Len(q) \in Nat /\ Append(q, i) \in Seq(Call) /\ Len(Append(q, i)) = Len(q) + 1
         /\ \A m \in 1 .. Len(q) + 1 : Append(q, i)[m] = IF m = Len(q) + 1 THEN i ELSE q[m]
BY AppendProperties, LenProperties

LEMMA SentIsCall ==
  ASSUME NEW op \in Server!Op
  PROVE  /\ Sent(op) \in Calls
         /\ Sent(op).st = "sent" /\ Sent(op).op = op
BY DEF Sent, Calls, Server!NoAnswer, Default, Config

LEMMA GetAndPut ==
  /\ Get \in Server!Op /\ Get.kind = "get"
  /\ \A f \in Forms : ~Refused(f) => Put(f) \in Server!Op /\ Put(f).kind = "put"
BY DEF Get, Put, Forms, Refused, Server!Op, Config, Default

LEMMA FormsAreTyped ==
  /\ \A c \in Config : Shown(c) \in Forms
  /\ Blank \in Forms
BY DEF Shown, Blank, Forms, Config, Default, NoWindow

LEMMA StepUser ==
  ASSUME BandInv, ClientInv, Edit \/ Cancel
  PROVE  ClientInv'
<1>1. /\ stored' = stored /\ call' = call /\ task' = task /\ queue' = queue
      /\ loaded' = loaded /\ alerted' = alerted /\ Original' = Original
  BY OriginalStays DEF Edit, Cancel, serverVars
<1>2. form' \in Forms /\ dirty' \in BOOLEAN /\ (loaded /\ ~dirty' => form' = Original)
  <2>1. CASE Edit
    BY <2>1 DEF Edit, ClientInv, ClientTypes, Forms, NoWindow
  <2>2. CASE Cancel
    BY <2>2 DEF Cancel, ClientInv, ClientTypes
  <2> QED
    BY <2>1, <2>2
<1>3. ClientTypes'
  BY <1>1, <1>2 DEF ClientInv, ClientTypes
<1>4. QueueInv' /\ TaskInv'
  BY <1>1 DEF ClientInv, QueueInv, TaskInv
<1>5. TruthInv'
  BY <1>1, <1>2 DEF ClientInv, TruthInv, Shown
<1> QED
  BY <1>3, <1>4, <1>5 DEF ClientInv

LEMMA StepSave ==
  ASSUME BandInv, ClientInv, Save
  PROVE  ClientInv'
<1>1. PICK i \in Call : Idle(i) /\ Fetch(i, Put(form), "save", queue)
  BY DEF Save
<1>2. /\ stored' = stored /\ loaded /\ loaded' = loaded /\ alerted' = alerted
      /\ Original' = Original /\ form' = form /\ dirty /\ dirty' = dirty /\ ~Refused(form)
  BY OriginalStays DEF Save
<1>3. /\ call' = [call EXCEPT ![i] = Sent(Put(form))] /\ task' = [task EXCEPT ![i] = "save"]
      /\ queue' = Append(queue, i) /\ call[i].st = "idle"
  BY <1>1 DEF Fetch, Idle
<1>4. Sent(Put(form)) \in Calls /\ Sent(Put(form)).st = "sent" /\ Sent(Put(form)).op.kind = "put"
  BY <1>2, GetAndPut, SentIsCall DEF ClientInv, ClientTypes
<1>5. ClientTypes'
  BY <1>2, <1>3, <1>4, Appended DEF ClientInv, ClientTypes
<1>6. /\ Len(queue) \in Nat /\ Len(queue') = Len(queue) + 1
      /\ \A m \in 1 .. Len(queue) + 1 : queue'[m] = IF m = Len(queue) + 1 THEN i ELSE queue[m]
  BY <1>3, Appended DEF ClientInv, ClientTypes
<1>7. \A m \in 1 .. Len(queue) : queue[m] \in Call /\ queue[m] # i
  BY <1>3, ElementOfSeq DEF ClientInv, ClientTypes, QueueInv
<1>8. /\ \A m \in 1 .. Len(queue) : call'[queue'[m]] = call[queue[m]] /\ task'[queue'[m]] = task[queue[m]]
      /\ call'[i].st = "sent" /\ call'[i].op.kind = "put" /\ task'[i] = "save"
  BY <1>3, <1>4, <1>6, <1>7 DEF ClientInv, ClientTypes
<1>9. QueueInv'
  BY <1>6, <1>7, <1>8 DEF ClientInv, QueueInv
<1>10. TaskInv'
  BY <1>2, <1>6, <1>7, <1>8 DEF ClientInv, TaskInv
<1>11. TruthInv'
  <2>1. queue' # <<>>
    BY <1>6
  <2>2. ASSUME NEW m \in 1 .. Len(queue'),
               call'[queue'[m]].st = "done", call'[queue'[m]].op.kind = "get",
               \A n \in m + 1 .. Len(queue') :
                 call'[queue'[n]].op.kind = "put" => call'[queue'[n]].st = "sent"
        PROVE  call'[queue'[m]].answer.v = stored'
    <3>1. m \in 1 .. Len(queue)
      BY <1>6, <1>8, <2>2
    <3>2. \A n \in m + 1 .. Len(queue) :
             call[queue[n]].op.kind = "put" => call[queue[n]].st = "sent"
      BY <1>6, <1>8, <2>2
    <3> QED
      BY <1>2, <1>8, <2>2, <3>1, <3>2 DEF ClientInv, TruthInv
  <2> QED
    BY <1>2, <2>1, <2>2 DEF TruthInv
<1> QED
  BY <1>5, <1>9, <1>10, <1>11 DEF ClientInv

LEMMA StepReload ==
  ASSUME BandInv, ClientInv, Reload
  PROVE  ClientInv'
<1>1. PICK i \in Call : /\ Idle(i) /\ call' = [call EXCEPT ![i] = Sent(Get)]
                        /\ task' = [j \in Call |-> IF j = i THEN "load" ELSE "none"]
                        /\ queue' = Append(queue, i)
  BY DEF Reload
<1>2. stored' = stored /\ ~loaded' /\ loaded' \in BOOLEAN /\ alerted' \in BOOLEAN /\ dirty' \in BOOLEAN
      /\ form' = Blank /\ Original' = Blank
  BY ReloadedBands DEF Reload
<1>3. Sent(Get) \in Calls /\ Sent(Get).st = "sent" /\ Sent(Get).op.kind = "get"
  BY GetAndPut, SentIsCall
<1>4. ClientTypes'
  BY <1>1, <1>2, <1>3, Appended, FormsAreTyped DEF ClientInv, ClientTypes
<1>5. /\ Len(queue) \in Nat /\ Len(queue') = Len(queue) + 1
      /\ \A m \in 1 .. Len(queue) + 1 : queue'[m] = IF m = Len(queue) + 1 THEN i ELSE queue[m]
  BY <1>1, Appended DEF ClientInv, ClientTypes
<1>6. \A m \in 1 .. Len(queue) : queue[m] \in Call /\ queue[m] # i
  BY <1>1, ElementOfSeq DEF ClientInv, ClientTypes, QueueInv, Idle
<1>7. /\ \A m \in 1 .. Len(queue) : call'[queue'[m]] = call[queue[m]] /\ task'[queue'[m]] = "none"
      /\ call'[i].st = "sent" /\ call'[i].op.kind = "get" /\ task'[i] = "load"
  BY <1>1, <1>3, <1>5, <1>6 DEF ClientInv, ClientTypes
<1>8. QueueInv'
  BY <1>5, <1>6, <1>7 DEF ClientInv, QueueInv
<1>9. TaskInv'
  BY <1>2, <1>5, <1>6, <1>7 DEF ClientInv, TaskInv
<1>10. TruthInv'
  <2>1. ASSUME NEW m \in 1 .. Len(queue'),
               call'[queue'[m]].st = "done", call'[queue'[m]].op.kind = "get",
               \A n \in m + 1 .. Len(queue') :
                 call'[queue'[n]].op.kind = "put" => call'[queue'[n]].st = "sent"
        PROVE  call'[queue'[m]].answer.v = stored'
    <3>1. m \in 1 .. Len(queue)
      BY <1>5, <1>7, <2>1
    <3>2. \A n \in m + 1 .. Len(queue) :
             call[queue[n]].op.kind = "put" => call[queue[n]].st = "sent"
      BY <1>5, <1>7, <2>1
    <3> QED
      BY <1>2, <1>7, <2>1, <3>1, <3>2 DEF ClientInv, TruthInv
  <2> QED
    BY <1>2, <2>1 DEF TruthInv
<1> QED
  BY <1>4, <1>8, <1>9, <1>10 DEF ClientInv

LEMMA StepClientPerform ==
  ASSUME ClientAssumption, InOrder, BandInv, ClientInv, NEW i \in Call, Perform(i)
  PROVE  ClientInv'
<1>1. /\ task' = task /\ queue' = queue /\ loaded' = loaded /\ Original' = Original
      /\ form' = form /\ dirty' = dirty /\ alerted' = alerted
  BY OriginalStays DEF Perform, pageVars
<1>2. /\ call[i].st = "sent"
      /\ stored' = IF call[i].op.kind = "put" THEN call[i].op.cfg ELSE stored
      /\ call' = [call EXCEPT ![i].st = "done", ![i].answer = Server!Answer(call[i].op)]
  BY DEF Perform, Server!Perform
<1>3. /\ queue \in Seq(Call) /\ Len(queue) \in Nat /\ DOMAIN queue = 1 .. Len(queue)
      /\ \A m \in 1 .. Len(queue) : queue[m] \in Call
  BY LenProperties, ElementOfSeq DEF ClientInv, ClientTypes
<1>4. PICK k \in 1 .. Len(queue) : queue[k] = i
  BY <1>3 DEF Perform, ToSet
<1>5. \A m \in 1 .. Len(queue) : call[queue[m]].st = "sent" => k <= m
  <2> SUFFICES ASSUME NEW m \in 1 .. Len(queue), call[queue[m]].st = "sent" PROVE k <= m
    OBVIOUS
  <2>1. queue[m] \in ToSet(queue)
    BY <1>3 DEF ToSet
  <2>2. PICK a, b \in 1 .. Len(queue) : a <= b /\ queue[a] = i /\ queue[b] = queue[m]
    BY <1>3, <2>1 DEF Perform
  <2> QED
    BY <1>4, <2>2 DEF ClientInv, QueueInv
<1>6. call[i] \in Calls /\ call[i].op \in Server!Op /\ call[i].op.cfg \in Config
  BY DEF ClientInv, ClientTypes, Calls, Server!Op, Default, Config
<1>7. /\ Server!Answer(call[i].op) \in [s : {"none", "ok", "config", "other"}, v : Config]
      /\ call[i].op.kind = "get" => Server!Answer(call[i].op).v = stored
  <2>1. stored \in Config /\ Default \in Config
    BY DEF ClientInv, ClientTypes, Default, Config
  <2>2. call[i].op.kind \in {"put", "get", "other"}
    BY <1>6 DEF Server!Op
  <2> QED
    BY <2>1, <2>2 DEF Server!Answer
<1>8. /\ call' \in [Call -> Calls]
      /\ call'[i].st = "done" /\ call'[i].op = call[i].op
      /\ call'[i].answer = Server!Answer(call[i].op)
      /\ \A j \in Call : j # i => call'[j] = call[j]
  BY <1>2, <1>6, <1>7 DEF ClientInv, ClientTypes, Calls
<1>9. ClientTypes'
  BY <1>1, <1>2, <1>6, <1>8 DEF ClientInv, ClientTypes
<1>10. \A m \in 1 .. Len(queue) : m # k => call'[queue[m]] = call[queue[m]]
  BY <1>3, <1>4, <1>8 DEF ClientInv, QueueInv
<1>11. \A m \in 1 .. Len(queue) : call[queue[m]].st \in {"sent", "done"}
  BY <1>3 DEF ClientInv, ClientTypes, QueueInv, Calls
<1>12. QueueInv'
  BY <1>1, <1>3, <1>4, <1>5, <1>8, <1>10, <1>11 DEF ClientInv, QueueInv
<1>13. TaskInv'
  BY <1>1, <1>4, <1>8, <1>10 DEF ClientInv, TaskInv
<1>14. ASSUME NEW m \in 1 .. Len(queue),
              call'[queue[m]].st = "done", call'[queue[m]].op.kind = "get",
              \A n \in m + 1 .. Len(queue) :
                call'[queue[n]].op.kind = "put" => call'[queue[n]].st = "sent"
       PROVE  call'[queue[m]].answer.v = stored'
  <2>1. CASE m = k
    BY <1>2, <1>4, <1>7, <1>8, <1>14, <2>1
  <2>2. CASE m # k
    <3>1. call[queue[m]].st = "done" /\ call[queue[m]].op.kind = "get"
      BY <1>10, <1>14, <2>2
    <3>2. m < k
      BY <1>2, <1>3, <1>4, <2>2, <3>1 DEF ClientInv, QueueInv
    <3>3. call[i].op.kind # "put"
      BY <1>3, <1>4, <1>8, <1>14, <3>2
    <3>4. \A n \in m + 1 .. Len(queue) :
             call[queue[n]].op.kind = "put" => call[queue[n]].st = "sent"
      BY <1>4, <1>10, <1>14, <3>3
    <3> QED
      BY <1>2, <1>10, <2>2, <3>1, <3>3, <3>4 DEF ClientInv, TruthInv
  <2> QED
    BY <2>1, <2>2
<1>15. queue # <<>>
  BY <1>3, <1>4
<1>16. TruthInv'
  BY <1>1, <1>14, <1>15 DEF ClientInv, TruthInv
<1> QED
  BY <1>9, <1>12, <1>13, <1>16 DEF ClientInv

\* The head leaves the queue: what the others know of each other stays true.
LEMMA LeaveQueue ==
  ASSUME InOrder, ClientInv, NEW i \in Call, i \in ToSet(queue), Turn(i),
         queue' = Without(i),
         \A j \in Call : j # i => call'[j] = call[j] /\ task'[j] = task[j],
         stored' = stored
  PROVE  /\ QueueInv'
         /\ Len(queue) \in Nat /\ Len(queue') = Len(queue) - 1
         /\ \A m \in 1 .. Len(queue') :
              /\ m + 1 \in 1 .. Len(queue) /\ queue'[m] \in Call /\ queue'[m] = queue[m + 1]
              /\ call'[queue'[m]] = call[queue[m + 1]] /\ task'[queue'[m]] = task[queue[m + 1]]
         /\ \A m \in 1 .. Len(queue') :
              /\ call'[queue'[m]].st = "done" /\ call'[queue'[m]].op.kind = "get"
              /\ \A n \in m + 1 .. Len(queue') :
                   call'[queue'[n]].op.kind = "put" => call'[queue'[n]].st = "sent"
              => call'[queue'[m]].answer.v = stored'
<1>1. /\ Len(queue) \in Nat /\ Len(queue) >= 1 /\ queue[1] = i
      /\ Len(queue') = Len(queue) - 1
      /\ \A m \in 1 .. Len(queue) - 1 : queue'[m] = queue[m + 1]
  BY HeadLeaves DEF ClientInv
<1>2. \A m \in 1 .. Len(queue) : queue[m] \in Call /\ (m # 1 => queue[m] # i)
  BY <1>1, ElementOfSeq DEF ClientInv, ClientTypes, QueueInv
<1>3. \A m \in 1 .. Len(queue') :
        /\ m + 1 \in 1 .. Len(queue) /\ queue'[m] \in Call /\ queue'[m] = queue[m + 1]
        /\ call'[queue'[m]] = call[queue[m + 1]] /\ task'[queue'[m]] = task[queue[m + 1]]
  BY <1>1, <1>2
<1>4. QueueInv'
  BY <1>1, <1>3 DEF ClientInv, QueueInv
<1>5. ASSUME NEW m \in 1 .. Len(queue'),
             call'[queue'[m]].st = "done", call'[queue'[m]].op.kind = "get",
             \A n \in m + 1 .. Len(queue') :
               call'[queue'[n]].op.kind = "put" => call'[queue'[n]].st = "sent"
      PROVE  call'[queue'[m]].answer.v = stored'
  <2>1. \A n \in (m + 1) + 1 .. Len(queue) :
          call[queue[n]].op.kind = "put" => call[queue[n]].st = "sent"
    <3> SUFFICES ASSUME NEW n \in (m + 1) + 1 .. Len(queue), call[queue[n]].op.kind = "put"
                 PROVE  call[queue[n]].st = "sent"
      OBVIOUS
    <3>1. n - 1 \in m + 1 .. Len(queue') /\ (n - 1) + 1 = n
      BY <1>1
    <3>2. n - 1 \in 1 .. Len(queue')
      BY <3>1
    <3>3. call'[queue'[n - 1]] = call[queue[n]]
      BY <1>3, <3>1, <3>2
    <3> QED
      BY <1>5, <3>1, <3>3
  <2> QED
    BY <1>3, <1>5, <2>1 DEF ClientInv, TruthInv
<1> QED
  BY <1>1, <1>3, <1>4, <1>5

\* A call ends: its request is over, and nothing waits for it any more.
LEMMA EndedCall ==
  ASSUME ClientInv, NEW i \in Call, NEW c \in Calls, NEW t \in {"load", "save", "none"},
         call' = [call EXCEPT ![i] = c], task' = [task EXCEPT ![i] = t]
  PROVE  /\ call' \in [Call -> Calls] /\ task' \in [Call -> {"load", "save", "none"}]
         /\ call'[i] = c /\ task'[i] = t
         /\ \A j \in Call : j # i => call'[j] = call[j] /\ task'[j] = task[j]
BY DEF ClientInv, ClientTypes

LEMMA StepFail ==
  ASSUME InOrder, BandInv, ClientInv, NEW i \in Call, Fail(i)
  PROVE  ClientInv'
<1> DEFINE c == [[call[i] EXCEPT !.st = "idle"] EXCEPT !.answer = Server!NoAnswer]
<1>1. call[i] \in Calls
  BY DEF ClientInv, ClientTypes
<1>2. c \in Calls
  BY <1>1 DEF Calls, Server!NoAnswer, Default, Config
<1>3. call' = [call EXCEPT ![i] = c] /\ task' = [task EXCEPT ![i] = "none"]
  BY DEF Fail, ClientInv, ClientTypes
<1>4. /\ i \in ToSet(queue) /\ Turn(i) /\ queue' = Without(i) /\ stored' = stored
      /\ loaded' = loaded /\ dirty' = dirty /\ form' = form /\ Original' = Original
      /\ alerted' = (alerted \/ task[i] # "none")
  BY OriginalStays DEF Fail
<1>5. /\ call' \in [Call -> Calls] /\ task' \in [Call -> {"load", "save", "none"}]
      /\ \A j \in Call : j # i => call'[j] = call[j] /\ task'[j] = task[j]
  BY <1>2, <1>3, EndedCall
<1>6. ClientTypes'
  BY <1>4, <1>5, HeadLeaves DEF ClientInv, ClientTypes
<1>7. TaskInv'
  <2>1. \A m \in 1 .. Len(queue') :
          /\ m + 1 \in 1 .. Len(queue) /\ (m < Len(queue') => m + 1 < Len(queue))
          /\ call'[queue'[m]] = call[queue[m + 1]] /\ task'[queue'[m]] = task[queue[m + 1]]
    BY <1>4, <1>5, LeaveQueue
  <2> QED
    BY <1>4, <2>1 DEF ClientInv, TaskInv
<1>8. loaded => task[i] # "none"
  BY <1>4, HeadLeaves DEF ClientInv, TaskInv
<1>9. loaded => alerted'
  BY <1>4, <1>8
<1>10. TruthInv'
  BY <1>4, <1>5, <1>9, LeaveQueue DEF ClientInv, TruthInv
<1> QED
  BY <1>4, <1>5, <1>6, <1>7, <1>10, LeaveQueue DEF ClientInv

LEMMA LeaveIs ==
  ASSUME ClientInv, NEW i \in Call, Leave(i)
  PROVE  /\ call' \in [Call -> Calls] /\ task' \in [Call -> {"load", "save", "none"}]
         /\ \A j \in Call : j # i => call'[j] = call[j] /\ task'[j] = task[j]
         /\ queue' = Without(i) /\ stored' = stored
<1> DEFINE c == [call[i] EXCEPT !.st = "idle"]
<1>1. c \in Calls
  BY DEF ClientInv, ClientTypes, Calls
<1>2. /\ call' = [call EXCEPT ![i] = c] /\ task' = [task EXCEPT ![i] = "none"]
      /\ queue' = Without(i) /\ stored' = stored
  BY DEF Leave, Server!Return, ClientInv, ClientTypes
<1> QED
  BY <1>1, <1>2, EndedCall

LEMMA StepLoad ==
  ASSUME InOrder, BandInv, ClientInv, NEW i \in Call, Load(i)
  PROVE  ClientInv'
<1>1. /\ i \in ToSet(queue) /\ Turn(i) /\ call[i].st = "done" /\ task[i] = "load" /\ Leave(i)
      /\ Original' = Shown(call[i].answer.v) /\ form' = Shown(call[i].answer.v)
      /\ loaded' = TRUE /\ dirty' = FALSE /\ alerted' = FALSE
  BY TakenUp DEF Load, Answered
<1>2. /\ call' \in [Call -> Calls] /\ task' \in [Call -> {"load", "save", "none"}]
      /\ \A j \in Call : j # i => call'[j] = call[j] /\ task'[j] = task[j]
      /\ queue' = Without(i) /\ stored' = stored
  BY <1>1, LeaveIs
<1>3. call[i].answer.v \in Config
  BY DEF ClientInv, ClientTypes, Calls
<1>4. /\ Len(queue) \in Nat /\ Len(queue) >= 1 /\ queue[1] = i /\ queue' \in Seq(Call)
      /\ Len(queue') = Len(queue) - 1
  BY <1>1, <1>2, HeadLeaves DEF ClientInv
<1>5. ClientTypes'
  BY <1>1, <1>2, <1>3, <1>4, FormsAreTyped DEF ClientInv, ClientTypes
<1>6. \A m \in 1 .. Len(queue') :
        /\ m + 1 \in 1 .. Len(queue)
        /\ call'[queue'[m]] = call[queue[m + 1]] /\ task'[queue'[m]] = task[queue[m + 1]]
  BY <1>1, <1>2, LeaveQueue
<1>7. ~loaded => Len(queue') = 0
  BY <1>1, <1>4 DEF ClientInv, TaskInv
<1>8. TaskInv'
  <2>1. \A m \in 1 .. Len(queue') :
          task'[queue'[m]] = "load" => call'[queue'[m]].op.kind = "get"
    <3> SUFFICES ASSUME NEW m \in 1 .. Len(queue'), task'[queue'[m]] = "load"
                 PROVE  call'[queue'[m]].op.kind = "get"
      OBVIOUS
    <3> QED
      BY <1>6 DEF ClientInv, TaskInv
  <2>2. \A m \in 1 .. Len(queue') : task'[queue'[m]] # "none"
    <3> SUFFICES ASSUME NEW m \in 1 .. Len(queue') PROVE task'[queue'[m]] # "none"
      OBVIOUS
    <3>1. m + 1 \in 1 .. Len(queue) /\ task'[queue'[m]] = task[queue[m + 1]]
      BY <1>6
    <3>2. loaded
      BY <1>4, <1>7 DEF ClientInv, ClientTypes
    <3> QED
      BY <3>1, <3>2 DEF ClientInv, TaskInv
  <2> QED
    BY <1>1, <2>1, <2>2 DEF TaskInv
<1>9. queue' = <<>> => Original' = Shown(stored')
  <2> SUFFICES ASSUME queue' = <<>> PROVE call[i].answer.v = stored
    BY <1>1, <1>2
  <2>1. Len(queue) = 1
    BY <1>4
  <2>2. call[queue[1]].op.kind = "get"
    BY <1>1, <1>4 DEF ClientInv, TaskInv
  <2> QED
    BY <1>1, <1>4, <2>1, <2>2 DEF ClientInv, TruthInv
<1>10. TruthInv'
  BY <1>1, <1>2, <1>9, LeaveQueue DEF TruthInv
<1> QED
  BY <1>1, <1>2, <1>5, <1>8, <1>10, LeaveQueue DEF ClientInv

LEMMA StepForget ==
  ASSUME InOrder, BandInv, ClientInv, NEW i \in Call, Forget(i)
  PROVE  ClientInv'
<1>1. /\ i \in ToSet(queue) /\ Turn(i) /\ task[i] = "none" /\ Leave(i)
      /\ Original' = Original /\ form' = form /\ loaded' = loaded
      /\ dirty' = dirty /\ alerted' = alerted
  BY OriginalStays DEF Forget, Answered, pageVars
<1>2. /\ call' \in [Call -> Calls] /\ task' \in [Call -> {"load", "save", "none"}]
      /\ \A j \in Call : j # i => call'[j] = call[j] /\ task'[j] = task[j]
      /\ queue' = Without(i) /\ stored' = stored
  BY <1>1, LeaveIs
<1>3. /\ Len(queue) \in Nat /\ Len(queue) >= 1 /\ queue[1] = i /\ queue' \in Seq(Call)
      /\ Len(queue') = Len(queue) - 1
  BY <1>1, <1>2, HeadLeaves DEF ClientInv
<1>4. ClientTypes'
  BY <1>1, <1>2, <1>3 DEF ClientInv, ClientTypes
<1>5. \A m \in 1 .. Len(queue') :
        /\ m + 1 \in 1 .. Len(queue) /\ (m < Len(queue') => m + 1 < Len(queue))
        /\ call'[queue'[m]] = call[queue[m + 1]] /\ task'[queue'[m]] = task[queue[m + 1]]
  BY <1>1, <1>2, <1>3, LeaveQueue
<1>6. ~loaded
  BY <1>1, <1>3 DEF ClientInv, TaskInv
<1>7. TaskInv'
  BY <1>1, <1>5, <1>6 DEF ClientInv, TaskInv
<1>8. TruthInv'
  BY <1>1, <1>2, <1>6, LeaveQueue DEF TruthInv
<1> QED
  BY <1>1, <1>2, <1>4, <1>7, <1>8, LeaveQueue DEF ClientInv

\* The head goes to the end of the queue, as a new call.
LEMMA StepSaved ==
  ASSUME InOrder, BandInv, ClientInv, NEW i \in Call, Saved(i)
  PROVE  ClientInv'
<1>1. /\ i \in ToSet(queue) /\ Turn(i) /\ task[i] = "save"
      /\ call' = [call EXCEPT ![i] = Sent(Get)] /\ task' = [task EXCEPT ![i] = "load"]
      /\ queue' = Append(Without(i), i)
      /\ stored' = stored /\ Original' = Original /\ form' = form /\ loaded' = loaded
      /\ dirty' = dirty /\ alerted' = alerted
  BY OriginalStays DEF Saved, Answered, Fetch, pageVars
<1>2. Sent(Get) \in Calls /\ Sent(Get).st = "sent" /\ Sent(Get).op.kind = "get"
  BY GetAndPut, SentIsCall
<1>3. /\ call' \in [Call -> Calls] /\ task' \in [Call -> {"load", "save", "none"}]
      /\ call'[i] = Sent(Get) /\ task'[i] = "load"
      /\ \A j \in Call : j # i => call'[j] = call[j] /\ task'[j] = task[j]
  BY <1>1, <1>2, EndedCall
<1>4. /\ Len(queue) \in Nat /\ Len(queue) >= 1 /\ queue[1] = i
      /\ Without(i) \in Seq(Call) /\ Len(Without(i)) = Len(queue) - 1
      /\ \A m \in 1 .. Len(queue) - 1 : Without(i)[m] = queue[m + 1]
  BY <1>1, HeadLeaves DEF ClientInv
<1>5. /\ queue' \in Seq(Call) /\ Len(queue') = Len(queue) /\ queue'[Len(queue)] = i
      /\ \A m \in 1 .. Len(queue) - 1 : queue'[m] = queue[m + 1]
  BY <1>1, <1>4, Appended
<1>6. \A m \in 1 .. Len(queue) : queue[m] \in Call /\ (m # 1 => queue[m] # i)
  BY <1>4, ElementOfSeq DEF ClientInv, ClientTypes, QueueInv
<1>7. \A m \in 1 .. Len(queue) - 1 :
        /\ m + 1 \in 1 .. Len(queue) /\ queue'[m] # i
        /\ call'[queue'[m]] = call[queue[m + 1]] /\ task'[queue'[m]] = task[queue[m + 1]]
  BY <1>3, <1>4, <1>5, <1>6
<1>8. ClientTypes'
  BY <1>1, <1>3, <1>5 DEF ClientInv, ClientTypes
<1>9. loaded
  BY <1>1, <1>4 DEF ClientInv, TaskInv
<1>10. QueueInv'
  <2>1. \A m \in 1 .. Len(queue') : m = Len(queue) \/ m \in 1 .. Len(queue) - 1
    BY <1>4, <1>5
  <2>2. ASSUME NEW m \in 1 .. Len(queue'), NEW n \in 1 .. Len(queue'), queue'[m] = queue'[n]
        PROVE  m = n
    <3>1. CASE m = Len(queue) \/ n = Len(queue)
      BY <1>5, <1>7, <2>1, <2>2, <3>1
    <3>2. CASE m \in 1 .. Len(queue) - 1 /\ n \in 1 .. Len(queue) - 1
      <4>1. queue[m + 1] = queue[n + 1] /\ m + 1 \in 1 .. Len(queue) /\ n + 1 \in 1 .. Len(queue)
        BY <1>5, <1>7, <2>2, <3>2
      <4>2. m + 1 = n + 1
        BY <4>1 DEF ClientInv, QueueInv
      <4> QED
        BY <3>2, <4>2
    <3> QED
      BY <2>1, <3>1, <3>2
  <2>3. ASSUME NEW m \in 1 .. Len(queue')
        PROVE  /\ call'[queue'[m]].st # "idle"
               /\ m = Len(queue) => call'[queue'[m]].st = "sent"
    <3>1. CASE m = Len(queue)
      BY <1>2, <1>3, <1>5, <3>1
    <3>2. CASE m \in 1 .. Len(queue) - 1
      BY <1>4, <1>7, <3>2 DEF ClientInv, QueueInv
    <3> QED
      BY <2>1, <3>1, <3>2
  <2>4. ASSUME NEW m \in 1 .. Len(queue'), NEW n \in 1 .. Len(queue'),
               m < n, call'[queue'[n]].st = "done"
        PROVE  call'[queue'[m]].st = "done"
    <3>1. n \in 1 .. Len(queue) - 1
      BY <2>1, <2>3, <2>4
    <3>2. m \in 1 .. Len(queue) - 1 /\ m + 1 < n + 1
      BY <1>4, <2>1, <2>4, <3>1
    <3>3. call[queue[n + 1]].st = "done" /\ m + 1 \in 1 .. Len(queue) /\ n + 1 \in 1 .. Len(queue)
      BY <1>7, <2>4, <3>1, <3>2
    <3>4. call[queue[m + 1]].st = "done"
      BY <3>2, <3>3 DEF ClientInv, QueueInv
    <3> QED
      BY <1>7, <3>2, <3>4
  <2> QED
    BY <2>2, <2>3, <2>4 DEF QueueInv
<1>11. TaskInv'
  <2>1. \A m \in 1 .. Len(queue') : m = Len(queue) \/ m \in 1 .. Len(queue) - 1
    BY <1>4, <1>5
  <2> QED
    BY <1>1, <1>2, <1>3, <1>5, <1>7, <1>9, <2>1 DEF ClientInv, TaskInv
<1>12. ASSUME NEW m \in 1 .. Len(queue'),
              call'[queue'[m]].st = "done", call'[queue'[m]].op.kind = "get",
              \A n \in m + 1 .. Len(queue') :
                call'[queue'[n]].op.kind = "put" => call'[queue'[n]].st = "sent"
       PROVE  call'[queue'[m]].answer.v = stored'
  <2>1. m \in 1 .. Len(queue) - 1
    BY <1>2, <1>3, <1>4, <1>5, <1>12
  <2>2. \A n \in (m + 1) + 1 .. Len(queue) :
          call[queue[n]].op.kind = "put" => call[queue[n]].st = "sent"
    <3> SUFFICES ASSUME NEW n \in (m + 1) + 1 .. Len(queue), call[queue[n]].op.kind = "put"
                 PROVE  call[queue[n]].st = "sent"
      OBVIOUS
    <3>1. n - 1 \in m + 1 .. Len(queue') /\ n - 1 \in 1 .. Len(queue) - 1 /\ (n - 1) + 1 = n
      BY <1>4, <1>5
    <3>2. call'[queue'[n - 1]] = call[queue[n]]
      BY <1>7, <3>1
    <3> QED
      BY <1>12, <3>1, <3>2
  <2> QED
    BY <1>1, <1>7, <1>12, <2>1, <2>2 DEF ClientInv, TruthInv
<1>13. queue' # <<>>
  BY <1>4, <1>5
<1>14. TruthInv'
  BY <1>1, <1>12, <1>13 DEF ClientInv, TruthInv
<1> QED
  BY <1>8, <1>10, <1>11, <1>14 DEF ClientInv

LEMMA InitClientInv == ASSUME Init PROVE ClientInv
<1>1. PICK i \in Call :
        /\ stored \in {Default} \union {[station |-> s, bands |-> s] : s \in Setting}
        /\ call = [j \in Call |-> IF j = i THEN Sent(Get) ELSE [Sent(Get) EXCEPT !.st = "idle"]]
        /\ task = [j \in Call |-> IF j = i THEN "load" ELSE "none"]
        /\ queue = <<i>> /\ loaded = FALSE /\ Original = Blank /\ form = Blank /\ dirty = FALSE
        /\ alerted = FALSE
  BY StartedOver DEF Init
<1>2. Sent(Get) \in Calls /\ Sent(Get).st = "sent" /\ Sent(Get).op.kind = "get"
  BY GetAndPut, SentIsCall
<1>3. [Sent(Get) EXCEPT !.st = "idle"] \in Calls
  BY <1>2 DEF Calls
<1>4. stored \in Config
  BY <1>1 DEF Config, Default
<1>5. queue \in Seq(Call) /\ Len(queue) = 1 /\ queue[1] = i
  BY <1>1
<1>6. ClientTypes
  BY <1>1, <1>2, <1>3, <1>4, <1>5, FormsAreTyped DEF ClientTypes
<1>7. call[i].st = "sent" /\ call[i].op.kind = "get" /\ task[i] = "load"
  BY <1>1, <1>2
<1>8. \A m \in 1 .. Len(queue) : m = 1
  BY <1>5
<1>9. QueueInv
  BY <1>5, <1>7, <1>8 DEF QueueInv
<1>10. TaskInv
  BY <1>1, <1>5, <1>7, <1>8 DEF TaskInv
<1>11. TruthInv
  BY <1>1, <1>5, <1>7, <1>8 DEF TruthInv
<1> QED
  BY <1>6, <1>9, <1>10, <1>11 DEF ClientInv

LEMMA StepClientInv ==
  ASSUME ClientAssumption, InOrder, BandInv, ClientInv, [Next]_vars
  PROVE  ClientInv'
<1>1. CASE UNCHANGED vars
  BY <1>1, OriginalStays DEF vars, ClientInv, ClientTypes, QueueInv, TaskInv, TruthInv
<1> QED
  BY <1>1, StepUser, StepSave, StepReload, StepClientPerform, StepLoad, StepSaved,
     StepForget,
     StepFail DEF Next, Net

\* If calls are performed and answered in the order made, a form with nothing to save shows
\* what the device holds once nothing is under way, unless a failure was shown: for any
\* number of calls, edits, saves, cancels, failures and new starts of the page
\* (app.js:230-255).
THEOREM QuietFormIsTruth == InOrder => (Spec => []QuietIsTruth)
<1> SUFFICES ASSUME InOrder PROVE Spec => []QuietIsTruth
  OBVIOUS
<1>1. Init => BandInv /\ ClientInv
  BY StartedOver, InitClientInv
<1>2. BandInv /\ ClientInv /\ [Next]_vars => (BandInv /\ ClientInv)'
  BY ClientAssumption, StepBandInv, StepClientInv
<1>3. ClientInv => QuietIsTruth
  BY DEF ClientInv, TruthInv, QuietIsTruth
<1> QED
  BY <1>1, <1>2, <1>3, PTL DEF Spec

-------------------------------------------------------------------------------
(* CaptiveDNS: its thread. *)

Stages == {"top", "recv", "send", "exited"}

\* Until stop() has given up on a thread, only the last one created may live; it does from
\* its creation until the socket is closed, and stop() then waits for its end.
ThreadInv ==
  /\ threads \in Seq(Stages) /\ running \in BOOLEAN /\ late \in BOOLEAN
  /\ caller \in {"idle", "create", "created", "join"}
  /\ caller \in {"create", "created"} => ~running
  /\ caller = "join" => dnsSock = 0
  /\ running \/ caller \in {"created", "join"} => threads # <<>>
  /\ ~late =>
       /\ \A t \in 1 .. Len(threads) - 1 : threads[t] = "exited"
       /\ caller = "create" \/ (caller = "idle" /\ ~running) =>
            \A t \in 1 .. Len(threads) : threads[t] = "exited"
       /\ caller = "created" \/ (caller = "idle" /\ running) =>
            dnsRunning /\ threads[Len(threads)] # "exited"

LEMMA OneThreadAlive == ThreadInv => OneThread
<1> SUFFICES ASSUME ThreadInv, ~late
             PROVE  /\ \A s, t \in DNS!Alive : s = t
                    /\ caller = "idle" => (DNS!Alive # {}) = running
  BY DEF OneThread, DNS!OneThread
<1>1. /\ Len(threads) \in Nat /\ DOMAIN threads = 1 .. Len(threads)
      /\ threads # <<>> => Len(threads) >= 1
  BY LenProperties, EmptySeq DEF ThreadInv
<1>2. \A s, t \in DNS!Alive : s = t
  BY <1>1 DEF DNS!Alive, ThreadInv
<1>3. caller = "idle" /\ running => DNS!Alive # {}
  BY <1>1 DEF ThreadInv, DNS!Alive
<1>4. caller = "idle" /\ ~running => DNS!Alive = {}
  BY <1>1 DEF ThreadInv, DNS!Alive
<1>5. running \in BOOLEAN
  BY DEF ThreadInv
<1> QED
  BY <1>2, <1>3, <1>4, <1>5

LEMMA StepCaller ==
  ASSUME ThreadInv, DNS!Open \/ DNS!Create \/ DNS!Started \/ DNS!Close
  PROVE  ThreadInv'
<1>1. Len(threads) \in Nat /\ (threads # <<>> => Len(threads) >= 1)
  BY LenProperties, EmptySeq DEF ThreadInv
<1>2. CASE DNS!Create
  <2>1. /\ caller = "create" /\ caller' = "created" /\ running' = running /\ late' = late
        /\ dnsRunning' = TRUE /\ threads' = Append(threads, "top")
    BY <1>2 DEF DNS!Create
  <2>2. /\ threads' \in Seq(Stages) /\ Len(threads') = Len(threads) + 1 /\ threads' # <<>>
        /\ \A t \in 1 .. Len(threads) : threads'[t] = threads[t]
        /\ threads'[Len(threads')] = "top"
    BY <2>1, AppendProperties DEF ThreadInv, Stages
  <2> QED
    BY <1>1, <2>1, <2>2 DEF ThreadInv
<1>3. CASE DNS!Open
  BY <1>3 DEF DNS!Open, DNS!work, ThreadInv
<1>4. CASE DNS!Started
  BY <1>4 DEF DNS!Started, DNS!work, ThreadInv
<1>5. CASE DNS!Close
  BY <1>5 DEF DNS!Close, DNS!work, ThreadInv
<1> QED
  BY <1>2, <1>3, <1>4, <1>5

LEMMA StepJoin ==
  ASSUME ThreadInv, DNS!Join
  PROVE  ThreadInv'
<1>1. /\ Len(threads) \in Nat /\ DOMAIN threads = 1 .. Len(threads)
      /\ threads # <<>> /\ Len(threads) >= 1
  BY LenProperties, EmptySeq DEF ThreadInv, DNS!Join
<1>2. threads[Len(threads)] \in {"exited", "send"}
  BY <1>1 DEF DNS!Join, DNS!CallerRuns, DNS!Alive, ThreadInv, Stages
<1>3. ~late' => ~late /\ threads[Len(threads)] = "exited"
  BY <1>2 DEF DNS!Join
<1>4. /\ caller' = "idle" /\ running' = FALSE /\ threads' = threads
      /\ late' \in BOOLEAN
  BY DEF DNS!Join, DNS!work
<1>5. ~late' => \A t \in 1 .. Len(threads') : threads'[t] = "exited"
  BY <1>1, <1>3, <1>4 DEF ThreadInv
<1>6. threads' \in Seq(Stages) /\ \A t \in 1 .. Len(threads') - 1 : t \in 1 .. Len(threads')
  BY <1>1, <1>4 DEF ThreadInv
<1> QED
  BY <1>4, <1>5, <1>6 DEF ThreadInv

LEMMA StepThread ==
  ASSUME ThreadInv, NEW t \in DOMAIN threads, DNS!Thread(t)
  PROVE  ThreadInv'
<1>1. /\ Len(threads) \in Nat /\ DOMAIN threads = 1 .. Len(threads)
  BY LenProperties DEF ThreadInv
<1>2. PICK to \in Stages : /\ threads[t] # "exited" /\ threads' = [threads EXCEPT ![t] = to]
                           /\ to = "exited" => ~dnsRunning
  BY DEF DNS!Thread, DNS!Top, DNS!Receive, DNS!Send, DNS!At, Stages
<1>3. UNCHANGED <<caller, running, dnsRunning, dnsSock, late>>
  BY DEF DNS!Thread, DNS!Top, DNS!Receive, DNS!Send, DNS!caps
<1>4. /\ threads' \in Seq(Stages) /\ Len(threads') = Len(threads)
      /\ \A s \in 1 .. Len(threads) : threads'[s] = IF s = t THEN to ELSE threads[s]
  BY <1>1, <1>2, ExceptSeq DEF ThreadInv
<1>5. threads' # <<>>
  BY <1>1, <1>4, EmptySeq
<1> QED
  BY <1>1, <1>2, <1>3, <1>4, <1>5 DEF ThreadInv

\* However often the server is started and stopped, and whatever its thread waits for, there
\* is one thread while it runs and none while it does not, until stop() has given up on one
\* that was sending (captiveDNS.cpp:224-233, 236-250).
THEOREM OneThreadAtMost == DNS!Spec => []OneThread
<1>1. DNS!Init => ThreadInv
  <2>1. <<>> \in Seq(Stages) /\ Len(<<>>) = 0
    BY EmptySeq
  <2> SUFFICES ASSUME DNS!Init PROVE ThreadInv
    OBVIOUS
  <2>2. caller = "idle" /\ threads = <<>> /\ running \in BOOLEAN /\ ~running /\ late \in BOOLEAN
    BY DEF DNS!Init
  <2> QED
    BY <2>1, <2>2 DEF ThreadInv
<1>2. ThreadInv /\ [DNS!Next]_(DNS!vars) => ThreadInv'
  <2> SUFFICES ASSUME ThreadInv, [DNS!Next]_(DNS!vars) PROVE ThreadInv'
    OBVIOUS
  <2>1. CASE DNS!Ask
    BY <2>1 DEF DNS!Ask, DNS!caps, DNS!work, ThreadInv
  <2>2. CASE UNCHANGED DNS!vars
    BY <2>2 DEF DNS!vars, DNS!caps, DNS!work, ThreadInv
  <2> QED
    BY <2>1, <2>2, StepCaller, StepJoin, StepThread DEF DNS!Next
<1> QED
  BY <1>1, <1>2, OneThreadAlive, PTL DEF DNS!Spec

-------------------------------------------------------------------------------
(* CaptiveDNS: its replies. *)

\* What a query can be, and the types of the queries that wait, are held and were answered.
Asked == Queries \cup {DNS!NoQuery}

AnswerInv ==
  /\ threads \in Seq(Stages) /\ inbox \in Seq(Queries)
  /\ rxBuf \in Seq(Asked) /\ Len(rxBuf) = Len(threads)
  /\ sent.query \in Asked /\ sent.reply = DNS!Reply(sent.query)

\* The questions are a sequence.
LEMMA AskedIs ==
  ASSUME DNS!DNSAssumption, NEW q \in Asked
  PROVE  Len(q.questions) \in Nat /\ DOMAIN q.questions = 1 .. Len(q.questions)
<1>1. q.questions \in Seq({"A", "other"})
  <2>1. CASE q \in Queries
    BY <2>1 DEF DNS!DNSAssumption
  <2>2. CASE q = DNS!NoQuery
    <3>1. q.questions = <<>>
      BY <2>2 DEF DNS!NoQuery
    <3> QED
      BY <3>1, EmptySeq
  <2> QED
    BY <2>1, <2>2 DEF Asked
<1> QED
  BY <1>1, LenProperties

\* The library's Cardinality is the instance's.
LEMMA SameCardinality == ASSUME NEW S PROVE DNS!Cardinality(S) = Cardinality(S)
  BY DEF Cardinality, DNS!Cardinality, IsFiniteSet, DNS!IsFiniteSet

\* Every question of a plain query is answered, all answers fit, and nothing comes before
\* them.
LEMMA PlainReplyParses ==
  ASSUME DNS!DNSAssumption, NEW q \in Asked, DNS!Plain(q)
  PROVE  DNS!Parses(DNS!Reply(q))
<1> DEFINE n == Len(q.questions)
           A == {i \in DOMAIN q.questions : q.questions[i] = "A"}
           s == [i \in 1 .. n |-> "A"]
<1>1. n \in Nat /\ DOMAIN q.questions = 1 .. n /\ n <= Room /\ ~q.edns
  BY AskedIs DEF DNS!Plain
<1>2. A = 1 .. n
  BY <1>1 DEF DNS!Plain
<1>3. Cardinality(1 .. n) = IF 1 > n THEN 0 ELSE n - 1 + 1
  BY <1>1, FS_Interval, 1 \in Int
<1>4. DNS!Cardinality(A) = n
  <2> HIDE DEF n, A
  <2> QED
    BY <1>1, <1>2, <1>3, SameCardinality
<1>5. DNS!Answered(q) = s
  BY <1>4 DEF DNS!Answered
<1>6. DNS!Fitting(s) = s
  <2> HIDE DEF n
  <2>1. s \in Seq({"A"}) /\ Len(s) = n
    BY <1>1
  <2>2. Room \in Nat
    BY DEF DNS!DNSAssumption
  <2>3. DNS!Fitting(s) = SubSeq(s, 1, n)
    BY <2>1, <2>2, <1>1 DEF DNS!Fitting
  <2>4. SubSeq(s, 1, n) = s
    BY <2>1, <1>1
  <2> QED
    BY <2>3, <2>4
<1>7. <<>> \o s = s
  <2> HIDE DEF n
  <2> QED
    BY <1>1, s \in Seq({"A"}), ConcatEmptySeq
<1>8. DNS!Reply(q) = [qdcount |-> n, ancount |-> n, arcount |-> 0, records |-> s]
  BY <1>1, <1>5, <1>6, <1>7 DEF DNS!Reply, DNS!buildDNSResponse
<1> HIDE DEF n
<1>9. Len(s) = n
  BY <1>1
<1> QED
  BY <1>1, <1>8, <1>9 DEF DNS!Parses

LEMMA StepAnswer ==
  ASSUME DNS!DNSAssumption, AnswerInv, [DNS!Next]_(DNS!vars)
  PROVE  AnswerInv'
<1>1. CASE DNS!Open \/ DNS!Close
  BY <1>1, EmptySeq DEF AnswerInv, DNS!Open, DNS!Close, DNS!work
<1>2. CASE DNS!Create
  <2>1. threads' = Append(threads, "top") /\ rxBuf' = Append(rxBuf, DNS!NoQuery)
        /\ UNCHANGED <<inbox, sent>>
    BY <1>2 DEF DNS!Create
  <2>2. "top" \in Stages /\ DNS!NoQuery \in Asked
    BY DEF Stages, Asked
  <2>3. /\ threads' \in Seq(Stages) /\ Len(threads') = Len(threads) + 1
        /\ rxBuf' \in Seq(Asked) /\ Len(rxBuf') = Len(rxBuf) + 1
    BY <2>1, <2>2, AppendProperties DEF AnswerInv
  <2> QED
    BY <2>1, <2>3 DEF AnswerInv
<1>3. CASE DNS!Started \/ DNS!Join
  BY <1>3 DEF AnswerInv, DNS!Started, DNS!Join, DNS!work
<1>4. ASSUME NEW t \in DOMAIN threads, DNS!Thread(t) PROVE AnswerInv'
  <2>1. PICK to \in Stages : threads' = [threads EXCEPT ![t] = to]
    BY <1>4 DEF DNS!Thread, DNS!Top, DNS!Receive, DNS!Send, DNS!At, Stages
  <2>2. threads' \in Seq(Stages) /\ Len(threads') = Len(threads)
        /\ t \in 1 .. Len(rxBuf) /\ rxBuf[t] \in Asked
    BY <2>1, ExceptSeq, LenProperties, ElementOfSeq DEF AnswerInv
  <2>3. CASE DNS!Top(t)
    BY <2>2, <2>3 DEF DNS!Top, AnswerInv
  <2>4. CASE DNS!Receive(t)
    <3>1. sent' = sent
      BY <2>4 DEF DNS!Receive
    <3>2. CASE UNCHANGED <<rxBuf, inbox>>
      BY <2>2, <3>1, <3>2 DEF AnswerInv
    <3>3. CASE /\ inbox # <<>> /\ rxBuf' = [rxBuf EXCEPT ![t] = Head(inbox)]
               /\ inbox' = Tail(inbox)
      <4>1. Head(inbox) \in Queries /\ inbox' \in Seq(Queries)
        BY <3>3, HeadTailProperties DEF AnswerInv
      <4>2. rxBuf' \in Seq(Asked) /\ Len(rxBuf') = Len(rxBuf)
        BY <3>3, <4>1, <2>2, ExceptSeq DEF AnswerInv, Asked
      <4> QED
        BY <2>2, <3>1, <4>1, <4>2 DEF AnswerInv
    <3> QED
      BY <2>4, <3>2, <3>3 DEF DNS!Receive
  <2>5. CASE DNS!Send(t)
    BY <2>2, <2>5 DEF DNS!Send, AnswerInv
  <2> QED
    BY <1>4, <2>3, <2>4, <2>5 DEF DNS!Thread
<1>5. CASE DNS!Ask
  <2>1. PICK q \in Queries : inbox' = Append(inbox, q)
    BY <1>5 DEF DNS!Ask
  <2>2. inbox' \in Seq(Queries)
    BY <2>1, AppendProperties DEF AnswerInv
  <2> QED
    BY <1>5, <2>2 DEF DNS!Ask, DNS!work, AnswerInv
<1>6. CASE UNCHANGED DNS!vars
  BY <1>6 DEF DNS!vars, DNS!caps, DNS!work, AnswerInv
<1> QED
  BY <1>1, <1>2, <1>3, <1>4, <1>5, <1>6 DEF DNS!Next

\* Whatever queries come, and whichever threads hold them, a query for addresses alone gets
\* a reply whose header counts the records that follow, and each is an answer
\* (captiveDNS.cpp:71-133).
THEOREM PlainQueriesAreAnswered ==
  ASSUME DNS!DNSAssumption
  PROVE  DNS!Spec => []PlainQueryAnswered
<1>1. DNS!Init => AnswerInv
  BY EmptySeq DEF DNS!Init, AnswerInv, Asked
<1>2. AnswerInv /\ [DNS!Next]_(DNS!vars) => AnswerInv'
  BY StepAnswer
<1>3. AnswerInv => PlainQueryAnswered
  BY PlainReplyParses DEF AnswerInv, PlainQueryAnswered, DNS!PlainQueryAnswered
<1> QED
  BY <1>1, <1>2, <1>3, PTL DEF DNS!Spec

-------------------------------------------------------------------------------
(* MockServer: files. *)

Texts == Seq(Int)
Requests == [st : {"none", "write", "done"}, path : Mock!Path, text : Texts, ino : Nat, code : Nat,
             sole : BOOLEAN]

MockTypes ==
  /\ main \in {"load", "save", "fill", "serve"} /\ config \in Texts
  /\ disk \in Seq(Texts) /\ inode \in [Mock!Path -> Nat] /\ last \in [Mock!Path -> Texts]
  /\ req \in [Req -> Requests]

\* No two names share an inode.
InodeInv ==
  /\ \A p \in Mock!Path : inode[p] <= Len(disk)
  /\ \A p, q \in Mock!Path : inode[p] = inode[q] /\ inode[p] # 0 => p = q

\* A request has an inode open that is no other name's; one whose writing nothing overlaps
\* has its file, which is empty, to itself.
WriterInv ==
  \A r \in Req : req[r].st = "write" =>
    /\ main = "serve"
    /\ req[r].ino \in 1 .. Len(disk)
    /\ \A q \in Mock!Path : q # req[r].path => inode[q] # req[r].ino
    /\ req[r].sole => /\ inode[req[r].path] = req[r].ino /\ disk[req[r].ino] = <<>>
                      /\ Mock!Writing(req[r].path) = {r}

\* main() writes a new file.
FillInv ==
  /\ main = "fill" => /\ inode["config.json"] # 0 /\ disk[inode["config.json"]] = <<>>
                      /\ last["config.json"] = Mock!None

QuietInv ==
  \A p \in Mock!Path : Mock!Writing(p) = {} /\ last[p] # Mock!None =>
    inode[p] # 0 /\ disk[inode[p]] = last[p]

MockInv == MockTypes /\ InodeInv /\ WriterInv /\ FillInv /\ QuietInv

LEMMA OpenedFile ==
  ASSUME MockInv, NEW p \in Mock!Path, Mock!OpenFile(p)
  PROVE  /\ disk' \in Seq(Texts) /\ inode' \in [Mock!Path -> Nat]
         /\ Len(disk) \in Nat /\ Len(disk') \in Nat /\ Len(disk) <= Len(disk')
         /\ inode'[p] \in 1 .. Len(disk') /\ disk'[inode'[p]] = <<>>
         /\ \A q \in Mock!Path : q # p => inode'[q] = inode[q] /\ inode'[q] # inode'[p]
         /\ \A k \in 1 .. Len(disk) : k # inode'[p] => disk'[k] = disk[k]
         /\ inode'[p] = IF inode[p] = 0 THEN Len(disk) + 1 ELSE inode[p]
<1>1. Len(disk) \in Nat /\ DOMAIN disk = 1 .. Len(disk) /\ inode \in [Mock!Path -> Nat]
      /\ <<>> \in Texts /\ disk \in Seq(Texts) /\ inode[p] \in Nat /\ inode[p] <= Len(disk)
  BY LenProperties, EmptySeq DEF MockInv, MockTypes, InodeInv, Texts
<1>2. CASE inode[p] = 0
  <2>1. disk' = Append(disk, <<>>) /\ inode' = [inode EXCEPT ![p] = Len(disk) + 1]
    BY <1>2 DEF Mock!OpenFile
  <2>2. inode'[p] = Len(disk) + 1 /\ \A q \in Mock!Path : q # p => inode'[q] = inode[q]
    BY <1>1, <2>1
  <2>3. disk' \in Seq(Texts) /\ Len(disk') = Len(disk) + 1 /\ disk'[Len(disk) + 1] = <<>>
        /\ \A k \in 1 .. Len(disk) : disk'[k] = disk[k]
    BY <1>1, <2>1, AppendProperties
  <2>4. inode' \in [Mock!Path -> Nat]
    BY <1>1, <2>1
  <2> QED
    BY <1>1, <1>2, <2>2, <2>3, <2>4 DEF MockInv, InodeInv
<1>3. CASE inode[p] # 0
  <2>1. disk' = [disk EXCEPT ![inode[p]] = <<>>] /\ inode' = inode
    BY <1>3 DEF Mock!OpenFile, Mock!Opened
  <2>2. inode[p] \in 1 .. Len(disk)
    BY <1>1, <1>3
  <2>3. disk' \in Seq(Texts) /\ Len(disk') = Len(disk)
        /\ \A k \in 1 .. Len(disk) : disk'[k] = IF k = inode[p] THEN <<>> ELSE disk[k]
    BY <1>1, <2>1, <2>2, ExceptSeq
  <2> QED
    BY <1>1, <1>3, <2>1, <2>2, <2>3 DEF MockInv, InodeInv
<1> QED
  BY <1>2, <1>3

LEMMA FilledFile ==
  ASSUME MockInv, NEW k \in 1 .. Len(disk), NEW text \in Texts, Mock!Filled(k, text)
  PROVE  /\ disk' \in Seq(Texts) /\ Len(disk') = Len(disk) /\ Len(disk) \in Nat
         /\ \A j \in 1 .. Len(disk) : j # k => disk'[j] = disk[j]
         /\ disk[k] = <<>> => disk'[k] = text
<1> DEFINE t == text \o SubSeq(disk[k], Len(text) + 1, Len(disk[k]))
<1>1. disk \in Seq(Texts) /\ Len(disk) \in Nat /\ disk[k] \in Texts
  BY LenProperties, ElementOfSeq DEF MockInv, MockTypes
<1>2. Len(text) \in Nat /\ Len(disk[k]) \in Nat /\ \A i \in 1 .. Len(disk[k]) : disk[k][i] \in Int
  BY <1>1, LenProperties, ElementOfSeq DEF Texts
<1>3. SubSeq(disk[k], Len(text) + 1, Len(disk[k])) \in Seq(Int)
  <2>1. \A i \in Len(text) + 1 .. Len(disk[k]) : disk[k][i] \in Int
    BY <1>2
  <2> QED
    BY <1>2, <2>1, SubSeqProperties
<1>4. t \in Texts
  BY <1>3, ConcatProperties DEF Texts
<1>5. disk' = [disk EXCEPT ![k] = t]
  BY <1>1 DEF Mock!Filled
<1>6. disk[k] = <<>> => t = text
  <2> SUFFICES ASSUME disk[k] = <<>> PROVE t = text
    OBVIOUS
  <2>1. Len(disk[k]) = 0
    BY EmptySeq
  <2>2. SubSeq(disk[k], Len(text) + 1, Len(disk[k])) = <<>>
    BY <1>2, <2>1, SubSeqEmpty
  <2> QED
    BY <2>2, ConcatEmptySeq DEF Texts
<1> HIDE DEF t
<1> QED
  BY <1>1, <1>4, <1>5, <1>6, ExceptSeq

\* A file that is opened or removed disturbs who writes it, and leaves the others alone.
LEMMA Disturb ==
  ASSUME MockInv, NEW p \in Mock!Path
  PROVE  /\ Mock!Disturbed(p) \in [Req -> Requests]
         /\ \A s \in Req : LET d == Mock!Disturbed(p)[s]
              IN /\ d.st = req[s].st /\ d.path = req[s].path /\ d.ino = req[s].ino
                 /\ d.text = req[s].text /\ d.code = req[s].code
                 /\ d.sole <=> req[s].sole /\ ~(req[s].st = "write" /\ req[s].path = p)
<1>1. req \in [Req -> Requests]
  BY DEF MockInv, MockTypes
<1>2. ASSUME NEW s \in Req
      PROVE  LET d == Mock!Disturbed(p)[s]
             IN /\ d \in Requests
                /\ d.st = req[s].st /\ d.path = req[s].path /\ d.ino = req[s].ino
                /\ d.text = req[s].text /\ d.code = req[s].code
                /\ d.sole <=> req[s].sole /\ ~(req[s].st = "write" /\ req[s].path = p)
  <2>1. req[s] \in Requests
    BY <1>1
  <2>2. CASE s \in Mock!Writing(p)
    <3>1. Mock!Disturbed(p)[s] = [req[s] EXCEPT !.sole = FALSE]
      BY <2>2 DEF Mock!Disturbed
    <3> QED
      BY <2>1, <2>2, <3>1 DEF Mock!Writing, Requests
  <2>3. CASE s \notin Mock!Writing(p)
    <3>1. Mock!Disturbed(p)[s] = req[s]
      BY <2>3 DEF Mock!Disturbed
    <3> QED
      BY <2>1, <2>3, <3>1 DEF Mock!Writing, Requests
  <2> QED
    BY <2>2, <2>3
<1>3. Mock!Disturbed(p) \in [Req -> Requests]
  BY <1>2 DEF Mock!Disturbed
<1> QED
  BY <1>2, <1>3

LEMMA StepBegin ==
  ASSUME MockInv, NEW r \in Req, NEW p \in Mock!Path, NEW text \in Texts,
         Mock!Begin(r, p, text), config' \in Texts
  PROVE  MockInv'
<1> DEFINE new == [st |-> "write", path |-> p, text |-> text, ino |-> inode'[p], code |-> 0,
                   sole |-> Mock!Writing(p) = {}]
           Now(q) == {s \in Req : req'[s].st = "write" /\ req'[s].path = q}
<1>1. /\ main = "serve" /\ main' = main /\ last' = last /\ req[r].st = "none"
      /\ Mock!OpenFile(p) /\ req' = [Mock!Disturbed(p) EXCEPT ![r] = new]
  BY DEF Mock!Begin
<1>2. /\ disk' \in Seq(Texts) /\ inode' \in [Mock!Path -> Nat]
      /\ Len(disk) \in Nat /\ Len(disk') \in Nat /\ Len(disk) <= Len(disk')
      /\ inode'[p] \in 1 .. Len(disk') /\ disk'[inode'[p]] = <<>>
      /\ \A q \in Mock!Path : q # p => inode'[q] = inode[q] /\ inode'[q] # inode'[p]
      /\ \A k \in 1 .. Len(disk) : k # inode'[p] => disk'[k] = disk[k]
      /\ inode'[p] = IF inode[p] = 0 THEN Len(disk) + 1 ELSE inode[p]
  BY <1>1, OpenedFile
<1>3. new \in Requests
  BY <1>2 DEF Requests
<1>4. /\ req' \in [Req -> Requests] /\ req'[r] = new
      /\ \A s \in Req : s # r =>
           /\ req'[s].st = req[s].st /\ req'[s].path = req[s].path /\ req'[s].ino = req[s].ino
           /\ req'[s].sole <=> req[s].sole /\ ~(req[s].st = "write" /\ req[s].path = p)
  BY <1>1, <1>3, Disturb
<1>5. /\ new.st = "write" /\ new.path = p /\ new.ino = inode'[p]
      /\ new.sole <=> Mock!Writing(p) = {}
  OBVIOUS
<1> HIDE DEF new
<1>6. \A q \in Mock!Path : Now(q) = IF q = p THEN Mock!Writing(p) \union {r} ELSE Mock!Writing(q)
  BY <1>1, <1>4, <1>5 DEF Mock!Writing
<1>7. MockTypes'
  BY <1>1, <1>2, <1>4 DEF MockInv, MockTypes
<1>8. InodeInv'
  <2>1. \A q \in Mock!Path : inode[q] \in Nat /\ inode[q] <= Len(disk)
    BY DEF MockInv, MockTypes, InodeInv
  <2>2. \A q \in Mock!Path : inode'[q] <= Len(disk')
    BY <1>2, <2>1
  <2>3. \A q, u \in Mock!Path : inode'[q] = inode'[u] /\ inode'[q] # 0 => q = u
    BY <1>2 DEF MockInv, InodeInv
  <2> QED
    BY <2>2, <2>3 DEF InodeInv
<1>9. WriterInv'
  <2> SUFFICES ASSUME NEW s \in Req, req'[s].st = "write"
               PROVE  /\ main' = "serve"
                      /\ req'[s].ino \in 1 .. Len(disk')
                      /\ \A q \in Mock!Path : q # req'[s].path => inode'[q] # req'[s].ino
                      /\ req'[s].sole => /\ inode'[req'[s].path] = req'[s].ino
                                         /\ disk'[req'[s].ino] = <<>>
                                         /\ Now(req'[s].path) = {s}
    BY DEF WriterInv, Mock!Writing
  <2>1. CASE s = r
    <3>1. /\ req'[s].ino = inode'[p] /\ req'[s].path = p
          /\ req'[s].sole => Now(p) = {s}
      BY <1>4, <1>5, <1>6, <2>1
    <3> QED
      BY <1>1, <1>2, <3>1
  <2>2. CASE s # r
    <3>1. req[s].st = "write" /\ req[s].path \in Mock!Path
      BY <1>4, <2>2 DEF MockInv, MockTypes, Requests
    <3>2. /\ req[s].ino \in 1 .. Len(disk)
          /\ \A q \in Mock!Path : q # req[s].path => inode[q] # req[s].ino
          /\ req[s].sole => /\ inode[req[s].path] = req[s].ino /\ disk[req[s].ino] = <<>>
                            /\ Mock!Writing(req[s].path) = {s}
      BY <3>1 DEF MockInv, WriterInv
    <3>3. \A q \in Mock!Path : q # req[s].path => inode'[q] # req[s].ino
      BY <1>2, <3>2
    <3>4. req'[s].sole => req[s].sole /\ req[s].path # p
      BY <1>4, <2>2, <3>1
    <3>5. ASSUME req'[s].sole
          PROVE  /\ inode'[req[s].path] = req[s].ino /\ disk'[req[s].ino] = <<>>
                 /\ Now(req[s].path) = {s}
      <4>1. req[s].sole /\ req[s].path # p
        BY <3>4, <3>5
      <4>2. inode'[req[s].path] = inode[req[s].path] /\ inode'[req[s].path] # inode'[p]
        BY <1>2, <3>1, <4>1
      <4>3. inode[req[s].path] = req[s].ino /\ disk[req[s].ino] = <<>> /\ Mock!Writing(req[s].path) = {s}
        BY <3>2, <4>1
      <4>4. disk'[req[s].ino] = <<>>
        BY <1>2, <3>2, <4>2, <4>3
      <4>5. Now(req[s].path) = {s}
        BY <1>6, <3>1, <4>1, <4>3
      <4> QED
        BY <4>2, <4>3, <4>4, <4>5
    <3>6. /\ req'[s].ino = req[s].ino /\ req'[s].path = req[s].path
          /\ req[s].ino \in 1 .. Len(disk')
      BY <1>2, <1>4, <2>2, <3>2
    <3> QED
      BY <1>1, <3>3, <3>5, <3>6
  <2> QED
    BY <2>1, <2>2
<1>10. FillInv'
  BY <1>1 DEF FillInv
<1>11. QuietInv'
  <2> SUFFICES ASSUME NEW q \in Mock!Path, Now(q) = {}, last'[q] # Mock!None
               PROVE  inode'[q] # 0 /\ disk'[inode'[q]] = last'[q]
    BY DEF QuietInv, Mock!None, Mock!Writing
  <2>1. q # p /\ Mock!Writing(q) = {}
    BY <1>6
  <2>2. inode[q] # 0 /\ disk[inode[q]] = last[q] /\ inode[q] \in 1 .. Len(disk)
    BY <1>1, <1>2, <2>1 DEF MockInv, MockTypes, InodeInv, QuietInv
  <2> QED
    BY <1>1, <1>2, <2>1, <2>2
<1> QED
  BY <1>7, <1>8, <1>9, <1>10, <1>11 DEF MockInv

\* A request that is answered is done.
LEMMA AnsweredRequest ==
  ASSUME NEW q \in Requests, NEW p \in Mock!Path, NEW text \in Texts, NEW code \in Nat
  PROVE  Mock!Answered(q, p, text, code) \in Requests /\ Mock!Answered(q, p, text, code).st = "done"
BY DEF Mock!Answered, Requests

LEMMA EndedRequest ==
  ASSUME MockInv, NEW r \in Req, NEW code \in Nat, Mock!Ends(r, code)
  PROVE  /\ req' \in [Req -> Requests] /\ req'[r].st = "done"
         /\ \A s \in Req : s # r => req'[s] = req[s]
<1> DEFINE done == Mock!Answered(req[r], req[r].path, req[r].text, code)
<1>1. req \in [Req -> Requests] /\ req[r].path \in Mock!Path /\ req[r].text \in Texts
  BY DEF MockInv, MockTypes, Requests
<1>2. done \in Requests /\ done.st = "done"
  BY <1>1, AnsweredRequest
<1>3. req' = [req EXCEPT ![r] = done]
  BY <1>1 DEF Mock!Ends
<1> HIDE DEF done
<1> QED
  BY <1>1, <1>2, <1>3

LEMMA StepWrite ==
  ASSUME MockInv, NEW r \in Req, Mock!Write(r)
  PROVE  MockInv'
<1> DEFINE Now(q) == {s \in Req : req'[s].st = "write" /\ req'[s].path = q}
<1> HIDE DEF Now
<1>1. /\ req[r] \in Requests /\ req[r].st = "write" /\ req[r].path \in Mock!Path
      /\ main' = main /\ config' = config /\ inode' = inode
  BY DEF Mock!Write, MockInv, MockTypes, Requests
<1>2. PICK code \in {200, 500} : Mock!Ends(r, code)
  BY DEF Mock!Write
<1>3. /\ req' \in [Req -> Requests] /\ req'[r].st = "done"
      /\ \A s \in Req : s # r => req'[s] = req[s]
  <2>1. code \in Nat
    OBVIOUS
  <2> QED
    BY <1>2, <2>1, EndedRequest
<1>4. \A q \in Mock!Path : Now(q) = Mock!Writing(q) \ {r}
  BY <1>1, <1>3 DEF Now, Mock!Writing
<1>5. /\ main = "serve" /\ req[r].ino \in 1 .. Len(disk)
      /\ \A q \in Mock!Path : q # req[r].path => inode[q] # req[r].ino
      /\ req[r].sole => /\ inode[req[r].path] = req[r].ino /\ disk[req[r].ino] = <<>>
                        /\ Mock!Writing(req[r].path) = {r}
  BY <1>1 DEF MockInv, WriterInv
<1>6. /\ disk' \in Seq(Texts) /\ Len(disk') = Len(disk) /\ Len(disk) \in Nat
      /\ \A j \in 1 .. Len(disk) : j # req[r].ino => disk'[j] = disk[j]
      /\ last' \in [Mock!Path -> Texts]
      /\ \A q \in Mock!Path : q # req[r].path => last'[q] = last[q]
      /\ last'[req[r].path] # Mock!None =>
           req[r].sole /\ disk'[req[r].ino] = last'[req[r].path]
  <2>1. /\ last \in [Mock!Path -> Texts] /\ req[r].text \in Texts /\ Mock!None \in Texts
        /\ disk \in Seq(Texts) /\ Len(disk) \in Nat
    BY <1>1, LenProperties DEF MockInv, MockTypes, Requests, Texts, Mock!None
  <2>2. CASE /\ Mock!Filled(req[r].ino, req[r].text)
             /\ last' = [last EXCEPT ![req[r].path] = IF req[r].sole THEN req[r].text ELSE Mock!None]
    <3>1. /\ disk' \in Seq(Texts) /\ Len(disk') = Len(disk)
          /\ \A j \in 1 .. Len(disk) : j # req[r].ino => disk'[j] = disk[j]
          /\ disk[req[r].ino] = <<>> => disk'[req[r].ino] = req[r].text
      BY <1>5, <2>1, <2>2, FilledFile
    <3> QED
      BY <1>1, <1>5, <2>1, <2>2, <3>1
  <2>3. CASE disk' = disk /\ last' = [last EXCEPT ![req[r].path] = Mock!None]
    BY <1>1, <2>1, <2>3
  <2> QED
    BY <2>2, <2>3 DEF Mock!Write, Mock!DiskFull
<1>7. MockTypes' /\ InodeInv'
  BY <1>1, <1>3, <1>6 DEF MockInv, MockTypes, InodeInv
<1>8. WriterInv'
  <2> SUFFICES ASSUME NEW s \in Req, req'[s].st = "write"
               PROVE  /\ main' = "serve" /\ req'[s].ino \in 1 .. Len(disk')
                      /\ \A q \in Mock!Path : q # req'[s].path => inode'[q] # req'[s].ino
                      /\ req'[s].sole => /\ inode'[req'[s].path] = req'[s].ino
                                         /\ disk'[req'[s].ino] = <<>>
                                         /\ Now(req'[s].path) = {s}
    BY DEF Now, WriterInv, Mock!Writing
  <2>1. s # r /\ req'[s] = req[s] /\ req[s].st = "write" /\ req[s].path \in Mock!Path
    BY <1>3 DEF MockInv, MockTypes, Requests
  <2>2. /\ req[s].ino \in 1 .. Len(disk)
        /\ \A q \in Mock!Path : q # req[s].path => inode[q] # req[s].ino
        /\ req[s].sole => /\ inode[req[s].path] = req[s].ino /\ disk[req[s].ino] = <<>>
                          /\ Mock!Writing(req[s].path) = {s}
    BY <2>1 DEF MockInv, WriterInv
  <2>3. ASSUME req[s].sole
        PROVE  disk'[req[s].ino] = <<>> /\ Now(req[s].path) = {s}
    <3>1. r \notin Mock!Writing(req[s].path)
      BY <2>1, <2>2, <2>3
    <3>2. req[r].path # req[s].path
      BY <1>1, <3>1 DEF Mock!Writing
    <3>3. req[s].ino # req[r].ino
      BY <1>5, <2>1, <2>2, <2>3, <3>2
    <3> QED
      BY <1>4, <1>6, <2>1, <2>2, <2>3, <3>1, <3>3
  <2> QED
    BY <1>1, <1>5, <1>6, <2>1, <2>2, <2>3
<1>9. FillInv'
  BY <1>1, <1>5 DEF FillInv
<1>10. QuietInv'
  <2> SUFFICES ASSUME NEW q \in Mock!Path, Now(q) = {}, last'[q] # Mock!None
               PROVE  inode'[q] # 0 /\ disk'[inode'[q]] = last'[q]
    BY DEF Now, QuietInv, Mock!None, Mock!Writing
  <2>1. CASE q = req[r].path
    BY <1>1, <1>5, <1>6, <2>1
  <2>2. CASE q # req[r].path
    <3>1. Mock!Writing(q) = {}
      BY <1>4, <2>2 DEF Mock!Writing
    <3>2. inode[q] # 0 /\ disk[inode[q]] = last[q] /\ inode[q] \in 1 .. Len(disk)
      BY <1>6, <2>2, <3>1 DEF MockInv, MockTypes, InodeInv, QuietInv
    <3> QED
      BY <1>1, <1>5, <1>6, <2>2, <3>2
  <2> QED
    BY <2>1, <2>2
<1> QED
  BY <1>7, <1>8, <1>9, <1>10 DEF MockInv

LEMMA StepDelete ==
  ASSUME MockInv, NEW r \in Req, Mock!Delete(r)
  PROVE  MockInv'
<1> DEFINE Now(q) == {s \in Req : req'[s].st = "write" /\ req'[s].path = q}
<1> HIDE DEF Now
<1>1. /\ main = "serve" /\ main' = main /\ config' = config /\ disk' = disk
      /\ req[r].st = "none"
  BY DEF Mock!Delete
<1>2. PICK p \in Mock!Path :
        /\ inode' = [inode EXCEPT ![p] = 0] /\ last' = [last EXCEPT ![p] = Mock!None]
        /\ req' = [Mock!Disturbed(p) EXCEPT
                     ![r] = Mock!Answered(@, p, @.text, IF inode[p] = 0 THEN 500 ELSE 200)]
  BY DEF Mock!Delete
<1>3. /\ req' \in [Req -> Requests] /\ req'[r].st = "done"
      /\ \A s \in Req : s # r =>
           /\ req'[s].st = req[s].st /\ req'[s].path = req[s].path /\ req'[s].ino = req[s].ino
           /\ req'[s].sole <=> req[s].sole /\ ~(req[s].st = "write" /\ req[s].path = p)
  <2>1. /\ Mock!Disturbed(p) \in [Req -> Requests]
        /\ \A s \in Req : s # r => req'[s] = Mock!Disturbed(p)[s]
    BY <1>2, Disturb
  <2> DEFINE code == IF inode[p] = 0 THEN 500 ELSE 200
             now  == Mock!Disturbed(p)[r]
             done == Mock!Answered(now, p, now.text, code)
  <2>2. now \in Requests /\ now.text \in Texts /\ code \in Nat
    BY <2>1 DEF Requests
  <2>3. req' = [Mock!Disturbed(p) EXCEPT ![r] = done]
    BY <1>2, <2>1
  <2> HIDE DEF code, now
  <2>4. done \in Requests /\ done.st = "done"
    BY <2>2, AnsweredRequest
  <2> HIDE DEF done
  <2> QED
    BY <2>1, <2>3, <2>4, Disturb
<1>4. \A q \in Mock!Path : Now(q) = Mock!Writing(q)
  BY <1>1, <1>3 DEF Now, Mock!Writing
<1>5. /\ inode' \in [Mock!Path -> Nat] /\ inode'[p] = 0 /\ last' \in [Mock!Path -> Texts]
      /\ last'[p] = Mock!None
      /\ \A q \in Mock!Path : q # p => inode'[q] = inode[q] /\ last'[q] = last[q]
  <2>1. Mock!None \in Texts
    BY DEF Mock!None, Texts
  <2> QED
    BY <1>2, <2>1 DEF MockInv, MockTypes
<1>6. MockTypes'
  BY <1>1, <1>3, <1>5 DEF MockInv, MockTypes
<1>7. InodeInv'
  <2>1. Len(disk) \in Nat
    BY LenProperties DEF MockInv, MockTypes
  <2> QED
    BY <1>1, <1>5, <2>1 DEF MockInv, InodeInv
<1>8. WriterInv'
  <2> SUFFICES ASSUME NEW s \in Req, req'[s].st = "write"
               PROVE  /\ main' = "serve" /\ req'[s].ino \in 1 .. Len(disk')
                      /\ \A q \in Mock!Path : q # req'[s].path => inode'[q] # req'[s].ino
                      /\ req'[s].sole => /\ inode'[req'[s].path] = req'[s].ino
                                         /\ disk'[req'[s].ino] = <<>>
                                         /\ Now(req'[s].path) = {s}
    BY DEF Now, WriterInv, Mock!Writing
  <2>1. /\ s # r /\ req[s].st = "write" /\ req[s].path \in Mock!Path
        /\ req'[s].path = req[s].path /\ req'[s].ino = req[s].ino
        /\ req'[s].sole => req[s].sole /\ req[s].path # p
    BY <1>3 DEF MockInv, MockTypes, Requests
  <2>2. /\ req[s].ino \in 1 .. Len(disk)
        /\ \A q \in Mock!Path : q # req[s].path => inode[q] # req[s].ino
        /\ req[s].sole => /\ inode[req[s].path] = req[s].ino /\ disk[req[s].ino] = <<>>
                          /\ Mock!Writing(req[s].path) = {s}
    BY <2>1 DEF MockInv, WriterInv
  <2>3. req[s].ino # 0
    BY <2>2
  <2>4. \A q \in Mock!Path : q # req[s].path => inode'[q] # req[s].ino
    BY <1>5, <2>2, <2>3
  <2> QED
    BY <1>1, <1>4, <1>5, <2>1, <2>2, <2>4
<1>9. FillInv'
  BY <1>1 DEF FillInv
<1>10. QuietInv'
  <2> SUFFICES ASSUME NEW q \in Mock!Path, Now(q) = {}, last'[q] # Mock!None
               PROVE  inode'[q] # 0 /\ disk'[inode'[q]] = last'[q]
    BY DEF Now, QuietInv, Mock!None, Mock!Writing
  <2> QED
    BY <1>1, <1>4, <1>5 DEF MockInv, QuietInv
<1> QED
  BY <1>6, <1>7, <1>8, <1>9, <1>10 DEF MockInv

\* Who takes no file and ends none leaves the files as they were.
LEMMA StepPut ==
  ASSUME Mock!MockAssumption, MockInv, NEW r \in Req, Mock!PutConfig(r)
  PROVE  MockInv'
<1> DEFINE Now(q) == {s \in Req : req'[s].st = "write" /\ req'[s].path = q}
<1> HIDE DEF Now
<1>1. /\ main' = main /\ config' = config /\ inode' = inode /\ disk' = disk /\ last' = last
      /\ req[r].st = "none" /\ req[r] \in Requests
  BY DEF Mock!PutConfig, MockInv, MockTypes
<1>2. PICK t \in ConfigTexts :
        req' = [req EXCEPT ![r] = Mock!Answered(@, "config.json", t,
                                                IF Mock!FromJson(t) THEN 200 ELSE 400)]
  BY DEF Mock!PutConfig
<1>3. /\ req' \in [Req -> Requests] /\ req'[r].st = "done"
      /\ \A s \in Req : s # r => req'[s] = req[s]
  <2> DEFINE code == IF Mock!FromJson(t) THEN 200 ELSE 400
             done == Mock!Answered(req[r], "config.json", t, code)
  <2>1. code \in Nat /\ t \in Texts /\ "config.json" \in Mock!Path
    BY DEF Mock!MockAssumption, Mock!Path, Texts
  <2>2. req \in [Req -> Requests] /\ req' = [req EXCEPT ![r] = done]
    BY <1>2 DEF MockInv, MockTypes
  <2> HIDE DEF code
  <2>3. done \in Requests /\ done.st = "done"
    BY <1>1, <2>1, AnsweredRequest
  <2> HIDE DEF done
  <2> QED
    BY <2>2, <2>3
<1>4. \A q \in Mock!Path : Now(q) = Mock!Writing(q)
  BY <1>1, <1>3 DEF Now, Mock!Writing
<1>5. MockTypes' /\ InodeInv' /\ FillInv'
  BY <1>1, <1>3 DEF MockInv, MockTypes, InodeInv, FillInv
<1>6. WriterInv'
  <2> SUFFICES ASSUME NEW s \in Req, req'[s].st = "write"
               PROVE  /\ main' = "serve" /\ req'[s].ino \in 1 .. Len(disk')
                      /\ \A q \in Mock!Path : q # req'[s].path => inode'[q] # req'[s].ino
                      /\ req'[s].sole => /\ inode'[req'[s].path] = req'[s].ino
                                         /\ disk'[req'[s].ino] = <<>>
                                         /\ Now(req'[s].path) = {s}
    BY DEF Now, WriterInv, Mock!Writing
  <2>1. s # r /\ req'[s] = req[s] /\ req[s].path \in Mock!Path
    BY <1>3 DEF MockInv, MockTypes, Requests
  <2> QED
    BY <1>1, <1>4, <2>1 DEF MockInv, WriterInv
<1>7. QuietInv'
  <2> SUFFICES ASSUME NEW q \in Mock!Path, Now(q) = {}, last'[q] # Mock!None
               PROVE  inode'[q] # 0 /\ disk'[inode'[q]] = last'[q]
    BY DEF Now, QuietInv, Mock!None, Mock!Writing
  <2> QED
    BY <1>1, <1>4 DEF MockInv, QuietInv
<1> QED
  BY <1>5, <1>6, <1>7 DEF MockInv

\* No request writes while main() loads, saves or fills.
LEMMA NoWriter ==
  ASSUME MockInv, main # "serve"
  PROVE  /\ \A r \in Req : req[r].st # "write"
         /\ \A p \in Mock!Path : Mock!Writing(p) = {}
BY DEF MockInv, WriterInv, Mock!Writing

LEMMA StepMockLoad ==
  ASSUME MockInv, Mock!Load
  PROVE  MockInv'
<1>1. /\ config' = config /\ main' = "save" /\ main # "serve"
      /\ inode' = inode /\ disk' = disk /\ last' = last /\ req' = req
  BY DEF Mock!Load, Mock!FromJson
<1>2. (\A r \in Req : req[r].st # "write") /\ \A q \in Mock!Path : Mock!Writing(q) = {}
  BY <1>1, NoWriter
<1>3. MockTypes' /\ InodeInv' /\ WriterInv' /\ FillInv'
  BY <1>1, <1>2 DEF MockInv, MockTypes, InodeInv, WriterInv, FillInv
<1>4. QuietInv'
  BY <1>1, <1>2 DEF MockInv, QuietInv, Mock!None
<1> QED
  BY <1>3, <1>4 DEF MockInv

LEMMA StepMockSave ==
  ASSUME MockInv, Mock!Save
  PROVE  MockInv'
<1>0. PICK c \in Mock!Path : c = "config.json"
  BY DEF Mock!Path
<1>1. /\ main = "save" /\ main' = "fill" /\ Mock!OpenFile(c) /\ config' = config /\ req' = req
      /\ last' = [last EXCEPT ![c] = Mock!None] /\ Mock!None \in Texts
  BY <1>0 DEF Mock!Save, Mock!None, Texts
<1>2. \A r \in Req : req[r].st # "write"
  BY <1>1, NoWriter
<1>3. \A q \in Mock!Path : Mock!Writing(q) = {}
  BY <1>2 DEF Mock!Writing
<1>4. /\ disk' \in Seq(Texts) /\ inode' \in [Mock!Path -> Nat]
      /\ Len(disk) \in Nat /\ Len(disk') \in Nat /\ Len(disk) <= Len(disk')
      /\ inode'[c] \in 1 .. Len(disk') /\ disk'[inode'[c]] = <<>>
      /\ \A q \in Mock!Path : q # c => inode'[q] = inode[q] /\ inode'[q] # inode'[c]
      /\ \A k \in 1 .. Len(disk) : k # inode'[c] => disk'[k] = disk[k]
  BY <1>1, OpenedFile
<1>5. /\ last' \in [Mock!Path -> Texts] /\ last'[c] = Mock!None
      /\ \A q \in Mock!Path : q # c => last'[q] = last[q]
  BY <1>1 DEF MockInv, MockTypes
<1>6. MockTypes'
  BY <1>1, <1>4, <1>5 DEF MockInv, MockTypes
<1>7. InodeInv'
  <2>1. \A q \in Mock!Path : inode[q] \in Nat /\ inode[q] <= Len(disk)
    BY DEF MockInv, MockTypes, InodeInv
  <2>2. \A q \in Mock!Path : inode'[q] <= Len(disk')
    BY <1>4, <2>1
  <2>3. \A q, u \in Mock!Path : inode'[q] = inode'[u] /\ inode'[q] # 0 => q = u
    BY <1>4 DEF MockInv, InodeInv
  <2> QED
    BY <2>2, <2>3 DEF InodeInv
<1>8. WriterInv'
  BY <1>1, <1>2 DEF WriterInv
<1>9. FillInv'
  BY <1>0, <1>4, <1>5 DEF FillInv, Mock!None
<1>10. QuietInv'
  <2> SUFFICES ASSUME NEW q \in Mock!Path, last'[q] # Mock!None
               PROVE  inode'[q] # 0 /\ disk'[inode'[q]] = last'[q]
    BY DEF QuietInv, Mock!None
  <2>1. q # c /\ last[q] # Mock!None /\ Mock!Writing(q) = {}
    BY <1>3, <1>5
  <2>2. inode[q] # 0 /\ disk[inode[q]] = last[q] /\ inode[q] \in 1 .. Len(disk)
    BY <1>4, <2>1 DEF MockInv, MockTypes, InodeInv, QuietInv
  <2> QED
    BY <1>4, <1>5, <2>1, <2>2
<1> QED
  BY <1>6, <1>7, <1>8, <1>9, <1>10 DEF MockInv

LEMMA StepFill ==
  ASSUME MockInv, Mock!Fill
  PROVE  MockInv'
<1> DEFINE c == "config.json"
           k == inode[c]
<1>1. /\ main = "fill" /\ main' = "serve" /\ config' = config /\ inode' = inode /\ req' = req
      /\ c \in Mock!Path
  BY DEF Mock!Fill, Mock!Path
<1>2. /\ k # 0 /\ disk[k] = <<>> /\ last[c] = Mock!None /\ k \in 1 .. Len(disk)
      /\ last \in [Mock!Path -> Texts] /\ config \in Texts /\ Len(disk) \in Nat
  BY <1>1, LenProperties DEF MockInv, MockTypes, InodeInv, FillInv
<1>3. (\A r \in Req : req[r].st # "write") /\ \A q \in Mock!Path : Mock!Writing(q) = {}
  BY <1>1, NoWriter
<1>4. /\ disk' \in Seq(Texts) /\ Len(disk') = Len(disk)
      /\ \A j \in 1 .. Len(disk) : j # k => disk'[j] = disk[j]
      /\ last' \in [Mock!Path -> Texts] /\ \A q \in Mock!Path : q # c => last'[q] = last[q]
      /\ last'[c] # Mock!None => disk'[k] = last'[c]
  <2>1. CASE Mock!Filled(k, config) /\ last' = [last EXCEPT ![c] = config]
    BY <1>1, <1>2, <2>1, FilledFile
  <2>2. CASE disk' = disk /\ last' = last
    BY <1>2, <2>2 DEF MockInv, MockTypes
  <2> QED
    BY <2>1, <2>2 DEF Mock!Fill, Mock!DiskFull
<1> HIDE DEF c
<1>5. MockTypes' /\ InodeInv' /\ FillInv' /\ WriterInv'
  BY <1>1, <1>3, <1>4 DEF MockInv, MockTypes, InodeInv, FillInv, WriterInv
<1>6. QuietInv'
  <2> SUFFICES ASSUME NEW q \in Mock!Path, last'[q] # Mock!None
               PROVE  inode'[q] # 0 /\ disk'[inode'[q]] = last'[q]
    BY DEF QuietInv, Mock!None
  <2>1. CASE q = c
    BY <1>1, <1>2, <1>4, <2>1
  <2>2. CASE q # c
    <3>1. inode[q] # 0 /\ disk[inode[q]] = last[q] /\ inode[q] # k /\ inode[q] \in 1 .. Len(disk)
      BY <1>1, <1>2, <1>3, <1>4, <2>2 DEF MockInv, MockTypes, InodeInv, QuietInv
    <3> QED
      BY <1>1, <1>4, <2>2, <3>1
  <2> QED
    BY <2>1, <2>2
<1> QED
  BY <1>5, <1>6 DEF MockInv

LEMMA StepKill ==
  ASSUME MockInv, Mock!Kill
  PROVE  MockInv'
<1>1. /\ main' = "load" /\ config' = Mock!DefaultText /\ inode' = inode /\ disk' = disk
      /\ last' = [p \in Mock!Path |-> IF Mock!Writing(p) = {} THEN last[p] ELSE Mock!None]
      /\ req' = [r \in Req |-> IF req[r].st = "write" THEN [req[r] EXCEPT !.st = "done"]
                               ELSE req[r]]
  BY DEF Mock!Kill
<1>2. Mock!DefaultText \in Texts /\ Mock!None \in Texts
  BY DEF Mock!DefaultText, Mock!None, Texts
<1>3. \A r \in Req : req'[r] \in Requests /\ req'[r].st # "write"
  <2> SUFFICES ASSUME NEW r \in Req PROVE req'[r] \in Requests /\ req'[r].st # "write"
    OBVIOUS
  <2>1. req[r] \in Requests
    BY DEF MockInv, MockTypes
  <2>2. CASE req[r].st = "write"
    <3>1. req'[r] = [req[r] EXCEPT !.st = "done"]
      BY <1>1, <2>2
    <3> QED
      BY <2>1, <3>1 DEF Requests
  <2>3. CASE req[r].st # "write"
    BY <1>1, <2>1, <2>3
  <2> QED
    BY <2>2, <2>3
<1>4. req' \in [Req -> Requests]
  BY <1>1, <1>3
<1>5. MockTypes'
  BY <1>1, <1>2, <1>4 DEF MockInv, MockTypes
<1>6. InodeInv' /\ WriterInv' /\ FillInv'
  BY <1>1, <1>3 DEF MockInv, InodeInv, WriterInv, FillInv
<1>7. QuietInv'
  <2> SUFFICES ASSUME NEW q \in Mock!Path, last'[q] # Mock!None
               PROVE  inode'[q] # 0 /\ disk'[inode'[q]] = last'[q]
    BY DEF QuietInv, Mock!None
  <2>1. Mock!Writing(q) = {} /\ last'[q] = last[q]
    BY <1>1
  <2> QED
    BY <1>1, <2>1 DEF MockInv, QuietInv
<1> QED
  BY <1>5, <1>6, <1>7 DEF MockInv

\* A file nothing writes holds all of the last upload and nothing else, if no other change
\* of it overlapped that upload: for every set of requests and of uploads, in every order
\* of opening, writing, closing and deleting, and through every kill.
THEOREM QuietFileIsWhole ==
  ASSUME Mock!MockAssumption
  PROVE  Mock!Spec => []QuietFileIsUpload
<1>1. Mock!Init => MockInv
  <2> SUFFICES ASSUME Mock!Init PROVE MockInv
    OBVIOUS
  <2>1. /\ main = "load" /\ config = Mock!DefaultText /\ inode = [p \in Mock!Path |-> 0]
        /\ disk = <<>> /\ req = [r \in Req |-> Mock!Idle]
        /\ last = [p \in Mock!Path |-> Mock!None]
    BY DEF Mock!Init
  <2>2. Mock!DefaultText \in Texts /\ Mock!None \in Texts /\ <<>> \in Texts /\ <<>> \in Seq(Texts)
        /\ Len(<<>>) = 0
    BY EmptySeq DEF Mock!DefaultText, Mock!None, Texts
  <2>3. Mock!Idle \in Requests /\ Mock!Idle.st = "none"
    BY <2>2 DEF Mock!Idle, Requests, Mock!Path
  <2>4. MockTypes
    BY <2>1, <2>2, <2>3 DEF MockTypes
  <2>5. InodeInv /\ WriterInv /\ FillInv /\ QuietInv
    BY <2>1, <2>2, <2>3 DEF InodeInv, WriterInv, FillInv, QuietInv
  <2> QED
    BY <2>4, <2>5 DEF MockInv
<1>2. MockInv /\ [Mock!Next]_(Mock!vars) => MockInv'
  <2> SUFFICES ASSUME MockInv, [Mock!Next]_(Mock!vars) PROVE MockInv'
    OBVIOUS
  <2>1. ASSUME NEW r \in Req, Mock!Upload(r) PROVE MockInv'
    <3>1. PICK p \in Mock!Path, t \in Content : Mock!Begin(r, p, t) /\ config' = config
      BY <2>1 DEF Mock!Upload
    <3>2. t \in Texts /\ config' \in Texts
      BY <3>1 DEF Mock!MockAssumption, Texts, MockInv, MockTypes
    <3> QED
      BY <3>1, <3>2, StepBegin
  <2>2. ASSUME NEW r \in Req, Mock!Reset(r) PROVE MockInv'
    <3>1. Mock!DefaultText \in Texts /\ "config.json" \in Mock!Path
      BY DEF Mock!DefaultText, Texts, Mock!Path
    <3>2. Mock!Begin(r, "config.json", Mock!DefaultText) /\ config' = Mock!DefaultText
      BY <2>2 DEF Mock!Reset
    <3> QED
      BY <3>1, <3>2, StepBegin
  <2>3. CASE UNCHANGED Mock!vars
    BY <2>3 DEF Mock!vars, MockInv, MockTypes, InodeInv, WriterInv, FillInv, QuietInv,
                Mock!Writing, Mock!None
  <2>4. ASSUME Mock!Load \/ Mock!Save \/ Mock!Fill \/ Mock!Kill PROVE MockInv'
    BY <2>4, StepMockLoad, StepMockSave, StepFill, StepKill
  <2>5. ASSUME NEW r \in Req, Mock!Write(r) \/ Mock!Delete(r) \/ Mock!PutConfig(r) PROVE MockInv'
    BY <2>5, StepWrite, StepDelete, StepPut
  <2> QED
    BY <2>1, <2>2, <2>3, <2>4, <2>5 DEF Mock!Next
<1>3. MockInv => QuietFileIsUpload
  BY DEF MockInv, QuietInv, QuietFileIsUpload, Mock!QuietFileIsUpload, Mock!Of
<1> QED
  BY <1>1, <1>2, <1>3, PTL DEF Mock!Spec

===============================================================================
