------------------------------ MODULE CaptiveDNS -------------------------------
(***************************************************************************)
(* The captive portal's DNS server, sw/src/captiveDNS.cpp: start() and       *)
(* stop(), the thread between them and the replies it makes.  A caller that *)
(* opens the access point starts it and stops it with it; main() does not   *)
(* yet.                                                                     *)
(*                                                                          *)
(* A query is its question types and whether an OPT record follows them     *)
(* (EDNS).  Sockets are numbered as they are opened.  The thread is above   *)
(* its caller (K_PRIO_COOP): the caller steps only while every DNS thread   *)
(* waits, in recvfrom or in a sendto that waits for a buffer.  The clients  *)
(* and the network stack, zsock_*, are external: closing a socket wakes     *)
(* who receives from it.                                                    *)
(***************************************************************************)
EXTENDS Integers, SequencesExt

CONSTANTS
  Queries,        \* [questions, edns]
  Room,           \* answers that fit txBuf after a query
  MaxStarts, MaxQueries  \* bounds on start() and on queries

DNSAssumption ==
  /\ \A q \in Queries : q.questions \in Seq({"A", "other"}) /\ q.edns \in BOOLEAN
  /\ Room \in Nat /\ MaxStarts \in Nat /\ MaxQueries \in Nat

VARIABLES
  caller,         \* where start() or stop() is
  running,        \* CaptiveDNS::running
  dnsRunning, dnsSock,  \* 0 for the code's -1
  opened,         \* sockets opened so far
  threads,        \* [thread -> where it is]: more than one only if the object is created
                  \* again while its thread lives
  rxBuf,          \* [thread -> the query it holds]
  inbox,          \* queries that wait at the socket
  sent,           \* the last query and its reply
  queries,        \* so many have come
  late            \* history: a join has ended while its thread was sending

caps == <<caller, running, dnsRunning, dnsSock, opened, late>>
work == <<threads, rxBuf, sent>>
vars == <<caps, work, inbox, queries>>

-------------------------------------------------------------------------------
(* buildDNSResponse(). *)

NoQuery == [questions |-> <<>>, edns |-> FALSE]

\* An answer for every A question, of which those are added that fit
Answered(q) == [i \in 1 .. Cardinality({i \in DOMAIN q.questions : q.questions[i] = "A"}) |-> "A"]

Fitting(s) == SubSeq(s, 1, IF Len(s) < Room THEN Len(s) ELSE Room)

\* The header says one answer for each question; after the copied question section comes
\* whatever the query had there, then the answers.
buildDNSResponse(q) ==
  [qdcount |-> Len(q.questions), ancount |-> Len(q.questions), arcount |-> 0,
   records |-> (IF q.edns THEN <<"OPT">> ELSE <<>>) \o Fitting(Answered(q))]

\* Mutant of Reply: the header of the query is left as it came.
ReplyUncounted(q) == [buildDNSResponse(q) EXCEPT !.ancount = 0]

Reply(q) == buildDNSResponse(q)

-------------------------------------------------------------------------------
Init ==
  /\ caller = "idle" /\ running = FALSE /\ dnsRunning = FALSE
  /\ dnsSock = 0 /\ opened = 0 /\ late = FALSE
  /\ threads = <<>> /\ rxBuf = <<>>
  /\ inbox = <<>> /\ queries = 0
  /\ sent = [query |-> NoQuery, reply |-> Reply(NoQuery)]

Alive == {t \in DOMAIN threads : threads[t] # "exited"}

\* The threads wait: for a query that is not there, or for a buffer.
CallerRuns ==
  \A t \in Alive : \/ threads[t] = "send"
                   \/ threads[t] = "recv" /\ inbox = <<>> /\ dnsSock # 0

-------------------------------------------------------------------------------
(* CaptiveDNS::start().  Parsing a bad address and a failing socket or bind return an *)
(* error with nothing changed. *)

Open ==
  /\ CallerRuns /\ caller = "idle" /\ ~running /\ opened < MaxStarts
  /\ opened' = opened + 1 /\ dnsSock' = opened' /\ inbox' = <<>>
  /\ caller' = "create"
  /\ UNCHANGED <<running, dnsRunning, late, work, queries>>

\* Mutant of Create: the thread, which is above its caller, runs before dnsRunning is set.
CreateFirst ==
  /\ CallerRuns /\ caller = "create"
  /\ dnsRunning' = TRUE
  /\ threads' = Append(threads, "exited") /\ rxBuf' = Append(rxBuf, NoQuery)
  /\ caller' = "created"
  /\ UNCHANGED <<running, dnsSock, opened, late, sent, inbox, queries>>

Create ==
  /\ CallerRuns /\ caller = "create"
  /\ dnsRunning' = TRUE
  /\ threads' = Append(threads, "top") /\ rxBuf' = Append(rxBuf, NoQuery)
  /\ caller' = "created"
  /\ UNCHANGED <<running, dnsSock, opened, late, sent, inbox, queries>>

Started ==
  /\ CallerRuns /\ caller = "created" /\ caller' = "idle"
  /\ running' = TRUE
  /\ UNCHANGED <<dnsRunning, dnsSock, opened, late, work, inbox, queries>>

-------------------------------------------------------------------------------
(* CaptiveDNS::stop(). *)

\* Mutant of Close: the socket stays open.
CloseNot ==
  /\ CallerRuns /\ caller = "idle" /\ running
  /\ dnsRunning' = FALSE
  /\ caller' = "join"
  /\ UNCHANGED <<running, dnsSock, opened, late, work, inbox, queries>>

Close ==
  /\ CallerRuns /\ caller = "idle" /\ running
  /\ dnsRunning' = FALSE /\ dnsSock' = 0 /\ inbox' = <<>>
  /\ caller' = "join"
  /\ UNCHANGED <<running, opened, late, work, queries>>

\* k_thread_join waits for the thread, or two seconds; a sendto may wait for longer.
Join ==
  /\ caller = "join" /\ caller' = "idle"
  /\ threads[Len(threads)] = "exited" \/ CallerRuns
  /\ running' = FALSE
  /\ late' = (late \/ threads[Len(threads)] = "send")
  /\ UNCHANGED <<dnsRunning, dnsSock, opened, work, inbox, queries>>

-------------------------------------------------------------------------------
(* dnsThreadFn(). *)

At(t, from, to) == threads[t] = from /\ threads' = [threads EXCEPT ![t] = to]

Top(t) ==
  /\ At(t, "top", IF dnsRunning THEN "recv" ELSE "exited")
  /\ UNCHANGED <<caps, rxBuf, sent, inbox, queries>>

\* A query, or an error because the socket is closed.
Receive(t) ==
  /\ \/ /\ inbox # <<>> /\ dnsSock # 0
        /\ At(t, "recv", "send")
        /\ rxBuf' = [rxBuf EXCEPT ![t] = Head(inbox)]
        /\ inbox' = Tail(inbox)
     \/ /\ dnsSock = 0
        /\ At(t, "recv", "top")
        /\ UNCHANGED <<rxBuf, inbox>>
  /\ UNCHANGED <<caps, sent, queries>>

\* sendto, and nothing if the socket is closed.
Send(t) ==
  /\ At(t, "send", "top")
  /\ sent' = IF dnsSock = 0 THEN sent ELSE [query |-> rxBuf[t], reply |-> Reply(rxBuf[t])]
  /\ UNCHANGED <<caps, rxBuf, inbox, queries>>

Thread(t) == Top(t) \/ Receive(t) \/ Send(t)

-------------------------------------------------------------------------------
\* A client asks; the socket keeps few.
Ask ==
  /\ dnsSock # 0 /\ queries < MaxQueries /\ queries' = queries + 1
  /\ \E q \in Queries : inbox' = Append(inbox, q)
  /\ UNCHANGED <<caps, work>>

Next == \/ Open \/ Create \/ Started \/ Close \/ Join
        \/ \E t \in DOMAIN threads : Thread(t)
        \/ Ask

Spec == Init /\ [][Next]_vars

-------------------------------------------------------------------------------
(* Properties. *)

\* Types; a reply fits its buffer.
TypeOK ==
  /\ caller \in {"idle", "create", "created", "join"}
  /\ running \in BOOLEAN /\ dnsRunning \in BOOLEAN
  /\ dnsSock \in 0 .. opened /\ opened \in 0 .. MaxStarts
  /\ \A t \in DOMAIN threads : threads[t] \in {"top", "recv", "send", "exited"}
  /\ DOMAIN rxBuf = DOMAIN threads
  /\ \A i \in DOMAIN inbox : inbox[i] \in Queries
  /\ Len(sent.reply.records) <= Room + (IF sent.query.edns THEN 1 ELSE 0)
  /\ late \in BOOLEAN

\* Unless stop() gave up on a thread that was sending, there is one thread at most; it lives
\* once start() has returned and is gone once stop() has (captiveDNS.cpp:224-233, 236-250).
OneThread ==
  ~late => /\ \A s, t \in Alive : s = t
           /\ caller = "idle" => (Alive # {}) = running

\* What a resolver reads of a reply: as many records as the header says, and they are
\* the answers.
Parses(reply) ==
  /\ Len(reply.records) = reply.ancount + reply.arcount
  /\ \A i \in 1 .. reply.ancount : reply.records[i] = "A"

\* A query for addresses alone, without EDNS, gets a reply that can be read
\* (captiveDNS.cpp:93, "Only respond to A record queries (type 1)").
Plain(q) == ~q.edns /\ Len(q.questions) <= Room /\ \A i \in DOMAIN q.questions : q.questions[i] = "A"
PlainQueryAnswered == Plain(sent.query) => Parses(sent.reply)

\* Every reply can be read (captiveDNS.cpp:71, "Answer each question").
ReplyParses == Parses(sent.reply)

\* Once stop() has said so, the server is stopped (captiveDNS.cpp:253, "Captive DNS server
\* stopped").
StoppedIsOver == caller = "idle" /\ ~running => Alive = {}

================================================================================
