------------------------------- MODULE WebServer -------------------------------
(***************************************************************************)
(* The device's HTTP server (sw/src/webserver.cpp): one thread that accepts *)
(* a connection, receives a request into its one buffer, handles it and     *)
(* closes; the configuration in RAM and its record in NVS; the files.       *)
(*                                                                          *)
(* A request is a sequence of units: its request line, the Content-Length   *)
(* header, the blank line and the body, of which a unit is a field of the   *)
(* configuration or a piece of a file.  TCP cuts it anywhere.  A            *)
(* configuration has two fields: `station' for the call sign, grid, power,  *)
(* mode, interval and band list, `bands' for the switches of the bands.     *)
(* There is one file.  Status, version, listing, static pages and the       *)
(* TX-trigger stub only read and answer, and are left out.  NVS, LittleFS   *)
(* and TCP are external.                                                    *)
(***************************************************************************)
EXTENDS Integers, SequencesExt

CONSTANTS
  Client,
  Setting,        \* values of a field of the configuration, without the default 0
  Content,        \* what clients upload: sequences of pieces, positive numbers
  Room,           \* MAX_REQUEST_SIZE - 1, in units
  Scenarios       \* the worlds the server is put in, see Scenario

\* What clients ask for; what the world may do to the server: fail it, cut the head
\* of a request into segments, leave it the record of another firmware; and bounds
\* on the requests, failures and restarts to come.
Kind == {"putConfig", "getConfig", "putFile", "getFile", "deleteFile"}
Hardship == {"stall", "nvs", "mount", "file", "cut", "record"}
Scenario == [kinds : SUBSET Kind, may : SUBSET Hardship,
             requests : Nat, failures : Nat, restarts : Nat]

ASSUME ServerAssumption ==
  /\ Setting \subseteq Nat \ {0} /\ Content \subseteq Seq(Nat \ {0})
  /\ Room \in Nat /\ Room >= 5 /\ Scenarios \subseteq Scenario

VARIABLES
  \* clients
  conn,        \* [Client -> [open, op, answer]]: its request, and the last answer
  wire,        \* [Client -> the units not yet received]
  backlog,     \* connections not yet accepted
  \* the server thread
  pc,          \* its place; the name of a handler while it is in one
  cur,         \* the client it serves
  buf,         \* reqBuf, one cell for each unit and one for the last NUL
  total,       \* totalLen
  want, have,  \* contentLen (0 when the loop is not entered), curBodyLen
  appConfig,
  \* flash
  nvs,         \* the record: [layout |-> none, own or other, cfg]
  nvsReady,    \* the NVS is mounted
  file,        \* [exists, data]
  \* the world and history
  world,       \* the scenario, its bounds counted down
  nvsFailed    \* a write to NVS has failed since it last succeeded

connVars == <<conn, wire, backlog>>
recvVars == <<cur, buf, total, want, have>>
flashVars == <<nvs, nvsReady, file>>
histVars == <<world, nvsFailed>>
vars == <<conn, wire, backlog, pc, cur, buf, total, want, have, appConfig,
          nvs, nvsReady, file, world, nvsFailed>>

-------------------------------------------------------------------------------
(* Requests. *)

Unit(u, v) == [u |-> u, v |-> v]
NUL == Unit("nul", 0)

Default == [station |-> 0, bands |-> 0]
Config == [station : Setting, bands : Setting]

NoOp == [kind |-> "none", cfg |-> Default, data |-> <<>>]
Ops(kinds) ==
  {[NoOp EXCEPT !.kind = k] : k \in kinds \ {"putConfig", "putFile"}} \union
  {[NoOp EXCEPT !.kind = "putConfig", !.cfg = c] :
      c \in {d \in Config : "putConfig" \in kinds /\ d.station = d.bands}} \union
  {[NoOp EXCEPT !.kind = "putFile", !.data = d] : d \in {e \in Content : "putFile" \in kinds}}

Body(op) == IF op.kind = "putConfig"
            THEN <<Unit("station", op.cfg.station), Unit("bands", op.cfg.bands)>>
            ELSE [i \in DOMAIN op.data |-> Unit("data", op.data[i])]
IsPut(u) == u \in {"putConfig", "putFile"}
Head3(op) == <<Unit(op.kind, 0), Unit("length", Len(Body(op))), Unit("blank", 0)>>
Request(op) == IF IsPut(op.kind) THEN Head3(op) \o Body(op) ELSE <<Unit(op.kind, 0), Unit("blank", 0)>>
HeadLen(op) == Len(Request(op)) - Len(Body(op))

-------------------------------------------------------------------------------
(* The buffer. *)

Cells == 1 .. Room + 1
Empty == [i \in Cells |-> NUL]
Text(b) == SubSeq(b, 1, (CHOOSE i \in Cells : b[i] = NUL /\ \A j \in 1 .. i - 1 : b[j] # NUL) - 1)
Has(s, u) == \E i \in DOMAIN s : s[i].u = u
First(s, u) == CHOOSE i \in DOMAIN s : s[i].u = u /\ \A j \in 1 .. i - 1 : s[j].u # u

\* Mutant of Store: the text is not ended after what was received.
StoreOpen(b, at, s) == [i \in Cells |-> IF i - at \in DOMAIN s THEN s[i - at] ELSE b[i]]

\* zsock_recv at reqBufPtr + at, and the NUL after it.
Store(b, at, s) == [i \in Cells |-> IF i - at \in DOMAIN s THEN s[i - at]
                                    ELSE IF i = at + Len(s) + 1 THEN NUL ELSE b[i]]

\* What follows the head in the text, nothing if its end has not come.
BodyOf(s) == IF Has(s, "blank") THEN SubSeq(s, First(s, "blank") + 1, Len(s)) ELSE <<>>

-------------------------------------------------------------------------------
Answer(s) == [s |-> s, cfg |-> Default, data |-> <<>>]

Init ==
  /\ conn = [c \in Client |-> [open |-> FALSE, op |-> NoOp, answer |-> Answer("none")]]
  /\ wire = [c \in Client |-> <<>>] /\ backlog = <<>>
  /\ pc = "boot" /\ cur \in Client /\ buf = Empty /\ total = 0 /\ want = 0 /\ have = 0
  /\ appConfig = Default
  /\ world \in Scenarios
  /\ nvs \in {[layout |-> "none", cfg |-> Default]} \union
             [layout : {l \in {"other"} : "record" \in world.may}, cfg : {[station |-> 9, bands |-> 9]}]
  /\ nvsReady = FALSE
  /\ file = [exists |-> FALSE, data |-> <<>>]
  /\ nvsFailed = FALSE

\* A failure of the environment, within the bound.
Fault(f) == /\ f \in world.may /\ world.failures > 0
            /\ world' = [world EXCEPT !.failures = @ - 1]

\* Clients connect once the server listens.
Ask(c) ==
  /\ pc # "boot" /\ ~conn[c].open /\ world.requests > 0
  /\ \E op \in Ops(world.kinds) :
       /\ conn' = [conn EXCEPT ![c] = [open |-> TRUE, op |-> op, answer |-> Answer("none")]]
       /\ wire' = [wire EXCEPT ![c] = Request(op)]
  /\ backlog' = Append(backlog, c)
  /\ world' = [world EXCEPT !.requests = @ - 1]
  /\ UNCHANGED <<pc, recvVars, appConfig, flashVars, nvsFailed>>

\* The rest of a request comes too late, or never: SO_RCVTIMEO is 2 s.
Stall(c) ==
  /\ wire[c] # <<>> /\ Fault("stall")
  /\ wire' = [wire EXCEPT ![c] = <<>>]
  /\ UNCHANGED <<conn, backlog, pc, recvVars, appConfig, flashVars, nvsFailed>>

-------------------------------------------------------------------------------
(* serverThreadFn(): receiving. *)

InServer == UNCHANGED <<appConfig, flashVars, histVars>>

\* zsock_accept
Accept ==
  /\ pc = "accept" /\ backlog # <<>>
  /\ cur' = Head(backlog) /\ backlog' = Tail(backlog)
  /\ pc' = "recv"
  /\ UNCHANGED <<conn, wire, buf, total, want, have>> /\ InServer

\* MAX_REQUEST_SIZE - 1 less what is there
Space(used) == Room - used

\* The units one zsock_recv may return, and their effect.
Arrives(k) ==
  /\ buf' = Store(buf, total, SubSeq(wire[cur], 1, k))
  /\ total' = total + k
  /\ wire' = [wire EXCEPT ![cur] = SubSeq(@, k + 1, Len(@))]

\* The first recv decides whether more is waited for and how much has come.
RecvFirst ==
  /\ pc = "recv"
  /\ \E k \in 1 .. Len(wire[cur]) :
       /\ k <= Space(0) /\ ("cut" \notin world.may => k >= HeadLen(conn[cur].op))
       /\ Arrives(k)
       /\ LET text == SubSeq(wire[cur], 1, k)
          IN  /\ want' = IF IsPut(text[1].u) /\ Has(text, "length")
                         THEN text[First(text, "length")].v ELSE 0
              /\ have' = Len(BodyOf(text))
  /\ pc' = "more"
  /\ UNCHANGED <<conn, backlog, cur>> /\ InServer

\* Nothing comes: the connection is closed without an answer.
RecvNothing ==
  /\ pc = "recv" /\ wire[cur] = <<>>
  /\ pc' = "accept"
  /\ conn' = [conn EXCEPT ![cur].open = FALSE, ![cur].answer = Answer("lost")]
  /\ UNCHANGED <<wire, backlog, recvVars>> /\ InServer

MoreNeeded == have < want /\ Space(total) > 0

RecvMore ==
  /\ pc = "more" /\ MoreNeeded
  /\ \E k \in 1 .. Len(wire[cur]) :
       k <= Space(total) /\ Arrives(k) /\ have' = have + k
  /\ UNCHANGED <<conn, backlog, pc, cur, want>> /\ InServer

\* Mutant of LoopEnds: a time-out does not leave the loop.
LoopEndsFull == ~MoreNeeded

\* Mutant of LoopEnds: any piece of the body is taken for all of it.
LoopEndsEarly == have > 0 \/ ~MoreNeeded \/ wire[cur] = <<>>

\* All has come, the buffer is full, or a recv times out.
LoopEnds == ~MoreNeeded \/ wire[cur] = <<>>

\* handleRequest(): the request line names the handler.
Dispatch ==
  /\ pc = "more" /\ LoopEnds
  /\ pc' = buf[1].u
  /\ UNCHANGED <<connVars, recvVars>> /\ InServer

\* The answer, which a handler leaves in conn, is sent and the connection closed.
Close ==
  /\ pc = "close" /\ pc' = "accept"
  /\ conn' = [conn EXCEPT ![cur].open = FALSE]
  /\ wire' = [wire EXCEPT ![cur] = <<>>]
  /\ total' = 0
  /\ UNCHANGED <<backlog, cur, buf, want, have>> /\ InServer

Replies(a) == pc' = "close" /\ conn' = [conn EXCEPT ![cur].answer = a]

-------------------------------------------------------------------------------
(* The configuration. *)

\* handleAPIConfigPut(): each field that is found is taken.
Given(body, f) == IF Has(body, f) THEN body[First(body, f)].v ELSE appConfig[f]
PutConfig ==
  /\ pc = "putConfig" /\ pc' = "save"
  /\ LET body == BodyOf(Text(buf))
     IN  appConfig' = [f \in DOMAIN appConfig |-> Given(body, f)]
  /\ UNCHANGED <<connVars, recvVars, flashVars, histVars>>

\* Mutant of SaveConfig: only the fields of the station are written.
SaveStation ==
  /\ pc = "save"
  /\ nvs' = [layout |-> "own", cfg |-> [nvs.cfg EXCEPT !.station = appConfig.station]]
  /\ nvsFailed' = FALSE /\ UNCHANGED world
  /\ Replies(Answer("ok"))
  /\ UNCHANGED <<wire, backlog, recvVars, appConfig, nvsReady, file>>

\* saveConfigToNVS() reports a failure to the log alone.
SaveConfig ==
  /\ pc = "save"
  /\ \/ /\ nvsReady
        /\ nvs' = [layout |-> "own", cfg |-> appConfig] /\ nvsFailed' = FALSE
        /\ UNCHANGED world
     \/ /\ IF nvsReady THEN Fault("nvs") ELSE UNCHANGED world
        /\ nvsFailed' = TRUE /\ UNCHANGED nvs
  /\ Replies(Answer("ok"))
  /\ UNCHANGED <<wire, backlog, recvVars, appConfig, nvsReady, file>>

\* handleAPIConfigGet() builds its answer in reqBuf.
GetConfig ==
  /\ pc = "getConfig"
  /\ buf' = Store(buf, 0, <<Unit("station", appConfig.station), Unit("bands", appConfig.bands)>>)
  /\ Replies([Answer("config") EXCEPT !.cfg = appConfig])
  /\ UNCHANGED <<wire, backlog, cur, total, want, have>> /\ InServer

-------------------------------------------------------------------------------
(* Files. *)

\* Mutant of Overlay: the file is cut to what is written.
Replaced(old, new) == new

\* fs_write at the start of a file that FS_O_CREATE | FS_O_WRITE does not truncate.
Overlay(old, new) == new \o SubSeq(old, Len(new) + 1, Len(old))

\* handleAPIFilePut(): fs_open creates the file.
PutFile ==
  /\ pc = "putFile"
  /\ \/ /\ file' = [file EXCEPT !.exists = TRUE]
        /\ pc' = "writeFile" /\ UNCHANGED <<conn, world>>
     \/ Fault("file") /\ Replies(Answer("500")) /\ UNCHANGED file
  /\ UNCHANGED <<wire, backlog, recvVars, appConfig, nvs, nvsReady, nvsFailed>>

\* The bytes that came, fs_write's and fs_close's results unread; LittleFS keeps
\* a file as it was until it is closed.
WriteFile ==
  /\ pc = "writeFile"
  /\ LET body == BodyOf(SubSeq(buf, 1, total))
         data == [i \in DOMAIN body |-> body[i].v]
     IN  \/ file' = [file EXCEPT !.data = Overlay(@, data)] /\ UNCHANGED world
         \/ Fault("file") /\ UNCHANGED file
  /\ Replies(Answer("ok"))
  /\ UNCHANGED <<wire, backlog, recvVars, appConfig, nvs, nvsReady, nvsFailed>>

\* handleAPIFileGet(): fs_open or fs_stat may fail; the pieces go through reqBuf.
GetFile ==
  /\ pc = "getFile"
  /\ \/ ~file.exists /\ Replies(Answer("404")) /\ UNCHANGED <<buf, world>>
     \/ /\ file.exists /\ Fault("file") /\ UNCHANGED buf
        /\ \E s \in {"404", "500"} : Replies(Answer(s))
     \/ /\ file.exists /\ Replies([Answer("file") EXCEPT !.data = file.data])
        /\ buf' = [i \in Cells |-> IF i \in DOMAIN file.data THEN Unit("data", file.data[i]) ELSE buf[i]]
        /\ UNCHANGED world
  /\ UNCHANGED <<wire, backlog, cur, total, want, have, appConfig, flashVars, nvsFailed>>

DeleteFile ==
  /\ pc = "deleteFile"
  /\ file' = [exists |-> FALSE, data |-> <<>>]
  /\ Replies(Answer(IF file.exists THEN "ok" ELSE "404"))
  /\ UNCHANGED <<wire, backlog, recvVars, appConfig, nvs, nvsReady, histVars>>

-------------------------------------------------------------------------------
(* Power and start. *)

\* The power goes, or the console's reboot: RAM and connections are lost.
Restart ==
  /\ pc # "boot" /\ world.restarts > 0
  /\ world' = [world EXCEPT !.restarts = @ - 1]
  /\ pc' = "boot" /\ buf' = Empty /\ total' = 0 /\ want' = 0 /\ have' = 0
  /\ appConfig' = Default /\ nvsReady' = FALSE /\ backlog' = <<>>
  /\ wire' = [c \in Client |-> <<>>]
  /\ conn' = [c \in Client |-> IF conn[c].open
                               THEN [conn[c] EXCEPT !.open = FALSE, !.answer = Answer("lost")]
                               ELSE conn[c]]
  /\ UNCHANGED <<cur, nvs, file, nvsFailed>>

\* Mutant of Read: the record is not read back.
ReadNothing(rec) == Default

\* nvs_read copies what fits of a record, whatever its length.
Read(rec) == IF rec.layout = "none" THEN Default ELSE rec.cfg

\* WebServer::init(), loadConfigFromNVS(), and start().
Boot ==
  /\ pc = "boot" /\ pc' = "accept"
  /\ \/ nvsReady' = TRUE /\ appConfig' = Read(nvs) /\ UNCHANGED world
     \/ Fault("mount") /\ UNCHANGED <<nvsReady, appConfig>>
  /\ UNCHANGED <<connVars, recvVars, nvs, file, nvsFailed>>

Serve == \/ Boot \/ Accept \/ RecvFirst \/ RecvNothing \/ RecvMore \/ Dispatch \/ Close
         \/ PutConfig \/ SaveConfig \/ GetConfig
         \/ PutFile \/ WriteFile \/ GetFile \/ DeleteFile

Next == Serve \/ Restart \/ \E c \in Client : Ask(c) \/ Stall(c)

\* The thread goes on: a recv returns or times out.
Spec == Init /\ [][Next]_vars /\ WF_vars(Serve)

-------------------------------------------------------------------------------
(* Properties. *)

\* Types of the server's and of the flash's state.
TypeOK ==
  /\ pc \in {"boot", "accept", "recv", "more", "save", "writeFile", "close"} \union Kind
  /\ cur \in Client /\ total \in 0 .. Room /\ want \in Nat /\ have \in 0 .. Room
  /\ appConfig \in [station : Nat, bands : Nat]
  /\ nvs \in [layout : {"none", "own", "other"}, cfg : [station : Nat, bands : Nat]]
  /\ file.exists \in BOOLEAN /\ (file.data # <<>> => file.exists)
  /\ world \in Scenario

\* A handler works on the request at hand: its text is the beginning of what the
\* client sent, whatever request and answer the buffer held before
\* (webserver.cpp:630-651).
Handling == pc \in Kind \union {"more"}
OwnBytes == Handling => Text(buf) = SubSeq(Request(conn[cur].op), 1, total)

\* Between requests the configuration in use is the one a restart would bring back,
\* as long as NVS takes its writes (webserver.cpp:203-243).
UsedIsStored == pc = "accept" /\ nvsReady /\ ~nvsFailed => appConfig = Read(nvs)

\* Every client is answered or let go: no silent client holds the one thread for
\* good (webserver.cpp:628, 643).
EveryoneServed == \A c \in Client : conn[c].open ~> ~conn[c].open

\* While nothing fails and heads come whole, the configuration is a store that keeps
\* what it acknowledged, across restarts and whatever is asked between
\* (webserver.cpp:203-243, 342-370).  In the other scenarios, whose world is not calm,
\* the store is left idle: `world.may' never changes.
Calm == world.may = {}
Seen(c) ==
  LET k == conn[c].op.kind
      op == [kind |-> CASE k = "putConfig" -> "put" [] k = "getConfig" -> "get" [] OTHER -> "other",
             cfg |-> conn[c].op.cfg]
      a == conn[c].answer
  IN  [st |-> IF ~conn[c].open THEN "idle" ELSE IF a.s = "none" THEN "sent" ELSE "done",
       op |-> op,
       answer |-> IF a.s \in {"none", "lost"} THEN [s |-> "none", v |-> Default]
                  ELSE IF op.kind = "other" THEN [s |-> "other", v |-> Default]
                  ELSE [s |-> a.s, v |-> a.cfg]]
Unused == [st |-> "idle", op |-> [kind |-> "other", cfg |-> Default],
           answer |-> [s |-> "none", v |-> Default]]
Store0 == INSTANCE ConfigStore WITH
            stored <- IF Calm THEN Read(nvs) ELSE Default,
            call <- [c \in Client |-> IF Calm THEN Seen(c) ELSE Unused]
ImplementsConfigStore == Store0!Spec

Acknowledges(c, kind) == /\ conn[c].open /\ ~conn'[c].open
                         /\ conn[c].op.kind = kind /\ conn'[c].answer.s = "ok"

\* An acknowledged upload that fits the buffer is what the file begins with, in however
\* many segments it came and whatever the file, or the buffer, held before; a longer
\* old file keeps its tail (webserver.cpp:433-449, 639-651).
Fits(op) == Len(Request(op)) <= Room
FittingUploadLeads ==
  [][\A c \in Client : Calm /\ Acknowledges(c, "putFile") /\ Fits(conn[c].op)
       => IsPrefix(conn[c].op.data, file.data)]_vars

\* A configuration that is answered with ok is in NVS (doc/SYSTEM_NOTES.md:68).
AckedIsStored ==
  [][\A c \in Client : Acknowledges(c, "putConfig") => Read(nvs) = conn[c].op.cfg]_vars

\* An upload that is answered with ok is the file (webserver.cpp:448, `File written').
UploadIsFile ==
  [][\A c \in Client : Acknowledges(c, "putFile") => file.data = conn[c].op.data]_vars

\* With a record of another size the defaults are used (webserver.cpp:227).
OtherLayoutIsDefault == pc = "accept" /\ nvs.layout = "other" => appConfig = Default

================================================================================
