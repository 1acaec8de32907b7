------------------------------ MODULE MockServer ------------------------------
(***************************************************************************)
(* What the mock server's handlers (webui/src/api_server.hpp) do to its     *)
(* configuration (config_manager.hpp) and files (mock_fs.hpp), as the       *)
(* workers of HttpServer run them at the same time, through kills and new   *)
(* starts of the process.  A file is an inode of the host, which a delete   *)
(* takes from its name and not from who has it open; an ofstream truncates  *)
(* when it opens and writes when it closes.  Requests that only read are    *)
(* left out.  The host's file system is external.                           *)
(***************************************************************************)
EXTENDS Integers, Sequences

CONSTANTS
  Req,            \* the requests that are made
  Content,        \* uploads: sequences of pieces
  ConfigTexts,    \* those of them that are a configuration
  MaxFailures, MaxKills

MockAssumption ==
  /\ Content \subseteq Seq(Nat) /\ ConfigTexts \subseteq Content
  /\ MaxFailures \in Nat /\ MaxKills \in Nat

Path == {"file", "config.json"}
DefaultText == <<0>>       \* toJson() of the defaults
None == <<-1>>

VARIABLES
  main,           \* main(): load, save, fill (the opened config.json), serve
  config,         \* ConfigManager::config, as its text
  inode, data,    \* [Path -> its inode, 0 if none], the inodes' content
  req,            \* [Req -> st, path, text, ino, code, sole]
  failures, kills,
  \* history
  last,           \* [Path -> what the last write left if it was complete and alone, or None]
  atKill          \* the configuration config.json held when the server was killed, or None

vars == <<main, config, inode, data, req, failures, kills, last, atKill>>

\* A request: its state, its file and text, the inode it has open, its answer, and
\* whether no other change of the file overlapped it.
Idle == [st |-> "none", path |-> "file", text |-> <<>>, ino |-> 0, code |-> 0, sole |-> TRUE]

Init ==
  /\ main = "load" /\ config = DefaultText
  /\ inode = [p \in Path |-> 0] /\ data = <<>>
  /\ req = [r \in Req |-> Idle]
  /\ failures = 0 /\ kills = 0
  /\ last = [p \in Path |-> None] /\ atKill = None

Writing(p) == {r \in Req : req[r].st = "write" /\ req[r].path = p}
Of(p) == IF inode[p] = 0 THEN None ELSE data[inode[p]]
Disturbed(p) == [r \in Req |-> IF r \in Writing(p) THEN [req[r] EXCEPT !.sole = FALSE] ELSE req[r]]

-------------------------------------------------------------------------------
(* MockFilesystem. *)

\* Mutant of Opened: the file is not truncated.
OpenedAsIs(d) == d

\* std::ofstream of an existing file
Opened(d) == <<>>

\* writeFile(): the name is resolved, and the file truncated or created.
OpenFile(p) ==
  IF inode[p] = 0
  THEN data' = Append(data, <<>>) /\ inode' = [inode EXCEPT ![p] = Len(data) + 1]
  ELSE data' = [data EXCEPT ![inode[p]] = Opened(@)] /\ UNCHANGED inode

\* The text goes to the start of what the inode holds by then, or the disk is full.
Filled(ino, text) ==
  data' = [data EXCEPT ![ino] = text \o SubSeq(@, Len(text) + 1, Len(@))]
DiskFull == failures < MaxFailures /\ failures' = failures + 1 /\ UNCHANGED data

-------------------------------------------------------------------------------
(* Requests. *)

Begin(r, p, text) ==
  /\ main = "serve" /\ req[r].st = "none"
  /\ OpenFile(p)
  /\ req' = [Disturbed(p) EXCEPT ![r] = [st |-> "write", path |-> p, text |-> text,
                 ino |-> inode'[p], code |-> 0, sole |-> Writing(p) = {}]]
  /\ UNCHANGED <<main, failures, kills, last, atKill>>

\* handleUploadFile()
Upload(r) == \E p \in Path, t \in Content : Begin(r, p, t) /\ UNCHANGED config

\* POST /api/config/reset: reset() and save()
Reset(r) == Begin(r, "config.json", DefaultText) /\ config' = DefaultText

Answered(q, p, t, code) == [q EXCEPT !.st = "done", !.path = p, !.text = t, !.code = code]

Ends(r, code) == req' = [req EXCEPT ![r] = Answered(@, @.path, @.text, code)]

\* The write as the file is closed; that it fails shows only when it is longer than
\* the stream's buffer, and never in the answer to a reset.
Write(r) ==
  LET p == req[r].path
  IN  /\ req[r].st = "write"
      /\ \/ /\ Filled(req[r].ino, req[r].text) /\ UNCHANGED failures
            /\ Ends(r, 200)
            /\ last' = [last EXCEPT ![p] = IF req[r].sole THEN req[r].text ELSE None]
         \/ /\ DiskFull
            /\ \E code \in {200, 500} : Ends(r, code)
            /\ last' = [last EXCEPT ![p] = None]
      /\ UNCHANGED <<main, config, inode, kills, atKill>>

\* handleDeleteFile(): the name goes, an open inode stays.
Delete(r) ==
  /\ main = "serve" /\ req[r].st = "none"
  /\ \E p \in Path :
       /\ inode' = [inode EXCEPT ![p] = 0]
       /\ last' = [last EXCEPT ![p] = None]
       /\ req' = [Disturbed(p) EXCEPT
                    ![r] = Answered(@, p, @.text, IF inode[p] = 0 THEN 500 ELSE 200)]
  /\ UNCHANGED <<main, config, data, failures, kills, atKill>>

\* fromJson() is not written yet.
FromJson(text) == FALSE

\* handlePutConfig() and handleImportConfig()
PutConfig(r) ==
  /\ main = "serve" /\ req[r].st = "none"
  /\ \E t \in ConfigTexts :
       req' = [req EXCEPT
                ![r] = Answered(@, "config.json", t, IF FromJson(t) THEN 200 ELSE 400)]
  /\ UNCHANGED <<main, config, inode, data, failures, kills, last, atKill>>

-------------------------------------------------------------------------------
(* The process. *)

\* main(): what load() cannot read is replaced by the defaults.
Load ==
  /\ main = "load"
  /\ IF Of("config.json") # None /\ FromJson(Of("config.json"))
     THEN config' = Of("config.json") /\ main' = "serve"
     ELSE UNCHANGED config /\ main' = "save"
  /\ UNCHANGED <<inode, data, req, failures, kills, last, atKill>>

Save ==
  /\ main = "save" /\ main' = "fill"
  /\ OpenFile("config.json")
  /\ last' = [last EXCEPT !["config.json"] = None]
  /\ UNCHANGED <<config, req, failures, kills, atKill>>

\* What save() returns is not looked at.
Fill ==
  /\ main = "fill" /\ main' = "serve"
  /\ \/ /\ Filled(inode["config.json"], config) /\ UNCHANGED failures
        /\ last' = [last EXCEPT !["config.json"] = config]
     \/ DiskFull /\ UNCHANGED last
  /\ UNCHANGED <<config, inode, req, kills, atKill>>

\* The process is killed, with whatever it has open, and started again.
Kill ==
  /\ kills < MaxKills /\ kills' = kills + 1
  /\ main' = "load" /\ config' = DefaultText
  /\ last' = [p \in Path |-> IF Writing(p) = {} THEN last[p] ELSE None]
  /\ req' = [r \in Req |-> IF req[r].st = "write" THEN [req[r] EXCEPT !.st = "done"] ELSE req[r]]
  /\ atKill' = IF Of("config.json") \in ConfigTexts THEN Of("config.json") ELSE None
  /\ UNCHANGED <<inode, data, failures>>

Next == \/ Load \/ Save \/ Fill \/ Kill
        \/ \E r \in Req : Upload(r) \/ Reset(r) \/ Write(r) \/ Delete(r) \/ PutConfig(r)

Spec == Init /\ [][Next]_vars

-------------------------------------------------------------------------------
(* Properties. *)

\* Types, and inodes that exist.
TypeOK ==
  /\ main \in {"load", "save", "fill", "serve"} /\ config \in ConfigTexts \union {DefaultText}
  /\ \A p \in Path : inode[p] \in 0 .. Len(data)
  /\ \A r \in Req : req[r].st = "write" => req[r].ino \in DOMAIN data
  /\ failures \in 0 .. MaxFailures /\ kills \in 0 .. MaxKills

\* A file that is not being written holds all of the last upload and nothing else, if
\* no other change of it overlapped the upload; a kill does not undo it
\* (mock_fs.hpp:86-101).
QuietFileIsUpload ==
  \A p \in Path : Writing(p) = {} /\ last[p] # None => Of(p) = last[p]

\* What config.json holds when the server ends is in use when it serves again
\* (webui/README.md:177).
ConfigPersists == main = "serve" /\ atKill # None => config = atKill

\* A configuration that is put is taken (webui/README.md:43).
PutIsTaken == \A r \in Req : req[r].st = "done" /\ req[r].text \in ConfigTexts
                             /\ req[r].path = "config.json" => req[r].code # 400

================================================================================
