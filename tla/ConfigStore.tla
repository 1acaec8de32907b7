------------------------------ MODULE ConfigStore ------------------------------
(***************************************************************************)
(* What the web server promises of the configuration: one value that        *)
(* survives a restart.  A PUT that is answered has replaced it as a whole,  *)
(* a GET answers with it, and each takes effect at one instant between the  *)
(* request and its answer.  A restart breaks the open connections: their    *)
(* requests have taken effect or not.  Requests for files are seen as       *)
(* `other'.  WebServer is shown to implement this when nothing fails.       *)
(***************************************************************************)
CONSTANTS Client, Config, Default

VARIABLES
  stored,     \* the configuration
  call        \* [Client -> its request: idle, sent or done, and the last answer]

vars == <<stored, call>>

Op == [kind : {"put"}, cfg : Config] \union [kind : {"get", "other"}, cfg : {Default}]
NoAnswer == [s |-> "none", v |-> Default]
Answer(op) == CASE op.kind = "put" -> [s |-> "ok", v |-> Default]
                [] op.kind = "get" -> [s |-> "config", v |-> stored]
                [] op.kind = "other" -> [s |-> "other", v |-> Default]

Init ==
  /\ stored = Default
  /\ call = [c \in Client |-> [st |-> "idle", op |-> [kind |-> "other", cfg |-> Default],
                               answer |-> NoAnswer]]

Invoke(c) ==
  /\ call[c].st = "idle"
  /\ \E op \in Op : call' = [call EXCEPT ![c] = [st |-> "sent", op |-> op, answer |-> NoAnswer]]
  /\ UNCHANGED stored

Perform(c) ==
  LET op == call[c].op
  IN  /\ call[c].st = "sent"
      /\ stored' = IF op.kind = "put" THEN op.cfg ELSE stored
      /\ call' = [call EXCEPT ![c].st = "done", ![c].answer = Answer(op)]

Return(c) ==
  /\ call[c].st = "done"
  /\ call' = [call EXCEPT ![c].st = "idle"]
  /\ UNCHANGED stored

Restart ==
  /\ call' = [c \in Client |-> IF call[c].st = "idle" THEN call[c]
                               ELSE [call[c] EXCEPT !.st = "idle", !.answer = NoAnswer]]
  /\ UNCHANGED stored

Next == Restart \/ \E c \in Client : Invoke(c) \/ Perform(c) \/ Return(c)

Spec == Init /\ [][Next]_vars /\ \A c \in Client : WF_vars(Perform(c)) /\ WF_vars(Return(c))
================================================================================
