------------------------------- MODULE WebClient -------------------------------
(***************************************************************************)
(* The configuration form of the web page (webui/www/app.js) over the store *)
(* that ConfigStore promises.  Each fetch is a call that the server performs *)
(* and that the browser then answers or reports as failed; the user types,  *)
(* saves and cancels meanwhile.  Save stays enabled while a save is under   *)
(* way, so several calls may be.  Of the form, `station' stands for the     *)
(* fields that are always there, `bands' for the switches made from the     *)
(* loaded bands, `window' for their time windows, of which the device       *)
(* neither takes nor returns any.  The bands of a configuration are an      *)
(* object of their own, which another configuration may refer to as well.   *)
(* The browser's fetch and HTTP are external.                               *)
(***************************************************************************)
EXTENDS Integers, Sequences, SequencesExt

CONSTANTS
  Call,           \* calls that may be under way at once
  Setting,        \* what may be typed, without the default 0
  InOrder,        \* BOOLEAN: calls are performed and answered in the order made
  MaxEdits, MaxSaves, MaxFailures, MaxReloads

ASSUME ClientAssumption ==
  /\ Call # {} /\ Setting \subseteq Nat \ {0} /\ InOrder \in BOOLEAN
  /\ MaxEdits \in Nat /\ MaxSaves \in Nat /\ MaxFailures \in Nat /\ MaxReloads \in Nat

VARIABLES
  stored, call,   \* the server, as in ConfigStore
  task,           \* [Call -> what waits for the answer: load, save or none]
  queue,          \* the calls under way, in the order made
  loaded,         \* currentConfig is not null
  band,           \* [Object -> [bands, window]]: the arrays of bands that are in use
  current,        \* currentConfig.bands, one of them; its other fields are not read again
  original,       \* [station, bands]: originalConfig
  form,           \* what the inputs show
  dirty,          \* isDirty: the buttons are enabled
  \* bounds and history
  edits, saves, failures, reloads,
  unsaved,        \* something was typed that no save took and no cancel dropped
  kept,           \* the configuration the last load brought
  alerted         \* a failure was shown since the last load

serverVars == <<stored, call>>
pageVars == <<loaded, band, current, original, form, dirty, unsaved, kept, alerted>>
boundVars == <<edits, saves, failures, reloads>>
vars == <<stored, call, task, queue, loaded, band, current, original, form, dirty,
          edits, saves, failures, reloads, unsaved, kept, alerted>>

Default == [station |-> 0, bands |-> 0]
Config == [station : Setting \union {0}, bands : Setting \union {0}]
NoWindow == 0
Invalid == -1     \* a grid square that gatherConfigFromUI() refuses

Server == INSTANCE ConfigStore WITH Client <- Call

Get == [kind |-> "get", cfg |-> Default]
Put(f) == [kind |-> "put", cfg |-> [station |-> f.station, bands |-> f.bands]]
Sent(op) == [st |-> "sent", op |-> op, answer |-> Server!NoAnswer]
Shown(cfg) == [station |-> cfg.station, bands |-> cfg.bands, window |-> NoWindow]
Blank == Shown(Default)

\* Two arrays of bands are in use at most: what is copied goes to the other one.
Object == {1, 2}

\* Mutant of Copy: the copy is shallow, and refers to the same bands.
Share(o) == o

\* JSON.parse(JSON.stringify(...))
Copy(o) == 3 - o

BandsOf(f) == [bands |-> f.bands, window |-> f.window]
Original == [station |-> original.station, bands |-> band[original.bands].bands,
             window |-> band[original.bands].window]

\* currentConfig is the answer cfg, originalConfig a copy of it.
TakeUp(cfg) == /\ band' = [o \in Object |-> BandsOf(cfg)]
               /\ current' = 1 /\ original' = [station |-> cfg.station, bands |-> Copy(1)]

Idle(i) == call[i].st = "idle"
Without(i) == RemoveAt(queue, CHOOSE k \in DOMAIN queue : queue[k] = i)
Turn(i) == InOrder => i = Head(queue)

\* fetch(): what called it waits for the answer.
Fetch(i, op, what, q) ==
  /\ call' = [call EXCEPT ![i] = Sent(op)]
  /\ task' = [task EXCEPT ![i] = what]
  /\ queue' = Append(q, i)

\* The page opens and loads the configuration.
Init ==
  \E i \in Call :
    /\ stored \in {Default} \union {[station |-> s, bands |-> s] : s \in Setting}
    /\ call = [j \in Call |-> IF j = i THEN Sent(Get) ELSE [Sent(Get) EXCEPT !.st = "idle"]]
    /\ task = [j \in Call |-> IF j = i THEN "load" ELSE "none"]
    /\ queue = <<i>>
    /\ loaded = FALSE /\ form = Blank /\ dirty = FALSE
    /\ band = [o \in Object |-> BandsOf(Blank)]
    /\ current = 1 /\ original = [station |-> 0, bands |-> 2]
    /\ edits = 0 /\ saves = 0 /\ failures = 0 /\ reloads = 0
    /\ unsaved = FALSE /\ kept = Blank /\ alerted = FALSE

-------------------------------------------------------------------------------
(* The user. *)

\* An input or change event: markDirty().  The bands are there once loaded.
Edit ==
  /\ edits < MaxEdits /\ edits' = edits + 1
  /\ \/ \E v \in Setting \union {Invalid} : form' = [form EXCEPT !.station = v]
     \/ loaded /\ \E v \in Setting : \/ form' = [form EXCEPT !.bands = v]
                                     \/ form' = [form EXCEPT !.window = v]
  /\ form' # form
  /\ dirty' = TRUE /\ unsaved' = TRUE
  /\ UNCHANGED <<serverVars, task, queue, loaded, band, current, original, saves, failures,
                 reloads, kept, alerted>>

\* gatherConfigFromUI(): `...currentConfig' refers to its bands, which are written in place.
Gathered(f) == [band EXCEPT ![current] = BandsOf(f)]

\* The check of the grid square
Refused(f) == f.station = Invalid

\* The save button.  Nothing is sent when nothing is loaded (a TypeError) or the
\* grid is refused.
Save ==
  /\ dirty /\ loaded /\ ~Refused(form)
  /\ saves < MaxSaves /\ saves' = saves + 1
  /\ \E i \in Call : Idle(i) /\ Fetch(i, Put(form), "save", queue)
  /\ band' = Gathered(form)
  /\ unsaved' = FALSE
  /\ UNCHANGED <<stored, loaded, current, original, form, dirty, edits, failures, reloads, kept, alerted>>

\* The cancel button: currentConfig is a copy of originalConfig and is shown.
Cancel ==
  /\ dirty /\ loaded
  /\ current' = Copy(original.bands)
  /\ band' = [band EXCEPT ![current'] = band[original.bands]]
  /\ form' = Original /\ dirty' = FALSE /\ unsaved' = FALSE
  /\ UNCHANGED <<serverVars, task, queue, loaded, original, boundVars, kept, alerted>>

\* checkVersion() finds another version: the page starts over; calls under way are
\* still performed, their answers go nowhere.
Reload ==
  /\ reloads < MaxReloads /\ reloads' = reloads + 1
  /\ \E i \in Call :
       /\ Idle(i)
       /\ call' = [call EXCEPT ![i] = Sent(Get)]
       /\ task' = [j \in Call |-> IF j = i THEN "load" ELSE "none"]
       /\ queue' = Append(queue, i)
  /\ loaded' = FALSE /\ form' = Blank /\ dirty' = FALSE
  /\ band' = [o \in Object |-> BandsOf(Blank)]
  /\ current' = 1 /\ original' = [station |-> 0, bands |-> 2]
  /\ unsaved' = FALSE /\ kept' = Blank /\ alerted' = FALSE
  /\ UNCHANGED <<stored, edits, saves, failures>>

-------------------------------------------------------------------------------
(* The network and the server. *)

Perform(i) ==
  /\ i \in ToSet(queue)
  /\ InOrder => \A j \in ToSet(queue) : call[j].st = "sent" => \E m, n \in DOMAIN queue : m <= n /\ queue[m] = i /\ queue[n] = j
  /\ Server!Perform(i)
  /\ UNCHANGED <<task, queue, pageVars, boundVars>>

\* The connection breaks or times out, before or after the server performed it.
Fail(i) ==
  /\ i \in ToSet(queue) /\ Turn(i) /\ failures < MaxFailures
  /\ failures' = failures + 1
  /\ call' = [call EXCEPT ![i].st = "idle", ![i].answer = Server!NoAnswer]
  /\ task' = [task EXCEPT ![i] = "none"] /\ queue' = Without(i)
  /\ alerted' = (alerted \/ task[i] # "none")
  /\ UNCHANGED <<stored, loaded, band, current, original, form, dirty, edits, saves, reloads, unsaved, kept>>

Answered(i, what) == i \in ToSet(queue) /\ Turn(i) /\ call[i].st = "done" /\ task[i] = what

Leave(i) ==
  /\ Server!Return(i)
  /\ task' = [task EXCEPT ![i] = "none"] /\ queue' = Without(i)

\* Mutant of Load: a form that was typed in keeps its values and counts as loaded.
LoadAround(i) ==
  /\ Answered(i, "load") /\ Leave(i)
  /\ LET cfg == Shown(call[i].answer.v)
     IN  TakeUp(cfg) /\ form' = (IF dirty THEN form ELSE cfg) /\ kept' = cfg
  /\ loaded' = TRUE /\ dirty' = FALSE /\ alerted' = FALSE
  /\ UNCHANGED <<boundVars, unsaved>>

\* loadConfig(): the form shows what came, whatever it showed.
Load(i) ==
  /\ Answered(i, "load") /\ Leave(i)
  /\ LET cfg == Shown(call[i].answer.v)
     IN  TakeUp(cfg) /\ form' = cfg /\ kept' = cfg
  /\ loaded' = TRUE /\ dirty' = FALSE /\ alerted' = FALSE
  /\ UNCHANGED <<boundVars, unsaved>>

\* Mutant of Saved: the answer to a save is not followed by a load.
SavedOnly(i) == Answered(i, "save") /\ Leave(i) /\ UNCHANGED <<pageVars, boundVars>>

\* A save is answered: the configuration is loaded anew.
Saved(i) ==
  /\ Answered(i, "save")
  /\ Fetch(i, Get, "load", Without(i))
  /\ UNCHANGED <<stored, pageVars, boundVars>>

\* An answer to a page that is gone.
Forget(i) == Answered(i, "none") /\ Leave(i) /\ UNCHANGED <<pageVars, boundVars>>

Net(i) == Perform(i) \/ Load(i) \/ Saved(i) \/ Forget(i)

Next == \/ Edit \/ Save \/ Cancel \/ Reload
        \/ \E i \in Call : Net(i) \/ Fail(i)

\* The network and the server go on; the user need not.
Spec == Init /\ [][Next]_vars /\ \A i \in Call : WF_vars(Net(i))

-------------------------------------------------------------------------------
(* Properties. *)

\* Types of the page's state, and the calls under way.
TypeOK ==
  /\ stored \in Config
  /\ band \in [Object -> [bands : Setting \union {0}, window : Setting \union {NoWindow}]]
  /\ current \in Object /\ original.bands \in Object
  /\ {form, Original, kept} \subseteq
       [station : Setting \union {0, Invalid}, bands : Setting \union {0}, window : Setting \union {NoWindow}]
  /\ {loaded, dirty, unsaved, alerted} \subseteq BOOLEAN
  /\ ToSet(queue) = {i \in Call : ~Idle(i)} /\ \A i \in Call : task[i] # "none" => ~Idle(i)

\* With nothing under way, a form that cannot be saved shows what the device holds,
\* unless a failure was shown since it was loaded: saves, cancels and loads that
\* overlap leave no stale form (app.js:230-255).
QuietIsTruth ==
  queue = <<>> /\ loaded /\ ~dirty /\ ~alerted => form = Shown(stored)

\* After Cancel the form shows what the last load brought, whatever was typed, sent and
\* cancelled since: though a save writes into bands that it does not own (app.js:73, 197-225,
\* 249-255, `Cancel changes - restore from originalConfig').
CancelRestores == [][Cancel => form' = kept]_vars

\* A save leads to a form that is clean, to an alert, or to newer edits
\* (app.js:240-246).
SaveSettles ==
  (\E i \in Call : task[i] = "save") ~> (~dirty \/ alerted \/ unsaved)

\* What was typed and not yet sent can be saved (app.js:46: `Mark as dirty when any
\* config input changes').
TypedIsDirty == unsaved => dirty

\* A time window that is set is still in the form after the configuration is saved
\* (doc/OVERVIEW.md:267, `configurable').
WindowIsKept ==
  [][\A i \in Call : Load(i) /\ form.window # NoWindow /\ ~unsaved => form'.window = form.window]_vars

================================================================================
