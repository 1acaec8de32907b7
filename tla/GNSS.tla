--------------------------------- MODULE GNSS ----------------------------------
(***************************************************************************)
(* The GNSS receiver of sw/src/gnss.cpp: the worker thread that frames and  *)
(* parses NMEA sentences, main()'s question whether this is a transmission  *)
(* slot, and the shell's `gnss monitor'.                                    *)
(*                                                                          *)
(* Priorities: main() is above the worker, the shell below it.  So main()'s *)
(* locked read is one step that may come between any two of the worker's,   *)
(* and the shell steps only while the worker sleeps.                        *)
(*                                                                          *)
(* A symbol is a field of a sentence, tagged, with a time where it has one; *)
(* "pos" is the four fields of a position, "" an empty field.  The rest of  *)
(* a line is left out: it is longer than five bytes, so every non-empty     *)
(* line is handled.  A minute of the model has SecPerMin seconds, and the   *)
(* clock wraps after Seconds.  The receiver and the UART are external.      *)
(***************************************************************************)
EXTENDS Integers, SequencesExt

CONSTANTS
  SecPerMin, Seconds,
  GGAFirst,       \* the order of a second's sentences: GGA, RMC or RMC, GGA
  FifoLen,        \* symbols that fit the FIFO of the UART
  BufLen,         \* sizeof nmeaBuf
  QueueLen,       \* capacity of the monitor's queue
  MaxChanges      \* bound on transmissions begun and ended, changes of the reception
                  \* and monitor sessions, together

ASSUME ParameterAssumption ==
  /\ {SecPerMin, Seconds, FifoLen, BufLen, QueueLen} \subseteq Nat \ {0}
  /\ MaxChanges \in Nat /\ GGAFirst \in BOOLEAN

VARIABLES
  worker,         \* where the worker thread is
  nmeaBuf,
  locked,         \* the worker holds the mutex
  valid, minute, second,  \* of `data'
  told,           \* history: the time of the last accepted RMC sentence
  slot,           \* what main() found at its last look
  shell, monitorEnabled,
  monitorQ,       \* how many sentences wait for the monitor
  transmitting,   \* FPGA::isTransmitting()
  now, reception, \* the time, and what the receiver has: nothing, time, fix
  out, fifo,      \* symbols still to be sent, and those waiting in the UART
  changes

data == <<valid, minute, second, told>>
monitor == <<shell, monitorEnabled, monitorQ>>
world == <<transmitting, reception, changes>>
line == <<now, out>>
vars == <<worker, nmeaBuf, locked, data, slot, monitor, world, line, fifo>>

-------------------------------------------------------------------------------
(* Sentences. *)

Field(tag) == <<tag, 0>>
Time(t) == IF reception = "nothing" THEN Field("") ELSE <<"time", t>>
Pos == IF reception = "fix" THEN Field("pos") ELSE Field("")
EOL == Field("eol")

RMC(t) == <<Field("$RMC"), Time(t), Field(IF reception = "fix" THEN "A" ELSE "V"), Pos, EOL>>
GGA(t) == <<Field("$GGA"), Time(t), Pos, Field(IF reception = "fix" THEN "1" ELSE "0"), EOL>>

\* What strtok_r finds in a line: it skips empty fields.
Fields(f) == CASE f[1] = "pos" -> [i \in 1 .. 4 |-> f]
               [] f[1] = "" -> <<>>
               [] OTHER -> <<f>>
Tokens(buf) == FlattenSeq([i \in 1 .. Len(buf) |-> Fields(buf[i])])
Token(buf, n) == IF n <= Len(Tokens(buf)) THEN Tokens(buf)[n] ELSE Field("none")

IsSentence(buf, type) == Token(buf, 1)[1] = type
FixTime(buf) == Token(buf, 2)
HasTime(buf) == FixTime(buf)[1] = "time"
\* Mutant of IsActive: looks at the field before.
IsActiveEarly(buf) == Token(buf, 2)[1] = "A"

IsActive(buf) == Token(buf, 3)[1] = "A"
HasFix(buf) == Token(buf, 7)[1] \notin {"0", "none"}

MinuteOf(t) == t \div SecPerMin
SecondOf(t) == t % SecPerMin

Init ==
  /\ worker = "top" /\ nmeaBuf = <<>> /\ locked = FALSE
  /\ valid = FALSE /\ minute = 0 /\ second = 0 /\ told = 0
  /\ slot = FALSE
  /\ shell = "idle" /\ monitorEnabled = FALSE /\ monitorQ = 0
  /\ transmitting = FALSE
  /\ now = 0 /\ reception \in {"nothing", "fix"}
  /\ out = <<>> /\ fifo = <<>>
  /\ changes = 0

-------------------------------------------------------------------------------
(* The worker: GNSS::processLoop(). *)

Asleep == worker = "nap" \/ (worker = "top" /\ fifo = <<>> /\ ~transmitting)

\* While transmitting, throw away what came and sleep a second.
Flush ==
  /\ worker = "top" /\ transmitting
  /\ fifo' = <<>>
  /\ worker' = "nap"
  /\ UNCHANGED <<nmeaBuf, locked, data, slot, monitor, world, line>>

WakeUp ==
  /\ worker = "nap" /\ worker' = "top"
  /\ UNCHANGED <<nmeaBuf, locked, data, slot, monitor, world, line, fifo>>

IsStart(f) == f[1] \in {"$RMC", "$GGA"}

\* '$' starts a new line; a line that does not fit is dropped.
Extend(buf, f) == IF IsStart(f) THEN <<f>>
                  ELSE IF Len(buf) < BufLen THEN Append(buf, f)
                  ELSE <<>>

Read ==
  /\ worker = "top" /\ ~transmitting /\ fifo # <<>>
  /\ fifo' = Tail(fifo)
  /\ IF Head(fifo) = EOL
     THEN /\ worker' = IF nmeaBuf = <<>> THEN "top" ELSE "lock"
          /\ UNCHANGED nmeaBuf
     ELSE /\ nmeaBuf' = Extend(nmeaBuf, Head(fifo))
          /\ UNCHANGED worker
  /\ UNCHANGED <<locked, data, slot, monitor, world, line>>

\* k_mutex_lock; the copy for `gnss raw' is left out.
Latch ==
  /\ worker = "lock" /\ ~locked
  /\ worker' = "put"
  /\ locked' = TRUE
  /\ UNCHANGED <<nmeaBuf, data, slot, monitor, world, line, fifo>>

\* k_msgq_put with K_NO_WAIT: a full queue drops the sentence.
Put ==
  /\ worker = "put" /\ worker' = "parse"
  /\ monitorQ' = IF monitorEnabled /\ monitorQ < QueueLen THEN monitorQ + 1 ELSE monitorQ
  /\ UNCHANGED <<nmeaBuf, locked, data, slot, shell, monitorEnabled, world, line, fifo>>

\* parseNMEA: whether there is a fix.  An accepted RMC sentence goes on to its time.
Parse ==
  /\ worker = "parse"
  /\ \/ /\ IsSentence(nmeaBuf, "$RMC") /\ IsActive(nmeaBuf)
        /\ valid' = TRUE
        /\ IF HasTime(nmeaBuf)
           THEN worker' = "minute" /\ told' = FixTime(nmeaBuf)[2]
           ELSE worker' = "unlock" /\ UNCHANGED told
     \/ /\ IsSentence(nmeaBuf, "$RMC") /\ ~IsActive(nmeaBuf)
        /\ valid' = FALSE
        /\ worker' = "unlock" /\ UNCHANGED told
     \/ /\ ~IsSentence(nmeaBuf, "$RMC")
        /\ valid' = (valid \/ (IsSentence(nmeaBuf, "$GGA") /\ HasFix(nmeaBuf)))
        /\ worker' = "unlock" /\ UNCHANGED told
  /\ UNCHANGED <<nmeaBuf, locked, minute, second, slot, monitor, world, line, fifo>>

SetMinute ==
  /\ worker = "minute" /\ worker' = "second"
  /\ minute' = MinuteOf(FixTime(nmeaBuf)[2])
  /\ UNCHANGED <<nmeaBuf, locked, valid, second, told, slot, monitor, world, line, fifo>>

SetSecond ==
  /\ worker = "second" /\ worker' = "unlock"
  /\ second' = SecondOf(FixTime(nmeaBuf)[2])
  /\ UNCHANGED <<nmeaBuf, locked, valid, minute, told, slot, monitor, world, line, fifo>>

Unlock ==
  /\ worker = "unlock" /\ worker' = "top"
  /\ locked' = FALSE
  /\ nmeaBuf' = <<>>
  /\ UNCHANGED <<data, slot, monitor, world, line, fifo>>

Worker == Flush \/ Read \/ Latch \/ Put \/ Parse \/ SetMinute \/ SetSecond \/ Unlock

-------------------------------------------------------------------------------
(* main(): GNSS::isTXSlot(). *)

isTXSlot == valid /\ second = 0 /\ minute % 2 = 0

\* Mutant of CheckSlot: reads without the lock.
CheckSlotUnlocked ==
  /\ slot' = (isTXSlot /\ ~transmitting)
  /\ UNCHANGED <<worker, nmeaBuf, locked, data, monitor, world, line, fifo>>

CheckSlot ==
  /\ ~locked
  /\ slot' = (isTXSlot /\ ~transmitting)
  /\ UNCHANGED <<worker, nmeaBuf, locked, data, monitor, world, line, fifo>>

-------------------------------------------------------------------------------
(* The shell: cmd_gnss_monitor. *)

ShellStep(from, to) == Asleep /\ shell = from /\ shell' = to
NotShell == <<worker, nmeaBuf, locked, data, slot, transmitting, reception, line, fifo>>

StartMonitor == /\ ShellStep("idle", "monitor") /\ monitorEnabled' = TRUE
                /\ changes < MaxChanges /\ changes' = changes + 1
                /\ UNCHANGED <<monitorQ, NotShell>>

Show == /\ ShellStep("monitor", "monitor") /\ monitorQ > 0 /\ monitorQ' = monitorQ - 1
        /\ UNCHANGED <<monitorEnabled, changes, NotShell>>

StopMonitor == /\ ShellStep("monitor", "drain") /\ monitorEnabled' = FALSE
               /\ UNCHANGED <<monitorQ, changes, NotShell>>

\* Mutant of Drain: takes one message instead of all.
DrainOne == /\ ShellStep("drain", "idle")
            /\ monitorQ' = IF monitorQ = 0 THEN 0 ELSE monitorQ - 1
            /\ UNCHANGED <<monitorEnabled, changes, NotShell>>

Drain == /\ ShellStep("drain", "idle") /\ monitorQ' = 0
         /\ UNCHANGED <<monitorEnabled, changes, NotShell>>

-------------------------------------------------------------------------------
(* The receiver, the UART and the commands that transmit. *)

\* A second's sentences are sent and read well before the next second.
NextSecond ==
  /\ out = <<>> /\ Asleep
  /\ now' = (now + 1) % Seconds
  /\ out' = IF GGAFirst THEN GGA(now') \o RMC(now') ELSE RMC(now') \o GGA(now')
  /\ UNCHANGED <<worker, nmeaBuf, locked, data, slot, monitor, world, fifo>>

\* At 9600 baud a byte comes each millisecond, and the worker is done with it before the
\* next: bytes pile up, and the FIFO overruns, only in a nap.
Send ==
  /\ out # <<>> /\ Asleep
  /\ out' = Tail(out)
  /\ fifo' = IF Len(fifo) < FifoLen THEN Append(fifo, Head(out)) ELSE fifo
  /\ UNCHANGED <<worker, nmeaBuf, locked, data, slot, monitor, world, now>>

Change ==
  /\ changes < MaxChanges /\ changes' = changes + 1
  /\ \/ transmitting' = ~transmitting /\ UNCHANGED reception
     \/ reception' \in {"nothing", "time", "fix"} \ {reception} /\ UNCHANGED transmitting
  /\ UNCHANGED <<worker, nmeaBuf, locked, data, slot, monitor, line, fifo>>

Next == \/ Worker \/ WakeUp \/ CheckSlot
        \/ StartMonitor \/ Show \/ StopMonitor \/ Drain
        \/ NextSecond \/ Send \/ Change

\* The worker is runnable whenever it is not asleep, and time goes on.
Fairness == WF_vars(Worker) /\ WF_vars(WakeUp) /\ WF_vars(NextSecond) /\ WF_vars(Send)

Spec == Init /\ [][Next]_vars /\ Fairness

-------------------------------------------------------------------------------
Symbols == ({"$RMC", "$GGA", "", "eol", "A", "V", "pos", "0", "1"} \X {0})
           \cup ({"time"} \X (0 .. Seconds - 1))

IsLine(s, max) == Len(s) <= max /\ \A i \in 1 .. Len(s) : s[i] \in Symbols

\* Types; no line outgrows nmeaBuf and the queue its capacity.
TypeOK ==
  /\ worker \in {"top", "nap", "lock", "put", "parse", "minute", "second", "unlock"}
  /\ IsLine(nmeaBuf, BufLen)
  /\ locked \in BOOLEAN /\ valid \in BOOLEAN /\ slot \in BOOLEAN
  /\ minute \in Nat /\ second \in 0 .. SecPerMin - 1 /\ told \in 0 .. Seconds - 1
  /\ shell \in {"idle", "monitor", "drain"} /\ monitorEnabled \in BOOLEAN
  /\ monitorQ \in 0 .. QueueLen
  /\ transmitting \in BOOLEAN /\ reception \in {"nothing", "time", "fix"}
  /\ now \in 0 .. Seconds - 1 /\ IsLine(fifo, FifoLen)

\* main() takes the minute of one sentence and the second of another for a slot never:
\* what it finds is a slot only if the last accepted time is one (gnss.cpp:318-324).
SlotIsOfOneSentence ==
  [][slot' /\ ~slot => SecondOf(told) = 0 /\ MinuteOf(told) % 2 = 0]_vars

\* A monitor session begins with an empty queue, and shows no sentence of an earlier
\* one (shellcmds.cpp:346-369).
MonitorStartsFresh == shell = "idle" => monitorQ = 0

\* However a transmission cut the stream, once it is over and there is a fix, the end
\* of every second, from some second on, finds that second's time (gnss.cpp:109-151).
CatchesUp ==
  <>[](~transmitting /\ reception = "fix")
    => <>[](out = <<>> /\ Asleep => valid /\ minute = MinuteOf(now) /\ second = SecondOf(now))

\* A slot is the start of an even minute, this second's or the one before (gnss.hpp:76,
\* "Check if we're at the start of an even minute").
IsSlot(t) == SecondOf(t) = 0 /\ MinuteOf(t) % 2 = 0
SlotIsNow == [][slot' /\ ~slot => IsSlot(now) \/ IsSlot((now + Seconds - 1) % Seconds)]_vars

================================================================================
