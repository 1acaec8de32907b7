----------------------------- MODULE RegisterFile -----------------------------
(***************************************************************************)
(* What the register block promises the transmitter: two registers are      *)
(* written one whole word at a time while the bus is selected, and the      *)
(* transmitter sees the tuning word, the power threshold and the enable bit *)
(* change together, only while the bus is idle, and always to what the two  *)
(* registers hold at that moment.  A reset clears what the transmitter sees *)
(* and keeps the registers.                                                 *)
(***************************************************************************)
EXTENDS SPIFrame

VARIABLES
  file,      \* the two registers, [twRaw, ctrlSPI]
  idle,      \* chip select is high
  out        \* what the transmitter sees, [tw, pwr, tx]

rfVars == <<file, idle, out>>

View(f) == [tw |-> f.twRaw, pwr |-> PowerOf(f.ctrlSPI), tx |-> TxOf(f.ctrlSPI)]

ResetView == [tw |-> ZeroWord, pwr |-> 255, tx |-> FALSE]

\* The iCE40 powers up flip-flops without an initialiser as 0.
UninitView == [tw |-> ZeroWord, pwr |-> 0, tx |-> FALSE]

InitFile == [twRaw |-> ZeroWord, ctrlSPI |-> initWSPRControl]

Init == file = InitFile /\ idle = TRUE /\ out = ResetView

Select == idle /\ idle' = FALSE /\ UNCHANGED <<file, out>>
Deselect == ~idle /\ idle' = TRUE /\ UNCHANGED <<file, out>>

\* Which of the two words changes, and to what, is the writer's business.
Write == /\ ~idle
         /\ file' \in [twRaw : Word, ctrlSPI : Word]
         /\ file'.twRaw = file.twRaw \/ file'.ctrlSPI = file.ctrlSPI
         /\ UNCHANGED <<idle, out>>

Publish == idle /\ out' = View(file) /\ UNCHANGED <<file, idle>>

\* The first clock edge copies synchroniser registers that have no initialiser.
Settle == file = InitFile /\ out = ResetView /\ out' = UninitView /\ UNCHANGED <<file, idle>>

Clear == out' = ResetView /\ UNCHANGED <<file, idle>>

Next == Select \/ Deselect \/ Write \/ Publish \/ Settle \/ Clear

Spec == Init /\ [][Next]_rfVars

===============================================================================
