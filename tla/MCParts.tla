-------------------------------- MODULE MCParts --------------------------------
(***************************************************************************)
(* The parts of the system that share no state with the others, and the     *)
(* exciter, whose inputs are free, for TLC.                                 *)
(* As no variable of one is read or written by another, an invariant or an  *)
(* action property of one holds of all their interleavings if it holds      *)
(* while the others stand still: `part' says which one moves, and Moving    *)
(* which of them a run lets move.                                           *)
(***************************************************************************)
EXTENDS Parts, WSPRExciter, Sequences

CONSTANT Moving

VARIABLE part

\* Four kinds of receivers; places beside and on the edges of fields, squares and
\* subsquares.  As gnss.cpp:193-196 and 326-341 compute them, 5' N and 10' E come out
\* short of their borders, and 5' S does not.
MCReceivers == [course : BOOLEAN, tracked : BOOLEAN]
MCPlaces == {<<10, 20>>, <<-10, -14641>>, <<-10800, -21600>>, <<10799, 21599>>}
MCShort == {<<10810, 1200>>, <<21620, 2400>>}

\* The queries of stub resolvers, and one of two questions.
Query(s, e) == [questions |-> s, edns |-> e]
MCQueries == {Query(<<"A">>, FALSE), Query(<<"A", "A">>, FALSE),
              Query(<<"other">>, FALSE), Query(<<"A">>, TRUE)}

\* Uploads of two lengths, of which one is a configuration.
MCContent == {<<1, 2>>, <<3>>}
MCConfigTexts == {<<3>>}

ASSUME PartsAssumption ==
  /\ Moving \subseteq {"tuning", "exciter", "counter", "parser", "dns", "mock"}
  /\ Tuner!TuningAssumption /\ Counter!CounterAssumption /\ Parser!NMEAAssumption
  /\ DNS!DNSAssumption /\ Mock!MockAssumption

PartsInit ==
  /\ part \in Moving
  /\ Tuner!Init /\ Counter!Init /\ DNS!Init /\ Mock!Init
  /\ Init /\ (part # "exciter" => in = [tuningWord |-> 13, powerThreshold |-> 2,
                                       txEnable |-> FALSE, reset |-> FALSE])
  /\ Parser!Init /\ (part # "parser" => receiver = [course |-> TRUE, tracked |-> TRUE])

tunerVars == <<currentFreq, tuning, step, base, symbol, symbols>>
counterVars == <<c0, c1, c2, c3, w0, w1, w2, samplePPS, reset, pipe, sigDelay, ppsGen,
                 ppsCount, held, clock, pulses>>
parserVars == <<nmea, grid, timeStr, receiver, heard>>
dnsVars == <<caller, running, dnsRunning, dnsSock, opened, threads, rxBuf, inbox, sent,
             queries, late>>
mockVars == <<main, config, inode, disk, req, diskFailures, kills, last, atKill>>

PartsNext ==
  /\ UNCHANGED part
  /\ IF part = "tuning" THEN Tuner!Next ELSE UNCHANGED tunerVars
  /\ IF part = "exciter" THEN Next ELSE UNCHANGED vars
  /\ IF part = "counter" THEN Counter!Next ELSE UNCHANGED counterVars
  /\ IF part = "parser" THEN Parser!Next ELSE UNCHANGED parserVars
  /\ IF part = "dns" THEN DNS!Next ELSE UNCHANGED dnsVars
  /\ IF part = "mock" THEN Mock!Next ELSE UNCHANGED mockVars

allVars == <<part, tunerVars, vars, counterVars, parserVars, dnsVars, mockVars>>
PartsSpec == PartsInit /\ [][PartsNext]_allVars

================================================================================
