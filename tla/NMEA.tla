--------------------------------- MODULE NMEA ----------------------------------
(***************************************************************************)
(* What GNSS::parseNMEA() of sw/src/gnss.cpp makes of whole sentences: fix,  *)
(* time, date, position, grid locator, satellites and SNR.  How a sentence  *)
(* comes to be whole, and who reads the data meanwhile, is in GNSS.         *)
(*                                                                          *)
(* A sentence is a sequence of fields <<what, number>>, where `what' stands *)
(* for the text as far as the parser looks at it, "" for an empty field and *)
(* the number is what atoi and atof find.  A coordinate is the double that   *)
(* stands for a number of half minutes of arc and is named by that number;  *)
(* where its rounding shows, in the locator, `Short' says so.  The receiver *)
(* is external.                                                             *)
(***************************************************************************)
EXTENDS Integers, SequencesExt

CONSTANTS
  Receivers,      \* [course: it sends a course also at rest,
                  \*  tracked: it reports no satellite without an SNR]
  Times, Dates,   \* those the receiver sends
  Places,         \* <<latitude, longitude>>, half minutes north and east
  Short,          \* <<coordinate as Locator takes it, field>>: those on the border of two
                  \* subsquares whose double comes out below it
  SNRs,
  MaxSats         \* satellites in one GSV sentence, at most 4

Pole == 10800             \* the latitude of the pole: 90 degrees of 120 half minutes
Antimeridian == 21600     \* and 180 degrees

\* Eighths of a degree are doubles, and of the half minutes no others are.
Inexact(x) == x % 15 # 0

NMEAAssumption ==
  /\ Receivers \subseteq [course : BOOLEAN, tracked : BOOLEAN]
  /\ Times \subseteq Nat \ {0} /\ Dates \subseteq Nat \ {0} /\ SNRs \subseteq Nat \ {0}
  /\ Places \subseteq (-Pole .. Pole) \X (-Antimeridian .. Antimeridian)
  /\ \A s \in Short : s[1] \in Nat /\ s[2] \in {1200, 2400} /\ Inexact(s[1])
                        /\ s[1] % (s[2] \div 240) = 0
  /\ MaxSats \in 0 .. 4

VARIABLES
  data,           \* GNSSData
  grid, timeStr,
  receiver,
  told            \* history: what the sentences said last

vars == <<data, grid, timeStr, receiver, told>>

-------------------------------------------------------------------------------
(* The receiver's sentences. *)

Text(w) == <<w, 0>>
Empty == Text("")

Abs(c) == IF c < 0 THEN -c ELSE c

\* DDMM.MMMM, in half minutes: a degree is 200 of them
Coordinate(w, c) == <<w, ((Abs(c) \div 120) * 200) + (Abs(c) % 120)>>
Position(p) == << Coordinate("lat", p[1]), Text(IF p[1] < 0 THEN "S" ELSE "N"),
                  Coordinate("lon", p[2]), Text(IF p[2] < 0 THEN "W" ELSE "E") >>
NoPosition == <<Empty, Empty, Empty, Empty>>

\* f: what the receiver has, "nothing", "time" or "fix"
TimeField(f, t) == IF f = "nothing" THEN Empty ELSE <<"time", t>>

RMC(f, t, d, p, moving) ==
  << Text("$RMC"), TimeField(f, t), Text(IF f = "fix" THEN "A" ELSE "V") >>
  \o (IF f = "fix" THEN Position(p) ELSE NoPosition)
  \o << IF f = "fix" THEN Text("speed") ELSE Empty,
        IF f = "fix" /\ (moving \/ receiver.course) THEN Text("course") ELSE Empty,
        IF f = "nothing" THEN Empty ELSE <<"date", d>>,
        Empty, Empty, Text(IF f = "fix" THEN "A*" ELSE "N*") >>

GGA(f, t, p, sats) ==
  << Text("$GGA"), TimeField(f, t) >>
  \o (IF f = "fix" THEN Position(p) ELSE NoPosition)
  \o (IF f = "fix"
      THEN << <<"fix", 1>>, <<"sats", sats>>, Text("hdop"), Text("alt"), Text("M"),
              Text("geoid"), Text("M"), Empty, Text("*") >>
      ELSE << <<"fix", 0>>, <<"sats", 0>>, Text("hdop"), Empty, Empty, Empty, Empty,
              Empty, Text("*") >>)

\* snr[i] = 0: the satellite is in view and not tracked.  The checksum hangs on the last
\* field, which is never empty therefore.
Satellite(snr, i) ==
  << <<"prn", i>>, <<"elev", 45>>, <<"az", 120>>,
     IF snr[i] # 0 THEN <<"snr", snr[i]>> ELSE IF i = Len(snr) THEN Text("*") ELSE Empty >>
GSV(snr) == << Text("$GSV"), <<"of", 1>>, <<"msg", 1>>, <<"view", Len(snr)>> >>
            \o [k \in 1 .. 4 * Len(snr) |-> Satellite(snr, ((k - 1) \div 4) + 1)[((k - 1) % 4) + 1]]

-------------------------------------------------------------------------------
(* The parser. *)

\* strtok_r skips empty fields: token n is the n-th of the filled ones.
Filled(line, i) == Cardinality({j \in 1 .. i : line[j] # Empty})
None == Text("none")
Token(line, n) ==
  IF n > Filled(line, Len(line)) THEN None
  ELSE line[CHOOSE i \in 1 .. Len(line) : line[i] # Empty /\ Filled(line, i) = n]

\* What a field begins with, and how long it is
IsA(f) == f[1] \in {"A", "A*"}
IsZero(f) == f = <<"fix", 0>> \/ (f[1] = "sats" /\ f[2] < 10)
IsLong(f) == f[1] \in {"time", "date", "lat", "lon"}

Negative(dir) == dir[1] \in {"S", "W"}

Decimal(f) == ((f[2] \div 200) * 120) + (f[2] % 200)

\* parseNMEACoord: named exactly, computed to the nearest double
Coord(f, dir) == IF Negative(dir) THEN -Decimal(f) ELSE Decimal(f)

\* Mutant of Locator: the square is counted in the whole circle.
LocatorWhole(x, field) ==
  <<x \div field, x \div (field \div 10), (x % (field \div 10)) \div (field \div 240)>>

\* computeGrid: field, square and subsquare of a coordinate counted from the south pole
\* or the antimeridian.  The doubles are cut off: one that is short of its border falls to
\* the subsquare before it.  Whole degrees are exact, and with them field and square.
Locator(x, field) ==
  LET sub == (x % (field \div 10)) \div (field \div 240) IN
  << x \div field, (x % field) \div (field \div 10),
     IF <<x, field>> \in Short THEN sub - 1 ELSE sub >>
GridOf(lat, lon) ==
  [lon |-> Locator(lon + Antimeridian, 2400), lat |-> Locator(lat + Pole, 1200)]

\* RMC: <tag> time status lat N lon W speed course date
ParseRMC(line) ==
  LET T(n) == Token(line, n) IN
  IF IsA(T(3))
  THEN /\ data' = [data EXCEPT !.valid = TRUE,
                               !.time = IF IsLong(T(2)) THEN T(2)[2] ELSE @,
                               !.date = IF IsLong(T(10)) THEN T(10)[2] ELSE @,
                               !.lat = IF T(7) # None THEN Coord(T(4), T(5)) ELSE @,
                               !.lon = IF T(7) # None THEN Coord(T(6), T(7)) ELSE @]
       /\ grid' = IF T(7) # None THEN GridOf(data'.lat, data'.lon) ELSE grid
       /\ timeStr' = data'.time
  ELSE /\ data' = [data EXCEPT !.valid = FALSE]
       /\ timeStr' = -1
       /\ UNCHANGED grid

\* Mutant of FixToken: one field early.
FixTokenEarly == 6

FixToken == 7

\* GGA: <tag> time lat N lon W fix sats; the HDOP and the altitude are left out.
ParseGGA(line) ==
  LET fix == Token(line, FixToken)
      sats == Token(line, FixToken + 1) IN
  /\ data' = IF fix # None /\ ~IsZero(fix)
             THEN [data EXCEPT !.valid = TRUE, !.sats = IF sats # None THEN sats[2] ELSE @]
             ELSE data
  /\ UNCHANGED <<grid, timeStr>>

\* Mutant of SNRToken: takes the azimuth.
AzimuthToken(i) == 3 + 4 * i

SNRToken(i) == 4 + 4 * i

SumOf(snr) == FoldFunction(+, 0, snr)

\* GSV: <tag> msgs msg view, then four fields for each satellite.  The average is kept as
\* the sum and the count it is made of.
ParseGSV(line) ==
  LET found == {i \in 1 .. 4 : Token(line, SNRToken(i)) # None}
      sum == SumOf([i \in found |-> Token(line, SNRToken(i))[2]]) IN
  /\ data' = IF Token(line, 4) # None /\ found # {}
             THEN [data EXCEPT !.snr = <<sum, Cardinality(found)>>] ELSE data
  /\ UNCHANGED <<grid, timeStr>>

-------------------------------------------------------------------------------
Init ==
  /\ data = [valid |-> FALSE, time |-> 0, date |-> 0, lat |-> 0, lon |-> 0,
             sats |-> 0, snr |-> <<0, 0>>]
  /\ grid = [lon |-> <<0, 0, 0>>, lat |-> <<0, 0, 0>>]     \* "AA00aa"
  /\ timeStr = -1                                          \* "n/a"
  /\ receiver \in Receivers
  /\ told = [fix |-> FALSE, rmc |-> FALSE, time |-> 0, date |-> 0, place |-> <<0, 0>>,
             sats |-> 0, snr |-> <<0, 0>>]

HearRMC ==
  \E f \in {"nothing", "time", "fix"}, t \in Times, d \in Dates, p \in Places, m \in BOOLEAN :
    /\ ParseRMC(RMC(f, t, d, p, m))
    /\ told' = IF f = "fix" THEN [told EXCEPT !.fix = TRUE, !.rmc = TRUE, !.time = t, !.date = d,
                                              !.place = p]
               ELSE [told EXCEPT !.fix = FALSE]
    /\ UNCHANGED receiver

\* A GGA sentence may bring a fix; only an RMC sentence takes it back.
HearGGA ==
  \E f \in {"nothing", "time", "fix"}, t \in Times, p \in Places, s \in {4, 9} :
    /\ ParseGGA(GGA(f, t, p, s))
    /\ told' = IF f = "fix" THEN [told EXCEPT !.fix = TRUE, !.sats = s] ELSE told
    /\ UNCHANGED receiver

HearGSV ==
  \E snr \in BoundedSeq(SNRs \cup (IF receiver.tracked THEN {} ELSE {0}), MaxSats) :
    LET tracked == {i \in DOMAIN snr : snr[i] # 0} IN
    /\ ParseGSV(GSV(snr))
    /\ told' = IF tracked # {} THEN [told EXCEPT !.snr = <<SumOf(snr), Cardinality(tracked)>>]
               ELSE told
    /\ UNCHANGED receiver

Next == HearRMC \/ HearGGA \/ HearGSV

Spec == Init /\ [][Next]_vars

-------------------------------------------------------------------------------
(* Properties. *)

\* Types: coordinates are on the globe, times and dates those of a sentence.
TypeOK ==
  /\ data.valid \in BOOLEAN /\ data.time \in Times \cup {0} /\ data.date \in Dates \cup {0}
  /\ data.lat \in -Pole .. Pole /\ data.lon \in -Antimeridian .. Antimeridian
  /\ data.sats \in Nat /\ data.snr \in Nat \X Nat
  /\ timeStr \in Times \cup {-1, 0}

\* Whatever the receiver leaves empty, the fix is what it told, time and position are
\* those of the last RMC sentence with a fix, the satellites those of the last GGA sentence
\* with one, and the time shown is that one or n/a (gnss.cpp:223-263).
FixIsTold ==
  /\ data.valid = told.fix /\ data.sats = told.sats
  /\ told.rmc => data.time = told.time /\ <<data.lat, data.lon>> = told.place
  /\ timeStr # -1 => data.valid /\ timeStr = told.time

\* The locator has letters A to R, digits and letters a to x, and names the subsquare the
\* position is in, or one whose northern or eastern border it is on where its double is
\* inexact, short of the north pole and of 180 degrees east (gnss.cpp:326-344).
From(g, field) == g[1] * field + g[2] * (field \div 10) + g[3] * (field \div 240)
Within(x, g, field) ==
  /\ g[1] \in 0 .. 17 /\ g[2] \in 0 .. 9 /\ g[3] \in 0 .. 23
  /\ x \in From(g, field) .. From(g, field) + field \div 240
  /\ x = From(g, field) + field \div 240 => Inexact(x)
OnGrid == told.rmc /\ data.lat < Pole /\ data.lon < Antimeridian
GridNamesPlace ==
  OnGrid => /\ Within(data.lon + Antimeridian, grid.lon, 2400)
            /\ Within(data.lat + Pole, grid.lat, 1200)

\* A Maidenhead subsquare has its southern and western borders alone (gnss.cpp:327).
GridIsMaidenhead ==
  OnGrid => /\ data.lon + Antimeridian < From(grid.lon, 2400) + 10
            /\ data.lat + Pole < From(grid.lat, 1200) + 5

\* A receiver that fills the fields the parser counts is understood: the date and the
\* average SNR are those it told (gnss.cpp:212, 266).
FullSentencesAreTold ==
  /\ receiver.course => data.date = told.date
  /\ receiver.tracked => data.snr = told.snr

\* The date is that of the sentence (gnss.cpp:212, "$--RMC,time,status,lat,N,lon,W,spd,cog,date").
DateIsTold == data.date = told.date

\* The average is over the SNR fields (gnss.cpp:266, "sat1_prn,sat1_elev,sat1_az,sat1_snr").
SNRIsTold == data.snr = told.snr

================================================================================
