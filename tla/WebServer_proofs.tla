---------------------------- MODULE WebServer_proofs ----------------------------
(***************************************************************************)
(* For every set of clients, of settings and of uploads, every buffer of at *)
(* least five units and every world: a handler reads the bytes of its own   *)
(* request, the configuration in use is the stored one, and, in the worlds  *)
(* where nothing fails, uploads that fit lead their file and the            *)
(* configuration is the store of ConfigStore.                               *)
(*                                                                          *)
(* BufferInv says how much of the request at hand is in the buffer and how  *)
(* much is on the wire; it needs ClientInv, that an open connection waits   *)
(* in the backlog once or is the one being served.                          *)
(***************************************************************************)
EXTENDS WebServer, SequenceTheorems, TLAPS

-------------------------------------------------------------------------------
(* The stored configuration. *)

\* Only between a PUT and its save do RAM and NVS differ.
StoredInv == pc # "save" /\ nvsReady /\ ~nvsFailed => appConfig = Read(nvs)

LEMMA StepStored ==
  ASSUME StoredInv, [Next]_vars
  PROVE  StoredInv'
<1> USE DEF StoredInv
<1>1. CASE Boot
  BY <1>1 DEF Boot
<1>2. CASE SaveConfig
  <2>1. CASE nvs' = [layout |-> "own", cfg |-> appConfig] /\ appConfig' = appConfig
    BY <2>1 DEF Read
  <2>2. CASE nvsFailed'
    BY <2>2
  <2> QED
    BY <1>2, <2>1, <2>2 DEF SaveConfig
<1>3. CASE PutConfig
  BY <1>3 DEF PutConfig
<1>4. CASE Restart
  BY <1>4 DEF Restart
<1>5. CASE /\ UNCHANGED <<appConfig, nvs, nvsReady, nvsFailed>>
           /\ pc # "save"
  BY <1>5 DEF Read
<1>6. CASE UNCHANGED <<pc, appConfig, nvs, nvsReady, nvsFailed>>
  BY <1>6 DEF Read
<1>7. ASSUME Accept \/ RecvFirst \/ RecvNothing \/ RecvMore \/ Dispatch \/ Close \/ GetConfig
             \/ GetFile
      PROVE  UNCHANGED <<appConfig, nvs, nvsReady, nvsFailed>> /\ pc # "save"
  BY <1>7 DEF Accept, RecvFirst, RecvNothing, RecvMore, Dispatch, Close, GetConfig, GetFile,
              InServer, flashVars, histVars
<1>8. ASSUME PutFile \/ WriteFile \/ DeleteFile
      PROVE  UNCHANGED <<appConfig, nvs, nvsReady, nvsFailed>> /\ pc # "save"
  BY <1>8 DEF PutFile, WriteFile, DeleteFile, histVars
<1>9. ASSUME NEW c \in Client, Ask(c) \/ Stall(c)
      PROVE  UNCHANGED <<pc, appConfig, nvs, nvsReady, nvsFailed>>
  BY <1>9 DEF Ask, Stall, flashVars
<1>10. ASSUME UNCHANGED vars
       PROVE  UNCHANGED <<pc, appConfig, nvs, nvsReady, nvsFailed>>
  BY <1>10 DEF vars
<1> QED
  BY <1>1, <1>2, <1>3, <1>4, <1>5, <1>6, <1>7, <1>8, <1>9, <1>10 DEF Next, Serve

\* Between requests the configuration in use is the one a restart would bring back, as
\* long as NVS takes its writes: whatever the record in NVS was, and through every cut of
\* power (webserver.cpp:203-243).
THEOREM UsedStaysStored == Spec => []UsedIsStored
<1>1. Init => StoredInv
  BY DEF Init, StoredInv
<1>2. StoredInv /\ [Next]_vars => StoredInv'
  BY StepStored
<1>3. StoredInv => UsedIsStored
  BY DEF StoredInv, UsedIsStored
<1> QED
  BY <1>1, <1>2, <1>3, PTL DEF Spec

-------------------------------------------------------------------------------
(* Requests and the buffer. *)

UnitKind == {"nul", "length", "blank", "station", "bands", "data"} \union Kind
Units == [u : UnitKind, v : Nat]
Fields == [station : Nat, bands : Nat]
AnyOp == [kind : Kind \union {"none"}, cfg : Fields, data : Seq(Nat)]

LEMMA UnitType ==
  ASSUME NEW u \in UnitKind, NEW v \in Nat
  PROVE  Unit(u, v) \in Units /\ Unit(u, v).u = u /\ Unit(u, v).v = v
BY DEF Unit, Units

\* The body of a PUT: two fields of a configuration, or pieces of a file.
LEMMA BodyShape ==
  ASSUME NEW op \in AnyOp
  PROVE  /\ Body(op) \in Seq(Units)
         /\ \A i \in 1 .. Len(Body(op)) : Body(op)[i].u \in {"station", "bands", "data"}
         /\ op.kind = "putConfig" => Body(op) = <<Unit("station", op.cfg.station),
                                                  Unit("bands", op.cfg.bands)>>
         /\ op.kind # "putConfig" =>
              /\ Len(Body(op)) = Len(op.data)
              /\ \A i \in 1 .. Len(op.data) : Body(op)[i] = Unit("data", op.data[i])
<1>1. CASE op.kind = "putConfig"
  <2>1. Body(op) = <<Unit("station", op.cfg.station), Unit("bands", op.cfg.bands)>>
    BY <1>1 DEF Body
  <2>2. /\ Unit("station", op.cfg.station) \in Units /\ Unit("bands", op.cfg.bands) \in Units
        /\ Unit("station", op.cfg.station).u = "station"
        /\ Unit("bands", op.cfg.bands).u = "bands"
    BY UnitType DEF AnyOp, Fields, UnitKind
  <2> QED
    BY <1>1, <2>1, <2>2
<1>2. CASE op.kind # "putConfig"
  <2> DEFINE n == Len(op.data)
             e(i) == Unit("data", op.data[i])
  <2>1. op.data \in Seq(Nat) /\ n \in Nat /\ DOMAIN op.data = 1 .. n
    BY LenProperties DEF AnyOp
  <2>2. \A i \in 1 .. n : op.data[i] \in Nat
    BY <2>1, ElementOfSeq
  <2>3. \A i \in 1 .. n : e(i) \in Units /\ e(i).u = "data"
    BY <2>2, UnitType DEF UnitKind
  <2>4. Body(op) = [i \in 1 .. n |-> Unit("data", op.data[i])]
    BY <1>2, <2>1 DEF Body
  <2>5. Body(op) \in Seq(Units) /\ Len(Body(op)) = n
    BY <2>1, <2>3, <2>4
  <2> QED
    BY <1>2, <2>3, <2>4, <2>5
<1> QED
  BY <1>1, <1>2

\* A request begins with its request line, and no unit of it ends a text.
LEMMA RequestShape ==
  ASSUME NEW op \in AnyOp, op.kind \in Kind
  PROVE  /\ Request(op) \in Seq(Units) /\ Len(Request(op)) \in Nat /\ Len(Request(op)) >= 2
         /\ Request(op)[1].u = op.kind
         /\ \A i \in 1 .. Len(Request(op)) : Request(op)[i] # NUL
         /\ IsPut(op.kind) =>
              /\ Len(Body(op)) \in Nat /\ Len(Request(op)) = 3 + Len(Body(op))
              /\ Request(op)[2] = Unit("length", Len(Body(op)))
              /\ Request(op)[3].u = "blank"
              /\ \A i \in 1 .. Len(Body(op)) : Request(op)[3 + i] = Body(op)[i]
<1> DEFINE line == Unit(op.kind, 0)
           length == Unit("length", Len(Body(op)))
           blank == Unit("blank", 0)
<1>1. Body(op) \in Seq(Units) /\ Len(Body(op)) \in Nat
  BY BodyShape, LenProperties
<1>2. /\ line \in Units /\ line.u = op.kind /\ line # NUL
      /\ length \in Units /\ length.u = "length" /\ length # NUL
      /\ blank \in Units /\ blank.u = "blank" /\ blank # NUL
  <2>1. NUL.u = "nul"
    BY UnitType DEF NUL, UnitKind
  <2>2. op.kind # "nul"
    BY DEF Kind
  <2>3. line \in Units /\ line.u = op.kind
    BY UnitType DEF UnitKind
  <2>4. length \in Units /\ length.u = "length"
    BY <1>1, UnitType DEF UnitKind
  <2>5. blank \in Units /\ blank.u = "blank"
    BY UnitType DEF UnitKind
  <2> HIDE DEF line, length, blank
  <2> QED
    BY <2>1, <2>2, <2>3, <2>4, <2>5
<1>3. CASE ~IsPut(op.kind)
  <2>1. Request(op) = <<line, blank>>
    BY <1>3 DEF Request
  <2> HIDE DEF line, blank
  <2> QED
    BY <1>2, <1>3, <2>1
<1>4. CASE IsPut(op.kind)
  <2> DEFINE head == <<line, length, blank>>
  <2>1. Request(op) = head \o Body(op)
    BY <1>4 DEF Request, Head3
  <2> HIDE DEF line, length, blank
  <2>2. head \in Seq(Units) /\ Len(head) = 3 /\ head[1] = line /\ head[2] = length /\ head[3] = blank
    BY <1>2
  <2> HIDE DEF head
  <2>3. /\ Request(op) \in Seq(Units) /\ Len(Request(op)) = 3 + Len(Body(op))
        /\ \A i \in 1 .. 3 + Len(Body(op)) :
             Request(op)[i] = IF i <= 3 THEN head[i] ELSE Body(op)[i - 3]
    <3>1. /\ head \o Body(op) \in Seq(Units) /\ Len(head \o Body(op)) = Len(head) + Len(Body(op))
          /\ \A i \in 1 .. Len(head) + Len(Body(op)) :
               (head \o Body(op))[i] = IF i <= Len(head) THEN head[i] ELSE Body(op)[i - Len(head)]
      BY <1>1, <2>2, ConcatProperties
    <3> QED
      BY <2>1, <2>2, <3>1
  <2>4. Request(op)[1] = line /\ Request(op)[2] = length /\ Request(op)[3] = blank
    BY <1>1, <2>2, <2>3
  <2>5. ASSUME NEW i \in 1 .. Len(Body(op)) PROVE Request(op)[3 + i] = Body(op)[i]
    <3>1. 3 + i \in 1 .. 3 + Len(Body(op)) /\ ~(3 + i <= 3) /\ (3 + i) - 3 = i
      BY <1>1
    <3> QED
      BY <2>3, <3>1
  <2>6. ASSUME NEW i \in 1 .. Len(Body(op)) PROVE Body(op)[i] # NUL
    <3>1. NUL.u = "nul"
      BY UnitType DEF NUL, UnitKind
    <3> QED
      BY <3>1, BodyShape
  <2>7. ASSUME NEW i \in 1 .. Len(Request(op)) PROVE Request(op)[i] # NUL
    <3>1. i = 1 \/ i = 2 \/ i = 3 \/ i - 3 \in 1 .. Len(Body(op))
      BY <1>1, <2>3
    <3>2. ASSUME i - 3 \in 1 .. Len(Body(op)) PROVE Request(op)[i] # NUL
      <4>1. Request(op)[3 + (i - 3)] = Body(op)[i - 3] /\ 3 + (i - 3) = i
        BY <2>5, <3>2
      <4> QED
        BY <2>6, <3>2, <4>1
    <3> QED
      BY <1>2, <2>4, <3>1, <3>2
  <2> QED
    BY <1>1, <1>2, <2>3, <2>4, <2>5, <2>7 DEF length
<1> QED
  BY <1>3, <1>4

\* What is received follows what was there, and a NUL ends it.
LEMMA StoreShape ==
  ASSUME NEW b \in [Cells -> Units], NEW at \in Nat, NEW s \in Seq(Units), at + Len(s) <= Room
  PROVE  /\ Store(b, at, s) \in [Cells -> Units]
         /\ \A i \in 1 .. at : Store(b, at, s)[i] = b[i]
         /\ \A j \in 1 .. Len(s) : Store(b, at, s)[at + j] = s[j]
         /\ Store(b, at, s)[at + Len(s) + 1] = NUL
<1>1. Len(s) \in Nat /\ DOMAIN s = 1 .. Len(s) /\ Room \in Nat
  BY LenProperties, ServerAssumption
<1>2. NUL \in Units
  BY UnitType DEF NUL, UnitKind
<1>3. \A i \in Cells : Store(b, at, s)[i] = IF i - at \in 1 .. Len(s) THEN s[i - at]
                                            ELSE IF i = at + Len(s) + 1 THEN NUL ELSE b[i]
  BY <1>1 DEF Store
<1>4. Store(b, at, s) \in [Cells -> Units]
  <2>1. \A i \in Cells : i - at \in 1 .. Len(s) => s[i - at] \in Units
    BY <1>1, ElementOfSeq
  <2>2. \A i \in Cells : Store(b, at, s)[i] \in Units
    BY <1>2, <1>3, <2>1
  <2>3. Store(b, at, s) = [i \in Cells |-> Store(b, at, s)[i]]
    BY DEF Store
  <2> QED
    BY <2>2, <2>3
<1>5. ASSUME NEW i \in 1 .. at PROVE Store(b, at, s)[i] = b[i]
  <2>1. i \in Cells /\ ~(i - at \in 1 .. Len(s)) /\ i # at + Len(s) + 1
    BY <1>1 DEF Cells
  <2> QED
    BY <1>3, <2>1
<1>6. ASSUME NEW j \in 1 .. Len(s) PROVE Store(b, at, s)[at + j] = s[j]
  <2>1. at + j \in Cells /\ (at + j) - at = j
    BY <1>1 DEF Cells
  <2> QED
    BY <1>3, <2>1
<1>7. Store(b, at, s)[at + Len(s) + 1] = NUL
  <2>1. at + Len(s) + 1 \in Cells /\ ~((at + Len(s) + 1) - at \in 1 .. Len(s))
    BY <1>1 DEF Cells
  <2> QED
    BY <1>3, <2>1
<1> QED
  BY <1>4, <1>5, <1>6, <1>7

\* The text of the buffer goes to the first NUL.
LEMMA TextOf ==
  ASSUME NEW b \in [Cells -> Units], NEW s \in Seq(Units), NEW n \in 0 .. Room, n <= Len(s),
         \A i \in 1 .. n : b[i] = s[i] /\ s[i] # NUL, b[n + 1] = NUL
  PROVE  Text(b) = SubSeq(s, 1, n)
<1> DEFINE Ends(i) == b[i] = NUL /\ \A j \in 1 .. i - 1 : b[j] # NUL
<1>1. n + 1 \in Cells /\ Len(s) \in Nat /\ Room \in Nat
  BY LenProperties, ServerAssumption DEF Cells
<1>2. Ends(n + 1)
  OBVIOUS
<1>3. ASSUME NEW i \in Cells, Ends(i) PROVE i = n + 1
  <2>1. ~(i \in 1 .. n)
    BY <1>3
  <2>2. ~(n + 1 \in 1 .. i - 1)
    BY <1>3
  <2> QED
    BY <1>1, <2>1, <2>2 DEF Cells
<1>4. (CHOOSE i \in Cells : Ends(i)) = n + 1
  <2> HIDE DEF Ends
  <2> QED
    BY <1>1, <1>2, <1>3
<1>5. Text(b) = SubSeq(b, 1, n)
  <2>1. Text(b) = SubSeq(b, 1, (CHOOSE i \in Cells : Ends(i)) - 1)
    BY DEF Text
  <2> HIDE DEF Ends
  <2>2. (n + 1) - 1 = n
    OBVIOUS
  <2> QED
    BY <1>4, <2>1, <2>2
<1>6. \A i \in 1 .. n : b[i] \in Units /\ s[i] \in Units
  BY <1>1 DEF Cells
<1>7. /\ SubSeq(b, 1, n) \in Seq(Units) /\ Len(SubSeq(b, 1, n)) = IF 1 <= n THEN n - 1 + 1 ELSE 0
      /\ \A i \in 1 .. n - 1 + 1 : SubSeq(b, 1, n)[i] = b[1 + i - 1]
  BY <1>6, SubSeqProperties
<1>8. /\ SubSeq(s, 1, n) \in Seq(Units) /\ Len(SubSeq(s, 1, n)) = IF 1 <= n THEN n - 1 + 1 ELSE 0
      /\ \A i \in 1 .. n - 1 + 1 : SubSeq(s, 1, n)[i] = s[1 + i - 1]
  BY <1>6, SubSeqProperties
<1>9. SubSeq(b, 1, n) = SubSeq(s, 1, n)
  <2>1. Len(SubSeq(b, 1, n)) = n /\ Len(SubSeq(s, 1, n)) = n
    BY <1>7, <1>8
  <2>2. \A i \in 1 .. n : SubSeq(b, 1, n)[i] = b[i] /\ SubSeq(s, 1, n)[i] = s[i]
    <3>1. \A i \in 1 .. n : 1 + i - 1 = i /\ i \in 1 .. n - 1 + 1
      OBVIOUS
    <3> QED
      BY <1>7, <1>8, <3>1
  <2> QED
    BY <1>7, <1>8, <2>1, <2>2, SeqEqual
<1> QED
  BY <1>5, <1>9

\* What a buffer is after k units of what is left of a request, w, arrived behind the first n.
Joined(s, n, b, w, k) ==
  LET now == Store(b, n, SubSeq(w, 1, k))
  IN  /\ now \in [Cells -> Units] /\ n + k <= Len(s)
      /\ \A i \in 1 .. n + k : now[i] = s[i]
      /\ now[n + k + 1] = NUL
      /\ SubSeq(w, k + 1, Len(w)) = SubSeq(s, n + k + 1, Len(s))
      /\ SubSeq(w, k + 1, Len(w)) \in Seq(Units)

LEMMA Arrival ==
  ASSUME NEW s \in Seq(Units), NEW n \in Nat, NEW b \in [Cells -> Units], NEW w,
         w = SubSeq(s, n + 1, Len(s)), NEW k \in 1 .. Len(w), n + k <= Room,
         \A i \in 1 .. n : b[i] = s[i]
  PROVE  Joined(s, n, b, w, k)
<1> DEFINE got == SubSeq(w, 1, k)
           now == Store(b, n, got)
           left == SubSeq(w, k + 1, Len(w))
           rest == SubSeq(s, n + k + 1, Len(s))
<1>1. Len(s) \in Nat /\ \A i \in 1 .. Len(s) : s[i] \in Units
  BY LenProperties, ElementOfSeq
<1>2. /\ w \in Seq(Units) /\ Len(w) = IF n + 1 <= Len(s) THEN Len(s) - (n + 1) + 1 ELSE 0
      /\ \A i \in 1 .. Len(s) - (n + 1) + 1 : w[i] = s[(n + 1) + i - 1]
  <2>1. \A i \in n + 1 .. Len(s) : s[i] \in Units
    BY <1>1
  <2> QED
    BY <1>1, <2>1, SubSeqProperties
<1>3. /\ Len(w) = Len(s) - n /\ n + k <= Len(s)
      /\ \A i \in 1 .. Len(w) : w[i] = s[n + i] /\ w[i] \in Units
  <2>1. Len(w) = Len(s) - n
    BY <1>1, <1>2
  <2>2. \A i \in 1 .. Len(w) : (n + 1) + i - 1 = n + i /\ i \in 1 .. Len(s) - (n + 1) + 1
    BY <1>1, <2>1
  <2> QED
    BY <1>1, <1>2, <2>1, <2>2, ElementOfSeq
<1>4. /\ got \in Seq(Units) /\ Len(got) = k /\ \A i \in 1 .. k : got[i] = w[i]
  <2>1. \A i \in 1 .. k : w[i] \in Units
    BY <1>1, <1>3
  <2>2. /\ got \in Seq(Units) /\ Len(got) = IF 1 <= k THEN k - 1 + 1 ELSE 0
        /\ \A i \in 1 .. k - 1 + 1 : got[i] = w[1 + i - 1]
    BY <1>1, <1>3, <2>1, SubSeqProperties
  <2> HIDE DEF got
  <2>3. k \in Nat /\ k >= 1 /\ k - 1 + 1 = k
    BY <1>1, <1>3
  <2>4. Len(got) = k
    BY <2>2, <2>3
  <2>5. ASSUME NEW i \in 1 .. k PROVE got[i] = w[i]
    <3>1. 1 + i - 1 = i /\ i \in 1 .. k - 1 + 1
      BY <2>3
    <3>2. got[i] = w[1 + i - 1]
      BY <2>2, <3>1
    <3> QED
      BY <3>1, <3>2
  <2> QED
    BY <2>2, <2>4, <2>5
<1>5. /\ now \in [Cells -> Units] /\ now[n + k + 1] = NUL
      /\ \A i \in 1 .. n : now[i] = b[i]
      /\ \A i \in 1 .. k : now[n + i] = got[i]
  <2> HIDE DEF got
  <2>1. n + Len(got) <= Room
    BY <1>4
  <2> QED
    BY <1>4, <2>1, StoreShape
<1>6. ASSUME NEW i \in 1 .. n + k PROVE now[i] = s[i]
  <2>1. CASE i \in 1 .. n
    BY <1>5, <2>1
  <2>2. CASE i - n \in 1 .. k
    <3>1. now[n + (i - n)] = got[i - n] /\ got[i - n] = w[i - n]
      BY <1>4, <1>5, <2>2
    <3>2. w[i - n] = s[n + (i - n)] /\ n + (i - n) = i
      BY <1>1, <1>3, <2>2
    <3> QED
      BY <3>1, <3>2
  <2>3. i \in 1 .. n \/ i - n \in 1 .. k
    BY <1>1, <1>3
  <2> QED
    BY <2>1, <2>2, <2>3
<1>7. /\ left \in Seq(Units) /\ Len(left) = Len(w) - k
      /\ \A i \in 1 .. Len(w) - k : left[i] = w[k + i]
  <2>1. \A i \in k + 1 .. Len(w) : w[i] \in Units
    BY <1>1, <1>3
  <2>2. /\ left \in Seq(Units) /\ Len(left) = IF k + 1 <= Len(w) THEN Len(w) - (k + 1) + 1 ELSE 0
        /\ \A i \in 1 .. Len(w) - (k + 1) + 1 : left[i] = w[(k + 1) + i - 1]
    BY <1>1, <1>3, <2>1, SubSeqProperties
  <2> HIDE DEF left
  <2>3. k \in Nat /\ Len(w) \in Nat /\ k <= Len(w)
    BY <1>1, <1>3
  <2>4. Len(left) = Len(w) - k
    BY <2>2, <2>3
  <2>5. ASSUME NEW i \in 1 .. Len(w) - k PROVE left[i] = w[k + i]
    <3>1. (k + 1) + i - 1 = k + i /\ i \in 1 .. Len(w) - (k + 1) + 1
      BY <2>3
    <3>2. left[i] = w[(k + 1) + i - 1]
      BY <2>2, <3>1
    <3> QED
      BY <3>1, <3>2
  <2> QED
    BY <2>2, <2>4, <2>5
<1>8. /\ rest \in Seq(Units) /\ Len(rest) = Len(s) - (n + k)
      /\ \A i \in 1 .. Len(s) - (n + k) : rest[i] = s[n + k + i]
  <2>1. \A i \in n + k + 1 .. Len(s) : s[i] \in Units
    BY <1>1, <1>3
  <2>2. /\ rest \in Seq(Units)
        /\ Len(rest) = IF n + k + 1 <= Len(s) THEN Len(s) - (n + k + 1) + 1 ELSE 0
        /\ \A i \in 1 .. Len(s) - (n + k + 1) + 1 : rest[i] = s[(n + k + 1) + i - 1]
    BY <1>1, <1>3, <2>1, SubSeqProperties
  <2>3. \A i \in 1 .. Len(s) - (n + k) :
           (n + k + 1) + i - 1 = n + k + i /\ i \in 1 .. Len(s) - (n + k + 1) + 1
    BY <1>1, <1>3
  <2> QED
    BY <1>1, <1>3, <2>2, <2>3
<1>9. left = rest
  <2> HIDE DEF left, rest
  <2>1. Len(left) = Len(rest)
    BY <1>1, <1>3, <1>7, <1>8
  <2>2. \A i \in 1 .. Len(left) : left[i] = rest[i]
    <3> SUFFICES ASSUME NEW i \in 1 .. Len(left) PROVE left[i] = rest[i]
      OBVIOUS
    <3>1. left[i] = w[k + i] /\ rest[i] = s[n + k + i]
      BY <1>7, <1>8, <2>1
    <3>2. k + i \in 1 .. Len(w) /\ n + (k + i) = n + k + i
      BY <1>1, <1>3, <1>7
    <3> QED
      BY <1>3, <3>1, <3>2
  <2> QED
    BY <1>7, <1>8, <2>1, <2>2, SeqEqual
<1> QED
  BY <1>3, <1>5, <1>6, <1>7, <1>9 DEF Joined

-------------------------------------------------------------------------------
(* The inductive invariant. *)

Place == {"boot", "accept", "recv", "more", "save", "writeFile", "close"} \union Kind
Answers == [s : {"none", "lost", "ok", "500", "404", "config", "file"}, cfg : Fields, data : Seq(Nat)]
Connection == [open : BOOLEAN, op : AnyOp, answer : Answers]

ServerTypes ==
  /\ conn \in [Client -> Connection] /\ wire \in [Client -> Seq(Units)]
  /\ backlog \in Seq(Client) /\ cur \in Client /\ pc \in Place
  /\ buf \in [Cells -> Units] /\ total \in 0 .. Room
  /\ appConfig \in Fields /\ nvs.cfg \in Fields
  /\ file \in [exists : BOOLEAN, data : Seq(Nat)] /\ world \in Scenario

Asked(c) == Request(conn[c].op)

\* Nothing of the request was received; it may be lost.
Unread(c) == wire[c] = <<>> \/ wire[c] = Asked(c)

\* Who waits is open, waits once, and is not the one who is served.
Busy == pc \notin {"boot", "accept"}
ClientInv ==
  /\ Busy => conn[cur].open
  /\ \A c \in Client : conn[c].open => conn[c].op.kind \in Kind
  /\ \A i \in 1 .. Len(backlog) :
       conn[backlog[i]].open /\ Unread(backlog[i]) /\ (Busy => backlog[i] # cur)
  /\ \A i, j \in 1 .. Len(backlog) : backlog[i] = backlog[j] => i = j

\* What has been received is in the buffer, ended, and the rest is on the wire or lost.
Holding == pc \in Kind \union {"more", "writeFile"}
BufferInv ==
  /\ pc \in {"boot", "accept", "recv"} => total = 0
  /\ pc = "recv" => Unread(cur)
  /\ Holding => /\ total >= 1 /\ total <= Len(Asked(cur))
                /\ \A i \in 1 .. total : buf[i] = Asked(cur)[i]
                /\ buf[total + 1] = NUL
  /\ pc = "more" => wire[cur] = <<>> \/ wire[cur] = SubSeq(Asked(cur), total + 1, Len(Asked(cur)))
  /\ pc \in Kind => conn[cur].op.kind = pc
  /\ pc = "save" => conn[cur].op.kind = "putConfig"
  /\ pc = "writeFile" => conn[cur].op.kind = "putFile"

ServerInv == ServerTypes /\ ClientInv /\ BufferInv

\* In a calm world nothing is lost: a PUT is received whole, or as much of it as fits.
Untouched ==
  \A i \in 1 .. Len(backlog) : /\ wire[backlog[i]] = Asked(backlog[i])
                               /\ conn[backlog[i]].answer.s = "none"
CalmWire ==
  /\ Untouched
  /\ pc = "recv" => wire[cur] = Asked(cur)
  /\ pc = "more" => wire[cur] = SubSeq(Asked(cur), total + 1, Len(Asked(cur)))
  /\ pc = "more" /\ IsPut(conn[cur].op.kind) =>
       total >= 3 /\ want = Len(Body(conn[cur].op)) /\ have = total - 3
  /\ pc \in Kind \union {"writeFile"} /\ IsPut(conn[cur].op.kind) =>
       total = Len(Asked(cur)) \/ total = Room

CalmAnswer ==
  /\ Busy /\ pc # "close" => conn[cur].answer.s = "none"
  /\ pc = "close" => conn[cur].answer.s \notin {"none", "lost"}
  /\ ~nvsFailed /\ (pc # "boot" => nvsReady)
  /\ pc = "save" => appConfig = conn[cur].op.cfg
  /\ pc = "close" /\ conn[cur].op.kind = "putFile" /\ Fits(conn[cur].op) =>
       IsPrefix(conn[cur].op.data, file.data)

CalmInv == Calm => CalmWire /\ CalmAnswer

LEMMA AnswerType ==
  /\ Default \in Fields /\ NoOp \in AnyOp
  /\ \A s \in {"none", "lost", "ok", "500", "404", "config", "file"} :
       Answer(s) \in Answers /\ Answer(s).s = s /\ Answer(s).cfg = Default
<1>1. Default \in Fields /\ <<>> \in Seq(Nat)
  BY EmptySeq DEF Default, Fields
<1>2. NoOp \in AnyOp
  BY <1>1 DEF NoOp, AnyOp
<1> QED
  BY <1>1, <1>2 DEF Answer, Answers

LEMMA ScenarioStep ==
  ASSUME world \in Scenario
  PROVE  /\ \A f : Fault(f) => world' \in Scenario /\ world'.may = world.may /\ f \in world.may
         /\ \A n \in Nat : [world EXCEPT !.requests = n] \in Scenario
         /\ \A n \in Nat : [world EXCEPT !.requests = n].may = world.may
         /\ \A n \in Nat : [world EXCEPT !.restarts = n] \in Scenario
         /\ \A n \in Nat : [world EXCEPT !.restarts = n].may = world.may
<1>1. ASSUME NEW f, Fault(f)
      PROVE  world' \in Scenario /\ world'.may = world.may /\ f \in world.may
  <2>1. world' = [world EXCEPT !.failures = world.failures - 1] /\ world.failures > 0
        /\ f \in world.may
    BY <1>1 DEF Fault
  <2>2. world.failures - 1 \in Nat
    BY <2>1 DEF Scenario
  <2> QED
    BY <2>1, <2>2 DEF Scenario
<1> QED
  BY <1>1 DEF Scenario

\* What a client asks for.
LEMMA OpsType ==
  ASSUME world \in Scenario, NEW op \in Ops(world.kinds)
  PROVE  /\ op \in AnyOp /\ op.kind \in Kind
         /\ op.cfg \in (IF op.kind = "putConfig" THEN Config ELSE {Default})
<1>1. /\ world.kinds \subseteq Kind /\ Config \subseteq Fields /\ Default \in Fields
      /\ Content \subseteq Seq(Nat) /\ <<>> \in Seq(Nat)
  <2>1. \A d \in Seq(Nat \ {0}) : d \in Seq(Nat)
    BY SeqMonotonic
  <2> QED
    BY <2>1, EmptySeq, AnswerType, ServerAssumption DEF Scenario, Config, Fields
<1>2. NoOp = [kind |-> "none", cfg |-> Default, data |-> <<>>]
  BY DEF NoOp
<1>3. CASE \E k \in world.kinds \ {"putConfig", "putFile"} : op = [NoOp EXCEPT !.kind = k]
  <2>1. PICK k \in world.kinds \ {"putConfig", "putFile"} : op = [NoOp EXCEPT !.kind = k]
    BY <1>3
  <2>2. op = [kind |-> k, cfg |-> Default, data |-> <<>>]
    BY <1>2, <2>1
  <2>3. op.kind = k /\ op.cfg = Default /\ op.data = <<>>
    BY <2>2
  <2>4. k \in Kind /\ k # "putConfig"
    BY <1>1
  <2>5. op \in AnyOp
    BY <1>1, <2>2, <2>4 DEF AnyOp
  <2> QED
    BY <1>1, <2>3, <2>4, <2>5
<1>4. CASE \E c \in Config : "putConfig" \in world.kinds /\ op = [NoOp EXCEPT !.kind = "putConfig", !.cfg = c]
  <2>1. PICK c \in Config : "putConfig" \in world.kinds
                            /\ op = [NoOp EXCEPT !.kind = "putConfig", !.cfg = c]
    BY <1>4
  <2>2. op = [kind |-> "putConfig", cfg |-> c, data |-> <<>>]
    BY <1>2, <2>1
  <2>3. op.kind = "putConfig" /\ op.cfg = c /\ op.data = <<>>
    BY <2>2
  <2>4. c \in Fields /\ "putConfig" \in Kind
    BY <1>1 DEF Kind
  <2>5. op \in AnyOp
    BY <1>1, <2>2, <2>4 DEF AnyOp
  <2> QED
    BY <1>1, <2>3, <2>4, <2>5
<1>5. CASE \E d \in Content : "putFile" \in world.kinds /\ op = [NoOp EXCEPT !.kind = "putFile", !.data = d]
  <2>1. PICK d \in Content : "putFile" \in world.kinds
                             /\ op = [NoOp EXCEPT !.kind = "putFile", !.data = d]
    BY <1>5
  <2>2. op = [kind |-> "putFile", cfg |-> Default, data |-> d]
    BY <1>2, <2>1
  <2>3. op.kind = "putFile" /\ op.cfg = Default /\ op.data = d
    BY <2>2
  <2>4. d \in Seq(Nat) /\ "putFile" \in Kind
    BY <1>1 DEF Kind
  <2>5. op \in AnyOp
    BY <1>1, <2>2, <2>4 DEF AnyOp
  <2> QED
    BY <1>1, <2>3, <2>4, <2>5
<1> QED
  BY <1>3, <1>4, <1>5 DEF Ops

\* A handler answers, and changes nothing of the others.
LEMMA ReplyShape ==
  ASSUME ServerTypes, NEW a \in Answers, Replies(a)
  PROVE  /\ pc' = "close" /\ conn' \in [Client -> Connection]
         /\ conn'[cur].answer = a /\ conn'[cur].op = conn[cur].op
         /\ conn'[cur].open = conn[cur].open
         /\ \A c \in Client : c # cur => conn'[c] = conn[c]
<1> DEFINE new == [conn[cur] EXCEPT !.answer = a]
<1>1. conn \in [Client -> Connection] /\ cur \in Client /\ conn[cur] \in Connection
  BY DEF ServerTypes
<1>2. new \in Connection /\ new.answer = a /\ new.op = conn[cur].op /\ new.open = conn[cur].open
  BY <1>1 DEF Connection
<1>3. conn' = [conn EXCEPT ![cur] = new] /\ pc' = "close"
  BY <1>1 DEF Replies
<1> HIDE DEF new
<1> QED
  BY <1>1, <1>2, <1>3

LEMMA StepReply ==
  ASSUME ServerInv, NEW a \in Answers, Replies(a), Busy,
         UNCHANGED <<wire, backlog, cur, total>>, buf' \in [Cells -> Units],
         appConfig' \in Fields, nvs'.cfg \in Fields, file' \in [exists : BOOLEAN,
         data : Seq(Nat)],
         world' \in Scenario
  PROVE  ServerInv'
<1>1. /\ pc' = "close" /\ conn' \in [Client -> Connection]
      /\ \A c \in Client : conn'[c].op = conn[c].op /\ conn'[c].open = conn[c].open
  BY ReplyShape DEF ServerInv
<1>2. ServerTypes'
  BY <1>1 DEF ServerInv, ServerTypes, Place
<1>3. ClientInv'
  <2>1. \A i \in 1 .. Len(backlog) : backlog[i] \in Client
    BY ElementOfSeq DEF ServerInv, ServerTypes
  <2>2. \A c \in Client : Unread(c) => Unread(c)'
    BY <1>1 DEF Unread, Asked
  <2>3. backlog' = backlog /\ cur' = cur /\ Busy
    OBVIOUS
  <2> QED
    BY <1>1, <2>1, <2>2, <2>3 DEF ServerInv, ServerTypes, ClientInv
<1>4. BufferInv'
  BY <1>1 DEF BufferInv, Holding, Kind
<1> QED
  BY <1>2, <1>3, <1>4 DEF ServerInv

-------------------------------------------------------------------------------
(* Its steps. *)

LEMMA StepAsk ==
  ASSUME ServerInv, NEW c \in Client, Ask(c)
  PROVE  ServerInv'
<1>1. PICK op \in Ops(world.kinds) :
        /\ conn' = [conn EXCEPT ![c] = [open |-> TRUE, op |-> op, answer |-> Answer("none")]]
        /\ wire' = [wire EXCEPT ![c] = Request(op)]
  BY DEF Ask
<1>2. /\ pc # "boot" /\ ~conn[c].open /\ backlog' = Append(backlog, c)
      /\ UNCHANGED <<pc, cur, buf, total, appConfig, nvs, file>>
      /\ world' = [world EXCEPT !.requests = world.requests - 1] /\ world.requests > 0
  BY DEF Ask, recvVars, flashVars
<1>3. op \in AnyOp /\ op.kind \in Kind /\ Request(op) \in Seq(Units)
  BY OpsType, RequestShape DEF ServerInv, ServerTypes
<1>4. /\ conn' \in [Client -> Connection] /\ conn'[c].op = op /\ conn'[c].open
      /\ wire' \in [Client -> Seq(Units)] /\ wire'[c] = Request(op)
      /\ \A d \in Client : d # c => conn'[d] = conn[d] /\ wire'[d] = wire[d]
  <2> DEFINE new == [open |-> TRUE, op |-> op, answer |-> Answer("none")]
  <2>1. new \in Connection /\ new.op = op /\ new.open
    BY <1>3, AnswerType DEF Connection
  <2>2. conn' = [conn EXCEPT ![c] = new]
    BY <1>1
  <2> HIDE DEF new
  <2> QED
    BY <1>1, <1>3, <2>1, <2>2 DEF ServerInv, ServerTypes
<1>5. world' \in Scenario
  <2>1. world \in Scenario /\ world.requests - 1 \in Nat
    BY <1>2 DEF ServerInv, ServerTypes, Scenario
  <2> QED
    BY <1>2, <2>1, ScenarioStep
<1>6. /\ backlog \in Seq(Client) /\ Len(backlog) \in Nat
      /\ backlog' \in Seq(Client) /\ Len(backlog') = Len(backlog) + 1
      /\ backlog'[Len(backlog) + 1] = c
      /\ \A i \in 1 .. Len(backlog) : backlog'[i] = backlog[i] /\ backlog[i] \in Client
                                      /\ backlog[i] # c
  <2>1. backlog \in Seq(Client) /\ Len(backlog) \in Nat
    BY LenProperties DEF ServerInv, ServerTypes
  <2>2. /\ backlog' \in Seq(Client) /\ Len(backlog') = Len(backlog) + 1
        /\ backlog'[Len(backlog) + 1] = c
        /\ \A i \in 1 .. Len(backlog) : backlog'[i] = backlog[i]
    BY <1>2, <2>1, AppendProperties
  <2>3. \A i \in 1 .. Len(backlog) : backlog[i] \in Client /\ backlog[i] # c
    BY <1>2, <2>1, ElementOfSeq DEF ServerInv, ClientInv
  <2> QED
    BY <2>1, <2>2, <2>3
<1>7. ServerTypes'
  BY <1>2, <1>4, <1>5, <1>6 DEF ServerInv, ServerTypes
<1>8. \A d \in Client : d # c => (Unread(d)' <=> Unread(d)) /\ Asked(d)' = Asked(d)
  BY <1>4 DEF Unread, Asked
<1>9. Unread(c)'
  BY <1>4 DEF Unread, Asked
<1>10. Busy => cur # c
  BY <1>2 DEF ServerInv, ClientInv
<1>11. ClientInv'
  <2>1. Busy' <=> Busy
    BY <1>2 DEF Busy
  <2>2. Busy' => conn'[cur'].open
    BY <1>2, <1>4, <1>10, <2>1 DEF ServerInv, ServerTypes, ClientInv
  <2>3. \A d \in Client : conn'[d].open => conn'[d].op.kind \in Kind
    BY <1>3, <1>4 DEF ServerInv, ClientInv
  <2>4. \A i \in 1 .. Len(backlog') : i \in 1 .. Len(backlog) \/ i = Len(backlog) + 1
    BY <1>6
  <2>5. ASSUME NEW i \in 1 .. Len(backlog')
        PROVE  /\ conn'[backlog'[i]].open /\ (Busy' => backlog'[i] # cur')
               /\ wire'[backlog'[i]] = <<>>
                  \/ wire'[backlog'[i]] = Request(conn'[backlog'[i]].op)
    <3>1. CASE i = Len(backlog) + 1
      BY <1>2, <1>4, <1>6, <1>10, <2>1, <3>1
    <3>2. CASE i \in 1 .. Len(backlog)
      <4>1. backlog'[i] = backlog[i] /\ backlog[i] \in Client /\ backlog[i] # c
        BY <1>6, <3>2
      <4>2. conn[backlog[i]].open /\ Unread(backlog[i]) /\ (Busy => backlog[i] # cur)
        BY <3>2 DEF ServerInv, ClientInv
      <4> QED
        BY <1>2, <1>4, <2>1, <4>1, <4>2 DEF Unread, Asked
    <3> QED
      BY <2>4, <3>1, <3>2
  <2>6. \A i, j \in 1 .. Len(backlog') : backlog'[i] = backlog'[j] => i = j
    BY <1>6, <2>4 DEF ServerInv, ClientInv
  <2> QED
    BY <2>2, <2>3, <2>5, <2>6 DEF ClientInv, Unread, Asked
<1>12. BufferInv'
  <2>1. CASE Busy
    <3>1. cur \in Client /\ conn'[cur] = conn[cur] /\ wire'[cur] = wire[cur]
      BY <1>4, <1>10, <2>1 DEF ServerInv, ServerTypes
    <3> QED
      BY <1>2, <3>1 DEF ServerInv, BufferInv, Holding, Asked, Unread
  <2>2. CASE ~Busy
    BY <1>2, <2>2 DEF ServerInv, BufferInv, Busy, Holding, Kind
  <2> QED
    BY <2>1, <2>2
<1> QED
  BY <1>7, <1>11, <1>12 DEF ServerInv

LEMMA StepStall ==
  ASSUME ServerInv, NEW c \in Client, Stall(c)
  PROVE  ServerInv'
<1>1. /\ UNCHANGED <<conn, backlog, pc, cur, buf, total, appConfig, nvs, file>>
      /\ wire' = [wire EXCEPT ![c] = <<>>] /\ world' \in Scenario
  BY ScenarioStep DEF Stall, recvVars, flashVars, ServerInv, ServerTypes
<1>2. /\ wire' \in [Client -> Seq(Units)]
      /\ \A d \in Client : wire'[d] = wire[d] \/ wire'[d] = <<>>
  BY <1>1, EmptySeq DEF ServerInv, ServerTypes
<1>3. ServerTypes'
  BY <1>1, <1>2 DEF ServerInv, ServerTypes
<1>4. \A d \in Client : Asked(d)' = Asked(d) /\ (Unread(d) => Unread(d)')
  BY <1>1, <1>2 DEF Unread, Asked
<1>5. ClientInv'
  <2>1. \A i \in 1 .. Len(backlog) : backlog[i] \in Client
    BY ElementOfSeq DEF ServerInv, ServerTypes
  <2> QED
    BY <1>1, <1>2, <2>1 DEF ServerInv, ServerTypes, ClientInv, Busy, Unread, Asked
<1>6. BufferInv'
  BY <1>1, <1>2 DEF ServerInv, ServerTypes, BufferInv, Holding, Unread, Asked
<1> QED
  BY <1>3, <1>5, <1>6 DEF ServerInv

\* The connection at hand is closed.
LEMMA LetGo ==
  ASSUME ServerInv, Busy, pc' = "accept", total' = 0,
         UNCHANGED <<backlog, cur, buf, appConfig, nvs, file, world>>,
         NEW new \in Connection, conn' = [conn EXCEPT ![cur] = new], new.op = conn[cur].op,
         ~new.open, wire' = wire \/ wire' = [wire EXCEPT ![cur] = <<>>]
  PROVE  ServerInv'
<1>1. /\ conn' \in [Client -> Connection] /\ wire' \in [Client -> Seq(Units)]
      /\ conn'[cur] = new /\ \A c \in Client : c # cur => conn'[c] = conn[c] /\ wire'[c] = wire[c]
  BY EmptySeq DEF ServerInv, ServerTypes
<1>2. ServerTypes'
  BY <1>1, ServerAssumption DEF ServerInv, ServerTypes, Place
<1>3. ClientInv'
  <2>1. \A i \in 1 .. Len(backlog) : backlog[i] \in Client /\ backlog[i] # cur
    BY ElementOfSeq DEF ServerInv, ServerTypes, ClientInv
  <2>2. \A c \in Client : c # cur => (Unread(c) => Unread(c)')
    BY <1>1 DEF Unread, Asked
  <2>3. ~Busy'
    BY DEF Busy
  <2> QED
    BY <1>1, <2>1, <2>2, <2>3 DEF ServerInv, ServerTypes, ClientInv, Unread, Asked
<1>4. BufferInv'
  BY DEF BufferInv, Holding, Kind
<1> QED
  BY <1>2, <1>3, <1>4 DEF ServerInv

LEMMA StepClose ==
  ASSUME ServerInv, Close
  PROVE  ServerInv'
<1> DEFINE new == [conn[cur] EXCEPT !.open = FALSE]
<1>1. /\ conn \in [Client -> Connection] /\ conn[cur] \in Connection /\ pc = "close"
      /\ pc' = "accept" /\ total' = 0 /\ UNCHANGED <<backlog, cur, buf, appConfig, nvs, file, world>>
      /\ wire' = [wire EXCEPT ![cur] = <<>>]
  BY DEF ServerInv, ServerTypes, Close, InServer, flashVars, histVars
<1>2. new \in Connection /\ new.op = conn[cur].op /\ ~new.open
  BY <1>1 DEF Connection
<1>3. conn' = [conn EXCEPT ![cur] = new]
  BY <1>1 DEF Close
<1> HIDE DEF new
<1> QED
  BY <1>1, <1>2, <1>3, LetGo DEF Busy

LEMMA StepRecvNothing ==
  ASSUME ServerInv, RecvNothing
  PROVE  ServerInv'
<1> DEFINE new == [[conn[cur] EXCEPT !.open = FALSE] EXCEPT !.answer = Answer("lost")]
<1>1. /\ conn \in [Client -> Connection] /\ conn[cur] \in Connection /\ cur \in Client
      /\ pc = "recv" /\ pc' = "accept"
      /\ UNCHANGED <<wire, backlog, cur, buf, total, appConfig, nvs, file, world>>
  BY DEF ServerInv, ServerTypes, RecvNothing, recvVars, InServer, flashVars, histVars
<1>2. new \in Connection /\ new.op = conn[cur].op /\ ~new.open
  BY <1>1, AnswerType DEF Connection
<1>3. conn' = [conn EXCEPT ![cur] = new]
  BY <1>1 DEF RecvNothing
<1>4. total' = 0
  BY <1>1 DEF ServerInv, BufferInv
<1> HIDE DEF new
<1> QED
  BY <1>1, <1>2, <1>3, <1>4, LetGo DEF Busy

LEMMA StepBoot ==
  ASSUME ServerInv, Boot
  PROVE  ServerInv'
<1>1. /\ pc = "boot" /\ pc' = "accept"
      /\ UNCHANGED <<conn, wire, backlog, cur, buf, total, nvs, file>>
  BY DEF Boot, connVars, recvVars
<1>2. appConfig' \in Fields /\ world' \in Scenario
  BY AnswerType, ScenarioStep DEF Boot, Read, ServerInv, ServerTypes
<1>3. ServerTypes'
  BY <1>1, <1>2 DEF ServerInv, ServerTypes, Place
<1>4. ClientInv' /\ BufferInv'
  BY <1>1 DEF ServerInv, ClientInv, BufferInv, Busy, Holding, Kind, Unread, Asked
<1> QED
  BY <1>3, <1>4 DEF ServerInv

LEMMA StepAccept ==
  ASSUME ServerInv, Accept
  PROVE  ServerInv'
<1>1. /\ pc = "accept" /\ pc' = "recv" /\ backlog # <<>>
      /\ cur' = Head(backlog) /\ backlog' = Tail(backlog)
      /\ UNCHANGED <<conn, wire, buf, total, appConfig, nvs, file, world>>
  BY DEF Accept, InServer, flashVars, histVars
<1>2. /\ backlog \in Seq(Client) /\ Len(backlog) \in Nat /\ Len(backlog) # 0
      /\ \A i \in 1 .. Len(backlog) : backlog[i] \in Client
  BY <1>1, EmptySeq, LenProperties, ElementOfSeq DEF ServerInv, ServerTypes
<1>3. /\ cur' = backlog[1] /\ cur' \in Client /\ 1 \in 1 .. Len(backlog)
      /\ backlog' \in Seq(Client) /\ Len(backlog') = Len(backlog) - 1
      /\ \A i \in 1 .. Len(backlog') : backlog'[i] = backlog[i + 1] /\ i + 1 \in 1 .. Len(backlog)
                                       /\ i + 1 # 1
  BY <1>1, <1>2, HeadTailProperties
<1>4. ServerTypes'
  BY <1>1, <1>3 DEF ServerInv, ServerTypes, Place
<1>5. conn[cur'].open /\ Unread(cur')
  BY <1>3 DEF ServerInv, ClientInv
<1>6. ClientInv'
  <2>1. ASSUME NEW i \in 1 .. Len(backlog')
        PROVE  /\ conn[backlog'[i]].open /\ Unread(backlog'[i]) /\ backlog'[i] # cur'
    BY <1>3 DEF ServerInv, ClientInv
  <2>2. \A i, j \in 1 .. Len(backlog') : backlog'[i] = backlog'[j] => i = j
    <3> SUFFICES ASSUME NEW i \in 1 .. Len(backlog'), NEW j \in 1 .. Len(backlog'),
                        backlog'[i] = backlog'[j]
                 PROVE  i = j
      OBVIOUS
    <3>1. i + 1 = j + 1
      BY <1>3 DEF ServerInv, ClientInv
    <3> QED
      BY <3>1
  <2> QED
    BY <1>1, <1>5, <2>1, <2>2 DEF ServerInv, ClientInv, Unread, Asked
<1>7. BufferInv'
  BY <1>1, <1>5 DEF ServerInv, BufferInv, Holding, Kind, Unread, Asked
<1> QED
  BY <1>4, <1>6, <1>7 DEF ServerInv

\* k units of the request at hand arrive.
LEMMA Received ==
  ASSUME ServerInv, Busy, pc' = "more", NEW k \in 1 .. Len(wire[cur]), Arrives(k),
         total + k <= Room, UNCHANGED <<conn, backlog, cur, appConfig, nvs, file, world>>,
         wire[cur] = SubSeq(Asked(cur), total + 1, Len(Asked(cur))),
         \A i \in 1 .. total : buf[i] = Asked(cur)[i]
  PROVE  /\ ServerInv' /\ total' = total + k
         /\ wire'[cur] = SubSeq(Asked(cur), total' + 1, Len(Asked(cur)))
         /\ \A c \in Client : c # cur => wire'[c] = wire[c]
<1> DEFINE s == Asked(cur)
           left == SubSeq(wire[cur], k + 1, Len(wire[cur]))
<1>1. /\ conn[cur].open /\ conn[cur].op \in AnyOp /\ conn[cur].op.kind \in Kind
      /\ cur \in Client /\ wire \in [Client -> Seq(Units)] /\ Len(wire[cur]) \in Nat
      /\ buf \in [Cells -> Units] /\ total \in Nat
  BY LenProperties DEF ServerInv, ServerTypes, ClientInv, Connection
<1>2. s \in Seq(Units) /\ Len(s) \in Nat
  BY <1>1, RequestShape DEF Asked
<1>3. /\ buf' = Store(buf, total, SubSeq(wire[cur], 1, k)) /\ total' = total + k
      /\ wire' = [wire EXCEPT ![cur] = left]
  BY <1>1 DEF Arrives
<1> HIDE DEF s
<1>4. /\ buf' \in [Cells -> Units] /\ total + k <= Len(s)
      /\ \A i \in 1 .. total + k : buf'[i] = s[i]
      /\ buf'[total + k + 1] = NUL
      /\ left = SubSeq(s, total + k + 1, Len(s)) /\ left \in Seq(Units)
  <2>1. wire[cur] = SubSeq(s, total + 1, Len(s)) /\ \A i \in 1 .. total : buf[i] = s[i]
    BY DEF s
  <2>2. Joined(s, total, buf, wire[cur], k)
    BY <1>1, <1>2, <2>1, Arrival
  <2>3. buf' = Store(buf, total, SubSeq(wire[cur], 1, k))
    BY <1>3
  <2> QED
    BY <2>2, <2>3 DEF Joined
<1> HIDE DEF left
<1>5. /\ wire' \in [Client -> Seq(Units)] /\ wire'[cur] = left
      /\ \A c \in Client : c # cur => wire'[c] = wire[c]
  BY <1>1, <1>3, <1>4
<1>6. k \in Nat /\ k >= 1 /\ Room \in Nat
  BY <1>1, ServerAssumption
<1>7. ServerTypes'
  BY <1>1, <1>3, <1>4, <1>5, <1>6 DEF ServerInv, ServerTypes, Place
<1>8. ClientInv'
  <2>1. \A i \in 1 .. Len(backlog) : backlog[i] \in Client /\ backlog[i] # cur
    BY ElementOfSeq DEF ServerInv, ServerTypes, ClientInv
  <2>2. \A c \in Client : c # cur => (Unread(c) => Unread(c)')
    BY <1>5 DEF Unread, Asked
  <2> QED
    BY <1>1, <2>1, <2>2 DEF ServerInv, ServerTypes, ClientInv, Unread, Asked
<1>9. BufferInv'
  <2>1. Asked(cur)' = s
    BY DEF Asked, s
  <2>2. /\ total' >= 1 /\ total' <= Len(s) /\ (\A i \in 1 .. total' : buf'[i] = s[i])
        /\ buf'[total' + 1] = NUL /\ wire'[cur] = SubSeq(s, total' + 1, Len(s))
    <3>1. total' = total + k /\ total' >= 1
      BY <1>1, <1>3, <1>6
    <3> QED
      BY <1>4, <1>5, <3>1
  <2>3. /\ pc' \notin {"boot", "accept", "recv", "save", "writeFile"} /\ pc' \notin Kind
        /\ pc' = "more" /\ Holding'
    BY DEF Holding, Kind
  <2>4. wire'[cur'] = SubSeq(Asked(cur)', total' + 1, Len(Asked(cur)'))
    BY <2>1, <2>2
  <2> QED
    BY <2>1, <2>2, <2>3, <2>4 DEF BufferInv
<1> QED
  BY <1>3, <1>4, <1>5, <1>7, <1>8, <1>9 DEF ServerInv, s

LEMMA StepRecvFirst ==
  ASSUME ServerInv, RecvFirst
  PROVE  ServerInv'
<1>1. PICK k \in 1 .. Len(wire[cur]) : k <= Space(0) /\ Arrives(k)
  BY DEF RecvFirst
<1>2. /\ pc = "recv" /\ pc' = "more" /\ Busy
      /\ UNCHANGED <<conn, backlog, cur, appConfig, nvs, file, world>>
  BY DEF RecvFirst, InServer, flashVars, histVars, Busy
<1>3. total = 0 /\ Unread(cur)
  BY <1>2 DEF ServerInv, BufferInv
<1>4. wire[cur] = Asked(cur)
  <2>1. Len(<<>>) = 0
    BY EmptySeq
  <2>2. wire[cur] # <<>>
    BY <1>1, <2>1
  <2> QED
    BY <1>3, <2>2 DEF Unread
<1>5. wire[cur] = SubSeq(Asked(cur), total + 1, Len(Asked(cur)))
  <2>1. Asked(cur) \in Seq(Units)
    BY <1>4 DEF ServerInv, ServerTypes
  <2> QED
    BY <1>3, <1>4, <2>1, SubSeqFull
<1>6. total + k <= Room /\ \A i \in 1 .. total : buf[i] = Asked(cur)[i]
  BY <1>1, <1>3, ServerAssumption DEF Space
<1> QED
  BY <1>1, <1>2, <1>5, <1>6, Received

LEMMA StepRecvMore ==
  ASSUME ServerInv, RecvMore
  PROVE  ServerInv' /\ wire'[cur] = SubSeq(Asked(cur), total' + 1, Len(Asked(cur)))
<1>1. PICK k \in 1 .. Len(wire[cur]) : k <= Space(total) /\ Arrives(k)
  BY DEF RecvMore
<1>2. /\ pc = "more" /\ pc' = "more" /\ Busy
      /\ UNCHANGED <<conn, backlog, cur, appConfig, nvs, file, world>>
  BY DEF RecvMore, InServer, flashVars, histVars, Busy
<1>3. wire[cur] = SubSeq(Asked(cur), total + 1, Len(Asked(cur)))
  <2>1. Len(<<>>) = 0
    BY EmptySeq
  <2> QED
    BY <1>1, <1>2, <2>1 DEF ServerInv, BufferInv
<1>4. total + k <= Room /\ \A i \in 1 .. total : buf[i] = Asked(cur)[i]
  BY <1>1, <1>2, ServerAssumption DEF Space, ServerInv, ServerTypes, BufferInv, Holding
<1> QED
  BY <1>1, <1>2, <1>3, <1>4, Received

\* Where a kind of unit first is.
LEMMA FirstIs ==
  ASSUME NEW s \in Seq(Units), NEW u, NEW n \in 1 .. Len(s), s[n].u = u,
         \A j \in 1 .. n - 1 : s[j].u # u
  PROVE  Has(s, u) /\ First(s, u) = n
<1> DEFINE P(i) == s[i].u = u /\ \A j \in 1 .. i - 1 : s[j].u # u
<1>1. DOMAIN s = 1 .. Len(s) /\ Len(s) \in Nat
  BY LenProperties
<1>2. ASSUME NEW i \in 1 .. Len(s), P(i) PROVE i = n
  <2>1. ~(n \in 1 .. i - 1) /\ ~(i \in 1 .. n - 1)
    BY <1>2
  <2> QED
    BY <1>1, <2>1
<1>3. n \in DOMAIN s /\ P(n) /\ \A i \in DOMAIN s : P(i) => i = n
  BY <1>1, <1>2
<1>4. (CHOOSE i \in DOMAIN s : P(i)) = n
  <2> HIDE DEF P
  <2> QED
    BY <1>3
<1> QED
  BY <1>3, <1>4 DEF Has, First

\* The first n units of a request, and what a handler takes for its body.
LEMMA PrefixShape ==
  ASSUME NEW op \in AnyOp, op.kind \in Kind, NEW n \in Nat, n <= Len(Request(op))
  PROVE  /\ SubSeq(Request(op), 1, n) \in Seq(Units) /\ Len(SubSeq(Request(op), 1, n)) = n
         /\ \A i \in 1 .. n : SubSeq(Request(op), 1, n)[i] = Request(op)[i]
<1> DEFINE r == Request(op)
           t == SubSeq(r, 1, n)
<1>1. r \in Seq(Units) /\ Len(r) \in Nat /\ \A i \in 1 .. Len(r) : r[i] \in Units
  BY RequestShape, ElementOfSeq
<1> HIDE DEF r
<1>2. \A i \in 1 .. n : r[i] \in Units
  BY <1>1 DEF r
<1>3. /\ t \in Seq(Units) /\ Len(t) = IF 1 <= n THEN n - 1 + 1 ELSE 0
      /\ \A i \in 1 .. n - 1 + 1 : t[i] = r[1 + i - 1]
  BY <1>2, SubSeqProperties
<1> HIDE DEF t
<1>4. ASSUME NEW i \in 1 .. n PROVE t[i] = r[i]
  <2>1. 1 + i - 1 = i /\ i \in 1 .. n - 1 + 1
    OBVIOUS
  <2>2. t[i] = r[1 + i - 1]
    BY <1>3, <2>1
  <2> QED
    BY <2>1, <2>2
<1>5. Len(t) = n
  BY <1>3
<1> QED
  BY <1>3, <1>4, <1>5 DEF r, t

\* The body a PUT's handler sees in the first n units is the part of the body that has
\* come; the header is read right once it is whole.
SeesBody(op, n) ==
  LET text == SubSeq(Request(op), 1, n)
      body == BodyOf(text)
  IN  /\ body \in Seq(Units) /\ Len(body) = IF n > 3 THEN n - 3 ELSE 0
      /\ n - 3 <= Len(Body(op)) /\ \A i \in 1 .. Len(body) : body[i] = Body(op)[i]
      /\ n >= 3 => /\ Has(text, "length") /\ text[First(text, "length")].v = Len(Body(op))
                   /\ text[1].u = op.kind

LEMMA PutBody ==
  ASSUME NEW op \in AnyOp, op.kind \in Kind, IsPut(op.kind), NEW n \in Nat, n >= 1,
         n <= Len(Request(op))
  PROVE  SeesBody(op, n)
<1> DEFINE r == Request(op)
           text == SubSeq(r, 1, n)
           body == BodyOf(text)
<1>1. text \in Seq(Units) /\ Len(text) = n /\ \A i \in 1 .. n : text[i] = r[i]
  BY PrefixShape
<1>2. /\ r \in Seq(Units) /\ Len(Body(op)) \in Nat /\ Len(r) = 3 + Len(Body(op))
      /\ r[1].u = op.kind /\ r[2] = Unit("length", Len(Body(op))) /\ r[3].u = "blank"
      /\ \A i \in 1 .. Len(Body(op)) : r[3 + i] = Body(op)[i]
  BY RequestShape
<1>3. r[2].u = "length" /\ r[2].v = Len(Body(op)) /\ r[1].u \in Kind
  BY <1>2, UnitType DEF UnitKind
<1> HIDE DEF r, text
<1>4. n - 3 <= Len(Body(op))
  BY <1>2 DEF r
<1>5. CASE n < 3
  <2>1. ~Has(text, "blank")
    <3>1. DOMAIN text = 1 .. n
      BY <1>1, LenProperties
    <3>2. \A i \in 1 .. n : i = 1 \/ i = 2
      BY <1>5
    <3>3. "length" # "blank" /\ r[1].u # "blank"
      BY <1>3 DEF Kind
    <3> QED
      BY <1>1, <1>3, <3>1, <3>2, <3>3 DEF Has
  <2>2. body = <<>>
    BY <2>1 DEF BodyOf
  <2> HIDE DEF body
  <2>3. body \in Seq(Units) /\ Len(body) = 0
    BY <2>2, EmptySeq
  <2>4. Len(body) = IF n > 3 THEN n - 3 ELSE 0
    BY <1>5, <2>3
  <2>5. \A i \in 1 .. Len(body) : body[i] = Body(op)[i]
    BY <2>3
  <2> QED
    BY <1>4, <1>5, <2>3, <2>4, <2>5 DEF SeesBody, body, text, r
<1>6. CASE n >= 3
  <2>1. 1 \in 1 .. n /\ 2 \in 1 .. n /\ 3 \in 1 .. n /\ 2 \in 1 .. Len(text) /\ 3 \in 1 .. Len(text)
    BY <1>1, <1>6
  <2>2. text[1] = r[1] /\ text[2] = r[2] /\ text[3] = r[3]
    BY <1>1, <2>1
  <2>3. Has(text, "length") /\ First(text, "length") = 2
    <3>1. \A j \in 1 .. 2 - 1 : text[j].u # "length"
      BY <1>3, <2>2 DEF Kind
    <3> QED
      BY <1>1, <1>3, <2>1, <2>2, <3>1, FirstIs
  <2>4. Has(text, "blank") /\ First(text, "blank") = 3
    <3>1. \A j \in 1 .. 3 - 1 : j = 1 \/ j = 2
      OBVIOUS
    <3>2. text[1].u # "blank" /\ text[2].u # "blank"
      BY <1>3, <2>2 DEF Kind
    <3>3. \A j \in 1 .. 3 - 1 : text[j].u # "blank"
      BY <3>1, <3>2
    <3> QED
      BY <1>1, <1>2, <2>1, <2>2, <3>3, FirstIs
  <2>5. body = SubSeq(text, 4, n)
    BY <1>1, <2>4 DEF BodyOf
  <2>6. \A i \in 4 .. n : text[i] \in Units
    BY <1>1, ElementOfSeq
  <2>7. /\ body \in Seq(Units) /\ Len(body) = IF 4 <= n THEN n - 4 + 1 ELSE 0
        /\ \A i \in 1 .. n - 4 + 1 : body[i] = text[4 + i - 1]
    BY <2>5, <2>6, SubSeqProperties
  <2> HIDE DEF body
  <2>8. Len(body) = n - 3
    BY <1>6, <2>7
  <2>9. ASSUME NEW i \in 1 .. Len(body) PROVE body[i] = Body(op)[i]
    <3>1. /\ i \in 1 .. n - 4 + 1 /\ 4 + i - 1 = 3 + i /\ 3 + i \in 1 .. n
          /\ i \in 1 .. Len(Body(op))
      BY <1>2, <1>4, <2>8
    <3>2. body[i] = text[4 + i - 1] /\ text[3 + i] = r[3 + i] /\ r[3 + i] = Body(op)[i]
      BY <1>1, <1>2, <2>7, <3>1
    <3> QED
      BY <3>1, <3>2
  <2>10. Len(body) = IF n > 3 THEN n - 3 ELSE 0
    BY <1>6, <2>8
  <2>11. text[First(text, "length")].v = Len(Body(op)) /\ text[1].u = op.kind
    BY <1>2, <1>3, <2>2, <2>3
  <2> QED
    BY <1>4, <2>3, <2>7, <2>9, <2>10, <2>11 DEF SeesBody, body, text, r
<1> QED
  BY <1>5, <1>6

\* The server's text is what it has of the request.
LEMMA TextIsRequest ==
  ASSUME ServerInv, Holding
  PROVE  /\ conn[cur].op \in AnyOp /\ conn[cur].op.kind \in Kind /\ Busy
         /\ total \in Nat /\ total >= 1 /\ total <= Len(Asked(cur))
         /\ Text(buf) = SubSeq(Asked(cur), 1, total)
         /\ SubSeq(buf, 1, total) = SubSeq(Asked(cur), 1, total)
<1>1. /\ conn[cur].op \in AnyOp /\ conn[cur].op.kind \in Kind /\ Busy
      /\ buf \in [Cells -> Units] /\ total \in 0 .. Room /\ Room \in Nat
      /\ total >= 1 /\ total <= Len(Asked(cur)) /\ buf[total + 1] = NUL
      /\ \A i \in 1 .. total : buf[i] = Asked(cur)[i]
  BY ServerAssumption
  DEF ServerInv, ServerTypes, Connection, ClientInv, BufferInv, Holding, Busy, Kind
<1>2. /\ Asked(cur) \in Seq(Units) /\ Len(Asked(cur)) \in Nat
      /\ \A i \in 1 .. Len(Asked(cur)) : Asked(cur)[i] # NUL
  BY <1>1, RequestShape DEF Asked
<1>3. \A i \in 1 .. total : buf[i] = Asked(cur)[i] /\ Asked(cur)[i] # NUL
  BY <1>1, <1>2
<1>4. Text(buf) = SubSeq(Asked(cur), 1, total)
  BY <1>1, <1>2, <1>3, TextOf
<1>5. SubSeq(buf, 1, total) = SubSeq(Asked(cur), 1, total)
  <2> DEFINE b == SubSeq(buf, 1, total)
             t == SubSeq(Asked(cur), 1, total)
  <2>1. t \in Seq(Units) /\ Len(t) = total /\ \A i \in 1 .. total : t[i] = Asked(cur)[i]
    BY <1>1, PrefixShape DEF Asked
  <2>2. \A i \in 1 .. total : buf[i] \in Units
    BY <1>1 DEF Cells
  <2>3. /\ b \in Seq(Units) /\ Len(b) = IF 1 <= total THEN total - 1 + 1 ELSE 0
        /\ \A i \in 1 .. total - 1 + 1 : b[i] = buf[1 + i - 1]
    BY <1>1, <2>2, SubSeqProperties
  <2> HIDE DEF b, t
  <2>4. Len(b) = total
    BY <1>1, <2>3
  <2>5. ASSUME NEW i \in 1 .. total PROVE b[i] = t[i]
    <3>1. 1 + i - 1 = i /\ i \in 1 .. total - 1 + 1
      BY <1>1
    <3>2. b[i] = buf[1 + i - 1]
      BY <2>3, <3>1
    <3> QED
      BY <1>1, <2>1, <3>1, <3>2
  <2>6. b = t
    BY <2>1, <2>3, <2>4, <2>5, SeqEqual
  <2> QED
    BY <2>6 DEF b, t
<1> QED
  BY <1>1, <1>4, <1>5

\* A field of the configuration after a PUT is a number.
LEMMA GivenType ==
  ASSUME ServerInv, pc = "putConfig"
  PROVE  LET body == BodyOf(Text(buf))
         IN Given(body, "station") \in Nat /\ Given(body, "bands") \in Nat
<1> DEFINE body == BodyOf(Text(buf))
           op == conn[cur].op
<1>1. /\ op \in AnyOp /\ op.kind = "putConfig" /\ IsPut(op.kind) /\ op.kind \in Kind
      /\ total \in Nat /\ total >= 1 /\ total <= Len(Request(op))
      /\ Text(buf) = SubSeq(Request(op), 1, total)
  BY TextIsRequest DEF Holding, Kind, IsPut, ServerInv, BufferInv, Asked
<1>2. appConfig.station \in Nat /\ appConfig.bands \in Nat
  BY DEF ServerInv, ServerTypes, Fields
<1> HIDE DEF op
<1>3. SeesBody(op, total)
  BY <1>1, PutBody
<1>4. /\ body \in Seq(Units) /\ Len(body) \in Nat /\ Len(body) <= 2
      /\ DOMAIN body = 1 .. Len(body) /\ \A i \in 1 .. Len(body) : body[i] \in Units
  <2>1. body \in Seq(Units) /\ Len(body) <= Len(Body(op))
    BY <1>1, <1>3, LenProperties, BodyShape DEF SeesBody
  <2>2. Len(Body(op)) = 2
    BY <1>1, BodyShape
  <2> QED
    BY <2>1, <2>2, LenProperties, ElementOfSeq
<1> HIDE DEF body
<1>5. ASSUME NEW u, Has(body, u) PROVE body[First(body, u)].v \in Nat
  <2>1. PICK n \in 1 .. Len(body) : body[n].u = u /\ \A j \in 1 .. n - 1 : body[j].u # u
    <3>1. PICK i \in 1 .. Len(body) : body[i].u = u
      BY <1>4, <1>5 DEF Has
    <3>2. i = 1 \/ i = 2
      BY <1>4
    <3>3. 1 \in 1 .. Len(body)
      BY <1>4
    <3>4. CASE body[1].u = u
      <4>1. \A j \in 1 .. 1 - 1 : body[j].u # u
        OBVIOUS
      <4> QED
        BY <3>3, <3>4, <4>1
    <3>5. CASE body[1].u # u
      <4>1. \A j \in 1 .. i - 1 : body[j].u # u
        BY <3>1, <3>2, <3>5
      <4> QED
        BY <3>1, <4>1
    <3> QED
      BY <3>4, <3>5
  <2>2. First(body, u) = n
    BY <1>4, <2>1, FirstIs
  <2> QED
    BY <1>4, <2>2 DEF Units
<1> QED
  BY <1>2, <1>5 DEF Given, body

LEMMA StepPutConfig ==
  ASSUME ServerInv, PutConfig
  PROVE  ServerInv'
<1>1. /\ pc = "putConfig" /\ pc' = "save"
      /\ UNCHANGED <<conn, wire, backlog, cur, buf, total, nvs, file, world>>
  BY DEF PutConfig, connVars, recvVars, flashVars, histVars
<1>2. appConfig' \in Fields
  <2> DEFINE a == Given(BodyOf(Text(buf)), "station")
             b == Given(BodyOf(Text(buf)), "bands")
  <2>1. a \in Nat /\ b \in Nat
    BY <1>1, GivenType
  <2>2. DOMAIN appConfig = {"station", "bands"}
    BY DEF ServerInv, ServerTypes, Fields
  <2>3. appConfig' = [f \in DOMAIN appConfig |-> Given(BodyOf(Text(buf)), f)]
    BY DEF PutConfig
  <2>4. appConfig' = [f \in {"station", "bands"} |-> IF f = "station" THEN a ELSE b]
    BY <2>2, <2>3
  <2> HIDE DEF a, b
  <2>5. appConfig' = [station |-> a, bands |-> b]
    BY <2>4
  <2> QED
    BY <2>1, <2>5 DEF Fields
<1>3. ServerTypes'
  BY <1>1, <1>2 DEF ServerInv, ServerTypes, Place
<1>4. ClientInv' /\ BufferInv'
  BY <1>1 DEF ServerInv, ClientInv, BufferInv, Busy, Holding, Kind, Unread, Asked
<1> QED
  BY <1>3, <1>4 DEF ServerInv

LEMMA StepDispatch ==
  ASSUME ServerInv, Dispatch
  PROVE  ServerInv'
<1>1. /\ pc = "more" /\ pc' = buf[1].u
      /\ UNCHANGED <<conn, wire, backlog, cur, buf, total, appConfig, nvs, file, world>>
  BY DEF Dispatch, connVars, recvVars, InServer, flashVars, histVars
<1>2. pc' = conn[cur].op.kind /\ pc' \in Kind
  <2>1. Holding /\ 1 \in 1 .. total
    BY <1>1 DEF Holding, ServerInv, ServerTypes, BufferInv
  <2>2. buf[1] = Asked(cur)[1] /\ conn[cur].op \in AnyOp /\ conn[cur].op.kind \in Kind
    BY <2>1, TextIsRequest DEF ServerInv, BufferInv
  <2> QED
    BY <1>1, <2>2, RequestShape DEF Asked
<1>3. ServerTypes'
  BY <1>1, <1>2 DEF ServerInv, ServerTypes, Place
<1>4. Busy /\ Busy' /\ Holding /\ Holding'
  BY <1>1, <1>2 DEF Busy, Holding, Kind
<1>5. ClientInv'
  BY <1>1, <1>4 DEF ServerInv, ClientInv, Unread, Asked
<1>6. BufferInv'
  <2>1. pc' \notin {"boot", "accept", "recv", "more", "save", "writeFile"}
    BY <1>2 DEF Kind
  <2> QED
    BY <1>1, <1>2, <1>4, <2>1 DEF ServerInv, BufferInv, Unread, Asked
<1> QED
  BY <1>3, <1>5, <1>6 DEF ServerInv

LEMMA StepSaveConfig ==
  ASSUME ServerInv, SaveConfig
  PROVE  ServerInv'
<1>1. /\ pc = "save" /\ Busy /\ Replies(Answer("ok")) /\ Answer("ok") \in Answers
      /\ UNCHANGED <<wire, backlog, cur, total, buf, appConfig, file>>
  BY AnswerType DEF SaveConfig, recvVars, Busy
<1>2. /\ buf' \in [Cells -> Units] /\ appConfig' \in Fields
      /\ file' \in [exists : BOOLEAN, data : Seq(Nat)]
  BY <1>1 DEF ServerInv, ServerTypes
<1>3. nvs'.cfg \in Fields
  <2>1. CASE nvs' = [layout |-> "own", cfg |-> appConfig]
    BY <2>1 DEF ServerInv, ServerTypes
  <2>2. CASE nvs' = nvs
    BY <2>2 DEF ServerInv, ServerTypes
  <2> QED
    BY <2>1, <2>2 DEF SaveConfig
<1>4. world' \in Scenario
  BY ScenarioStep DEF SaveConfig, ServerInv, ServerTypes
<1> QED
  BY <1>1, <1>2, <1>3, <1>4, StepReply

LEMMA StepGetConfig ==
  ASSUME ServerInv, GetConfig
  PROVE  ServerInv'
<1> DEFINE a == [Answer("config") EXCEPT !.cfg = appConfig]
           out == <<Unit("station", appConfig.station), Unit("bands", appConfig.bands)>>
<1>1. /\ pc = "getConfig" /\ Busy /\ Replies(a) /\ buf' = Store(buf, 0, out)
      /\ UNCHANGED <<wire, backlog, cur, total, appConfig, nvs, file, world>>
  BY DEF GetConfig, Busy, InServer, flashVars, histVars
<1>2. appConfig \in Fields /\ buf \in [Cells -> Units] /\ Room \in Nat /\ Room >= 5
  BY ServerAssumption DEF ServerInv, ServerTypes
<1>3. a \in Answers
  BY <1>2, AnswerType DEF Answers
<1>4. out \in Seq(Units) /\ Len(out) = 2
  <2>1. Unit("station", appConfig.station) \in Units /\ Unit("bands", appConfig.bands) \in Units
    BY <1>2, UnitType DEF Fields, UnitKind
  <2> QED
    BY <2>1
<1> HIDE DEF a, out
<1>5. buf' \in [Cells -> Units]
  <2>1. 0 \in Nat /\ 0 + Len(out) <= Room
    BY <1>2, <1>4
  <2> QED
    BY <1>1, <1>2, <1>4, <2>1, StoreShape
<1> QED
  BY <1>1, <1>3, <1>5, StepReply DEF ServerInv, ServerTypes

LEMMA StepPutFile ==
  ASSUME ServerInv, PutFile
  PROVE  ServerInv'
<1>1. /\ pc = "putFile" /\ Busy /\ UNCHANGED <<wire, backlog, cur, total, buf, appConfig, nvs>>
  BY DEF PutFile, Busy, recvVars
<1>2. CASE Fault("file") /\ Replies(Answer("500")) /\ UNCHANGED file
  <2>1. world' \in Scenario /\ Answer("500") \in Answers
    BY <1>2, AnswerType, ScenarioStep DEF ServerInv, ServerTypes
  <2> QED
    BY <1>1, <1>2, <2>1, StepReply DEF ServerInv, ServerTypes
<1>3. CASE /\ file' = [file EXCEPT !.exists = TRUE]
           /\ pc' = "writeFile" /\ UNCHANGED <<conn, world>>
  <2>1. file' \in [exists : BOOLEAN, data : Seq(Nat)]
    BY <1>3 DEF ServerInv, ServerTypes
  <2>2. ServerTypes'
    BY <1>1, <1>3, <2>1 DEF ServerInv, ServerTypes, Place
  <2>3. Busy' /\ Holding /\ Holding' /\ pc' \notin Kind
    BY <1>1, <1>3 DEF Busy, Holding, Kind
  <2>4. ClientInv'
    BY <1>1, <1>3, <2>3 DEF ServerInv, ClientInv, Unread, Asked
  <2>5. BufferInv'
    BY <1>1, <1>3, <2>3 DEF ServerInv, BufferInv, Unread, Asked, Kind
  <2> QED
    BY <2>2, <2>4, <2>5 DEF ServerInv
<1> QED
  BY <1>2, <1>3 DEF PutFile

\* The pieces that are written are those of the upload that have come.
LEMMA Pieces ==
  ASSUME ServerInv, pc = "writeFile"
  PROVE  LET body == BodyOf(SubSeq(buf, 1, total))
             data == [i \in DOMAIN body |-> body[i].v]
             up   == conn[cur].op.data
         IN  /\ data \in Seq(Nat) /\ up \in Seq(Nat) /\ Len(data) <= Len(up)
             /\ total = Len(Asked(cur)) => data = up
<1> DEFINE body == BodyOf(SubSeq(buf, 1, total))
           data == [i \in DOMAIN body |-> body[i].v]
           op == conn[cur].op
<1>1. /\ op \in AnyOp /\ op.kind = "putFile" /\ IsPut(op.kind) /\ op.kind \in Kind
      /\ total \in Nat /\ total >= 1 /\ total <= Len(Request(op))
      /\ SubSeq(buf, 1, total) = SubSeq(Request(op), 1, total)
  BY TextIsRequest DEF Holding, Kind, IsPut, ServerInv, BufferInv, Asked
<1> HIDE DEF op
<1>2. SeesBody(op, total) /\ Len(Request(op)) = 3 + Len(Body(op)) /\ Len(Body(op)) \in Nat
  BY <1>1, PutBody, RequestShape
<1>3. /\ op.data \in Seq(Nat) /\ Len(op.data) \in Nat /\ Len(Body(op)) = Len(op.data)
      /\ \A i \in 1 .. Len(op.data) : Body(op)[i] = Unit("data", op.data[i])
                                      /\ op.data[i] \in Nat
  BY <1>1, BodyShape, LenProperties, ElementOfSeq DEF AnyOp
<1>4. /\ body \in Seq(Units) /\ Len(body) = (IF total > 3 THEN total - 3 ELSE 0)
      /\ total - 3 <= Len(op.data)
      /\ \A i \in 1 .. Len(body) : body[i] = Body(op)[i]
  BY <1>1, <1>2, <1>3 DEF SeesBody
<1>5. DOMAIN body = 1 .. Len(body) /\ Len(body) \in Nat
  BY <1>4, LenProperties
<1> HIDE DEF body
<1>6. Len(body) <= Len(op.data) /\ (total = Len(Request(op)) => Len(body) = Len(op.data))
  BY <1>1, <1>2, <1>3, <1>4
<1>7. \A i \in 1 .. Len(body) : body[i].v = op.data[i] /\ op.data[i] \in Nat
  <2> SUFFICES ASSUME NEW i \in 1 .. Len(body) PROVE body[i].v = op.data[i] /\ op.data[i] \in Nat
    OBVIOUS
  <2>1. i \in 1 .. Len(op.data)
    BY <1>3, <1>5, <1>6
  <2>2. body[i] = Unit("data", op.data[i]) /\ op.data[i] \in Nat
    BY <1>3, <1>4, <2>1
  <2> QED
    BY <2>2, UnitType DEF UnitKind
<1>8. data = [i \in 1 .. Len(body) |-> op.data[i]]
  BY <1>5, <1>7
<1>9. data \in Seq(Nat) /\ Len(data) = Len(body)
  BY <1>5, <1>7, <1>8
<1>10. total = Len(Request(op)) => data = op.data
  <2> SUFFICES ASSUME total = Len(Request(op)) PROVE data = op.data
    OBVIOUS
  <2>1. Len(data) = Len(op.data) /\ \A i \in 1 .. Len(data) : data[i] = op.data[i]
    BY <1>6, <1>8, <1>9
  <2> HIDE DEF data
  <2> QED
    BY <1>3, <1>9, <2>1, SeqEqual
<1> QED
  BY <1>3, <1>6, <1>9, <1>10 DEF body, op, Asked

\* What is written over a file begins it.
LEMMA OverlayShape ==
  ASSUME NEW old \in Seq(Nat), NEW new \in Seq(Nat)
  PROVE  Overlay(old, new) \in Seq(Nat) /\ IsPrefix(new, Overlay(old, new))
<1> DEFINE tail == SubSeq(old, Len(new) + 1, Len(old))
<1>1. /\ Len(new) \in Nat /\ Len(old) \in Nat
      /\ \A i \in 1 .. Len(old) : old[i] \in Nat
      /\ \A i \in 1 .. Len(new) : new[i] \in Nat
  BY LenProperties, ElementOfSeq
<1>2. tail \in Seq(Nat)
  <2>1. \A i \in Len(new) + 1 .. Len(old) : old[i] \in Nat
    BY <1>1
  <2> QED
    BY <1>1, <2>1, SubSeqProperties
<1> HIDE DEF tail
<1> DEFINE all == new \o tail
<1>3. /\ all \in Seq(Nat) /\ Len(all) = Len(new) + Len(tail) /\ Len(tail) \in Nat
      /\ \A i \in 1 .. Len(new) + Len(tail) :
           all[i] = IF i <= Len(new) THEN new[i] ELSE tail[i - Len(new)]
  BY <1>2, ConcatProperties, LenProperties
<1> HIDE DEF all
<1>4. Len(new) <= Len(all) /\ \A i \in 1 .. Len(new) : all[i] = new[i]
  BY <1>1, <1>3
<1>5. SubSeq(new, 1, Len(new)) = SubSeq(all, 1, Len(new))
  <2> DEFINE n == Len(new)
             s == SubSeq(new, 1, n)
             t == SubSeq(all, 1, n)
  <2>1. \A i \in 1 .. n : new[i] \in Nat /\ all[i] \in Nat
    BY <1>1, <1>4
  <2>2. /\ s \in Seq(Nat) /\ Len(s) = (IF 1 <= n THEN n - 1 + 1 ELSE 0)
        /\ \A i \in 1 .. n - 1 + 1 : s[i] = new[1 + i - 1]
    BY <1>1, <2>1, SubSeqProperties
  <2>3. /\ t \in Seq(Nat) /\ Len(t) = (IF 1 <= n THEN n - 1 + 1 ELSE 0)
        /\ \A i \in 1 .. n - 1 + 1 : t[i] = all[1 + i - 1]
    BY <1>1, <2>1, SubSeqProperties
  <2>4. n \in Nat
    BY <1>1
  <2>5. \A i \in 1 .. n : new[i] = all[i]
    BY <1>4
  <2> HIDE DEF s, t, n
  <2>6. Len(s) = n /\ Len(t) = n
    BY <2>2, <2>3, <2>4
  <2>7. ASSUME NEW i \in 1 .. n PROVE s[i] = t[i]
    <3>1. 1 + i - 1 = i /\ i \in 1 .. n - 1 + 1
      BY <2>4
    <3>2. s[i] = new[1 + i - 1] /\ t[i] = all[1 + i - 1]
      BY <2>2, <2>3, <3>1
    <3> QED
      BY <2>5, <3>1, <3>2
  <2>8. s = t
    BY <2>2, <2>3, <2>6, <2>7, SeqEqual
  <2> QED
    BY <2>8 DEF s, t, n
<1> QED
  BY <1>3, <1>4, <1>5 DEF Overlay, IsPrefix, all, tail

LEMMA StepWriteFile ==
  ASSUME ServerInv, WriteFile
  PROVE  ServerInv'
<1>1. /\ pc = "writeFile" /\ Busy /\ Replies(Answer("ok")) /\ Answer("ok") \in Answers
      /\ UNCHANGED <<wire, backlog, cur, total, buf, appConfig, nvs>>
  BY AnswerType DEF WriteFile, Busy, recvVars
<1> DEFINE body == BodyOf(SubSeq(buf, 1, total))
           data == [i \in DOMAIN body |-> body[i].v]
<1>2. data \in Seq(Nat)
  BY <1>1, Pieces
<1>3. \/ file' = [file EXCEPT !.data = Overlay(@, data)] /\ UNCHANGED world
      \/ Fault("file") /\ UNCHANGED file
  BY DEF WriteFile
<1> HIDE DEF data
<1>4. file' \in [exists : BOOLEAN, data : Seq(Nat)] /\ world' \in Scenario
  BY <1>2, <1>3, OverlayShape, ScenarioStep DEF ServerInv, ServerTypes
<1> QED
  BY <1>1, <1>4, StepReply DEF ServerInv, ServerTypes

LEMMA StepGetFile ==
  ASSUME ServerInv, GetFile
  PROVE  ServerInv'
<1>1. /\ pc = "getFile" /\ Busy
      /\ UNCHANGED <<wire, backlog, cur, total, appConfig, nvs, file>>
  BY DEF GetFile, Busy, flashVars
<1>2. CASE (\E s \in {"404", "500"} : Replies(Answer(s))) /\ UNCHANGED buf
  <2>1. PICK s \in {"404", "500"} : Replies(Answer(s))
    BY <1>2
  <2>2. Answer(s) \in Answers
    BY AnswerType
  <2>3. world' \in Scenario
    BY ScenarioStep DEF GetFile, ServerInv, ServerTypes
  <2> QED
    BY <1>1, <1>2, <2>1, <2>2, <2>3, StepReply DEF ServerInv, ServerTypes
<1>3. CASE /\ Replies([Answer("file") EXCEPT !.data = file.data])
           /\ buf' = [i \in Cells |-> IF i \in DOMAIN file.data THEN Unit("data", file.data[i])
                                      ELSE buf[i]]
           /\ UNCHANGED world
  <2> DEFINE a == [Answer("file") EXCEPT !.data = file.data]
  <2>1. file.data \in Seq(Nat) /\ a \in Answers
    BY AnswerType DEF ServerInv, ServerTypes, Answers
  <2>2. ASSUME NEW i \in DOMAIN file.data PROVE Unit("data", file.data[i]) \in Units
    <3>1. DOMAIN file.data = 1 .. Len(file.data)
      BY <2>1, LenProperties
    <3>2. file.data[i] \in Nat
      BY <2>1, <3>1, ElementOfSeq
    <3> QED
      BY <3>2, UnitType DEF UnitKind
  <2>3. buf' \in [Cells -> Units]
    BY <1>3, <2>2 DEF ServerInv, ServerTypes
  <2> HIDE DEF a
  <2>4. Replies(a)
    BY <1>3 DEF a
  <2>5. world' \in Scenario
    BY <1>3 DEF ServerInv, ServerTypes
  <2> QED
    BY <1>1, <2>1, <2>3, <2>4, <2>5, StepReply DEF ServerInv, ServerTypes
<1>4. CASE ~file.exists /\ Replies(Answer("404")) /\ UNCHANGED <<buf, world>>
  BY <1>2, <1>4
<1>5. CASE (\E s \in {"404", "500"} : Replies(Answer(s))) /\ UNCHANGED buf
  BY <1>2, <1>5
<1> QED
  BY <1>3, <1>4, <1>5 DEF GetFile

LEMMA StepDeleteFile ==
  ASSUME ServerInv, DeleteFile
  PROVE  ServerInv'
<1> DEFINE a == Answer(IF file.exists THEN "ok" ELSE "404")
<1>1. /\ pc = "deleteFile" /\ Busy /\ Replies(a) /\ a \in Answers
      /\ UNCHANGED <<wire, backlog, cur, total, buf, appConfig, nvs, world>>
  BY AnswerType DEF DeleteFile, Busy, recvVars, histVars
<1>2. file' \in [exists : BOOLEAN, data : Seq(Nat)]
  BY EmptySeq DEF DeleteFile
<1> HIDE DEF a
<1> QED
  BY <1>1, <1>2, StepReply DEF ServerInv, ServerTypes

LEMMA StepRestart ==
  ASSUME ServerInv, Restart
  PROVE  ServerInv'
<1>1. /\ pc' = "boot" /\ buf' = Empty /\ total' = 0 /\ appConfig' = Default /\ backlog' = <<>>
      /\ wire' = [c \in Client |-> <<>>] /\ UNCHANGED <<cur, nvs, file>>
      /\ conn' = [c \in Client |-> IF conn[c].open
                                   THEN [conn[c] EXCEPT !.open = FALSE, !.answer = Answer("lost")]
                                   ELSE conn[c]]
      /\ world' = [world EXCEPT !.restarts = world.restarts - 1] /\ world.restarts > 0
  BY DEF Restart
<1>2. world' \in Scenario
  <2>1. world \in Scenario
    BY DEF ServerInv, ServerTypes
  <2>2. world.restarts \in Nat
    BY <2>1 DEF Scenario
  <2>3. world.restarts > 0
    BY <1>1
  <2>4. world.restarts - 1 \in Nat
    BY <2>2, <2>3
  <2> QED
    BY <1>1, <2>1, <2>4, ScenarioStep
<1>3. ASSUME NEW c \in Client PROVE conn'[c] \in Connection /\ ~conn'[c].open
  <2> DEFINE new == [[conn[c] EXCEPT !.open = FALSE] EXCEPT !.answer = Answer("lost")]
  <2>1. conn[c] \in Connection
    BY DEF ServerInv, ServerTypes
  <2>2. new \in Connection /\ ~new.open
    BY <2>1, AnswerType DEF Connection
  <2>3. conn'[c] = IF conn[c].open THEN new ELSE conn[c]
    BY <1>1
  <2> HIDE DEF new
  <2> QED
    BY <2>1, <2>2, <2>3
<1>4. /\ buf' \in [Cells -> Units] /\ total' \in 0 .. Room /\ appConfig' \in Fields
      /\ backlog' \in Seq(Client) /\ Len(backlog') = 0 /\ wire' \in [Client -> Seq(Units)]
  <2>1. NUL \in Units
    BY UnitType DEF NUL, UnitKind
  <2>2. buf' \in [Cells -> Units]
    BY <1>1, <2>1 DEF Empty
  <2>3. total' \in 0 .. Room
    <3>1. total' = 0 /\ Room \in Nat
      BY <1>1, ServerAssumption
    <3> QED
      BY <3>1
  <2>4. appConfig' \in Fields
    BY <1>1 DEF Default, Fields
  <2>5. backlog' \in Seq(Client) /\ Len(backlog') = 0 /\ wire' \in [Client -> Seq(Units)]
    BY <1>1, EmptySeq
  <2> QED
    BY <2>2, <2>3, <2>4, <2>5
<1>5. conn' \in [Client -> Connection]
  BY <1>1, <1>3
<1>6. ServerTypes'
  BY <1>1, <1>2, <1>4, <1>5 DEF ServerInv, ServerTypes, Place
<1>7. ClientInv'
  <2>1. ~Busy' /\ \A c \in Client : ~conn'[c].open
    BY <1>1, <1>3 DEF Busy
  <2>2. ~ \E i \in 1 .. Len(backlog') : TRUE
    BY <1>4
  <2> QED
    BY <2>1, <2>2 DEF ClientInv
<1>8. BufferInv'
  BY <1>1 DEF BufferInv, Holding, Kind
<1> QED
  BY <1>6, <1>7, <1>8 DEF ServerInv

-------------------------------------------------------------------------------
LEMMA ServerStarts == Init => ServerInv
<1> SUFFICES ASSUME Init PROVE ServerInv
  OBVIOUS
<1>1. /\ conn = [c \in Client |-> [open |-> FALSE, op |-> NoOp, answer |-> Answer("none")]]
      /\ wire = [c \in Client |-> <<>>] /\ backlog = <<>> /\ pc = "boot" /\ cur \in Client
      /\ buf = Empty /\ total = 0 /\ appConfig = Default /\ world \in Scenarios
      /\ file = [exists |-> FALSE, data |-> <<>>]
  BY DEF Init
<1>2. [open |-> FALSE, op |-> NoOp, answer |-> Answer("none")] \in Connection
  BY AnswerType DEF Connection
<1>3. conn \in [Client -> Connection] /\ \A c \in Client : ~conn[c].open
  BY <1>1, <1>2
<1>4. NUL \in Units
  BY UnitType DEF NUL, UnitKind
<1>5. buf \in [Cells -> Units]
  BY <1>1, <1>4 DEF Empty
<1>6. nvs.cfg \in Fields
  <2>1. CASE nvs \in {[layout |-> "none", cfg |-> Default]}
    BY <2>1, AnswerType
  <2>2. CASE nvs \in [layout : {l \in {"other"} : "record" \in world.may},
                      cfg : {[station |-> 9, bands |-> 9]}]
    BY <2>2 DEF Fields
  <2> QED
    BY <2>1, <2>2 DEF Init
<1>7. total \in 0 .. Room
  <2>1. Room \in Nat
    BY ServerAssumption
  <2> QED
    BY <1>1, <2>1
<1>8. backlog \in Seq(Client) /\ Len(backlog) = 0 /\ wire \in [Client -> Seq(Units)]
  BY <1>1, EmptySeq
<1>9. file \in [exists : BOOLEAN, data : Seq(Nat)] /\ world \in Scenario /\ appConfig \in Fields
  BY <1>1, EmptySeq, AnswerType, ServerAssumption
<1>10. ServerTypes
  BY <1>1, <1>3, <1>5, <1>6, <1>7, <1>8, <1>9 DEF ServerTypes, Place
<1>11. ClientInv
  <2>1. ~Busy
    BY <1>1 DEF Busy
  <2>2. ~ \E i \in 1 .. Len(backlog) : TRUE
    BY <1>8
  <2> QED
    BY <1>3, <2>1, <2>2 DEF ClientInv
<1>12. BufferInv
  BY <1>1 DEF BufferInv, Holding, Kind
<1> QED
  BY <1>10, <1>11, <1>12 DEF ServerInv

LEMMA StepServer ==
  ASSUME ServerInv, [Next]_vars
  PROVE  ServerInv'
<1>1. CASE Serve
  BY <1>1, StepBoot, StepAccept, StepRecvFirst, StepRecvNothing, StepRecvMore, StepDispatch,
     StepClose, StepPutConfig, StepSaveConfig, StepGetConfig, StepPutFile, StepWriteFile,
     StepGetFile, StepDeleteFile DEF Serve
<1>2. CASE Restart
  BY <1>2, StepRestart
<1>3. CASE \E c \in Client : Ask(c) \/ Stall(c)
  BY <1>3, StepAsk, StepStall
<1>4. CASE UNCHANGED vars
  BY <1>4 DEF vars, ServerInv, ServerTypes, ClientInv, BufferInv, Busy, Holding, Unread,
              Asked
<1> QED
  BY <1>1, <1>2, <1>3, <1>4 DEF Next

LEMMA ServerHolds == Spec => []ServerInv
<1>1. Init => ServerInv
  BY ServerStarts
<1>2. ServerInv /\ [Next]_vars => ServerInv'
  BY StepServer
<1> QED
  BY <1>1, <1>2, PTL DEF Spec

\* A handler works on the request at hand: the text it reads is the beginning of what its
\* own client sent, in however many segments it came, whatever request or answer was in the
\* buffer before it, and wherever the request stalled (webserver.cpp:630-651).
THEOREM OwnRequestOnly == Spec => []OwnBytes
<1>1. ServerInv => OwnBytes
  BY TextIsRequest DEF OwnBytes, Handling, Holding, Asked
<1> QED
  BY <1>1, ServerHolds, PTL

-------------------------------------------------------------------------------
(* Worlds in which nothing fails. *)

\* A world stays as calm as it is.
LEMMA WorldStays ==
  ASSUME ServerInv, [Next]_vars
  PROVE  Calm' = Calm
<1>1. world \in Scenario
  BY DEF ServerInv, ServerTypes
<1>2. world'.may = world.may
  <2>1. CASE UNCHANGED world
    BY <2>1
  <2>2. CASE \E f : Fault(f)
    BY <1>1, <2>2, ScenarioStep
  <2>3. CASE \E c \in Client : Ask(c)
    <3>1. world' = [world EXCEPT !.requests = world.requests - 1]
      BY <2>3 DEF Ask
    <3> QED
      BY <1>1, <3>1 DEF Scenario
  <2>4. CASE Restart
    <3>1. world' = [world EXCEPT !.restarts = world.restarts - 1]
      BY <2>4 DEF Restart
    <3> QED
      BY <1>1, <3>1 DEF Scenario
  <2>5. ASSUME Accept \/ RecvFirst \/ RecvNothing \/ RecvMore \/ Dispatch \/ Close \/ GetConfig
        PROVE  UNCHANGED world
    BY <2>5 DEF Accept, RecvFirst, RecvNothing, RecvMore, Dispatch, Close, GetConfig,
                InServer, histVars
  <2>6. ASSUME PutConfig \/ DeleteFile
        PROVE  UNCHANGED world
    BY <2>6 DEF PutConfig, DeleteFile, histVars
  <2>7. ASSUME Boot \/ SaveConfig \/ PutFile \/ WriteFile \/ GetFile
        PROVE  UNCHANGED world \/ \E f : Fault(f)
    BY <2>7 DEF Boot, SaveConfig, PutFile, WriteFile, GetFile
  <2>8. ASSUME NEW c \in Client, Stall(c)
        PROVE  \E f : Fault(f)
    BY <2>8 DEF Stall
  <2>9. ASSUME UNCHANGED vars
        PROVE  UNCHANGED world
    BY <2>9 DEF vars
  <2> QED
    BY <2>1, <2>2, <2>3, <2>4, <2>5, <2>6, <2>7, <2>8, <2>9 DEF Next, Serve
<1> QED
  BY <1>2 DEF Calm

LEMMA NoFault ==
  ASSUME Calm
  PROVE  \A f : ~Fault(f)
BY DEF Calm, Fault

\* A step for the client that is served leaves the ones who wait alone.
LEMMA OthersWait ==
  ASSUME ServerInv, Untouched, UNCHANGED backlog,
         \A c \in Client : (Busy => c # cur) => wire'[c] = wire[c] /\ conn'[c] = conn[c]
  PROVE  Untouched'
<1>1. \A i \in 1 .. Len(backlog) : backlog[i] \in Client /\ (Busy => backlog[i] # cur)
  BY ElementOfSeq DEF ServerInv, ServerTypes, ClientInv
<1> QED
  BY <1>1 DEF Untouched, Asked

LEMMA CalmReply ==
  ASSUME ServerInv, CalmWire, CalmAnswer, Busy, NEW a \in Answers, Replies(a),
         a.s \notin {"none", "lost"}, UNCHANGED <<wire, backlog, cur>>, ~nvsFailed',
         nvsReady',
         conn[cur].op.kind = "putFile" /\ Fits(conn[cur].op) => IsPrefix(conn[cur].op.data,
         file'.data)
  PROVE  CalmWire' /\ CalmAnswer'
<1>1. /\ pc' = "close" /\ conn'[cur].answer = a /\ conn'[cur].op = conn[cur].op
      /\ \A c \in Client : c # cur => conn'[c] = conn[c]
  BY ReplyShape DEF ServerInv
<1>2. Untouched'
  BY <1>1, OthersWait DEF CalmWire
<1>3. CalmWire'
  BY <1>1, <1>2 DEF CalmWire, Kind
<1>4. CalmAnswer'
  BY <1>1 DEF CalmAnswer
<1> QED
  BY <1>3, <1>4

LEMMA CalmBoot ==
  ASSUME ServerInv, Calm, CalmWire, CalmAnswer, Boot
  PROVE  CalmWire' /\ CalmAnswer'
<1>1. /\ pc = "boot" /\ pc' = "accept" /\ nvsReady' /\ ~nvsFailed'
      /\ UNCHANGED <<conn, wire, backlog, cur>>
  BY NoFault DEF Boot, connVars, recvVars, CalmAnswer
<1>2. Untouched'
  BY <1>1, OthersWait DEF CalmWire
<1> QED
  BY <1>1, <1>2 DEF CalmWire, CalmAnswer, Busy, Kind

LEMMA CalmAsk ==
  ASSUME ServerInv, CalmWire, CalmAnswer, NEW c \in Client, Ask(c)
  PROVE  CalmWire' /\ CalmAnswer'
<1>1. PICK op \in Ops(world.kinds) :
        /\ conn' = [conn EXCEPT ![c] = [open |-> TRUE, op |-> op, answer |-> Answer("none")]]
        /\ wire' = [wire EXCEPT ![c] = Request(op)]
  BY DEF Ask
<1>2. /\ pc # "boot" /\ ~conn[c].open /\ backlog' = Append(backlog, c)
      /\ UNCHANGED <<pc, cur, total, want, have, appConfig, nvsReady, file, nvsFailed>>
  BY DEF Ask, recvVars, flashVars
<1>3. /\ conn'[c].op = op /\ conn'[c].answer = Answer("none") /\ wire'[c] = Request(op)
      /\ \A d \in Client : d # c => conn'[d] = conn[d] /\ wire'[d] = wire[d]
  BY <1>1 DEF ServerInv, ServerTypes
<1>4. Busy => cur # c /\ cur \in Client
  BY <1>2 DEF ServerInv, ServerTypes, ClientInv
<1>5. /\ backlog \in Seq(Client) /\ Len(backlog) \in Nat /\ Len(backlog') = Len(backlog) + 1
      /\ backlog'[Len(backlog) + 1] = c
      /\ \A i \in 1 .. Len(backlog) : backlog'[i] = backlog[i]
  BY <1>2, AppendProperties, LenProperties DEF ServerInv, ServerTypes
<1>6. \A i \in 1 .. Len(backlog) : backlog[i] \in Client /\ backlog[i] # c
  BY <1>2, <1>5, ElementOfSeq DEF ServerInv, ClientInv
<1>7. ASSUME NEW i \in 1 .. Len(backlog')
      PROVE  /\ wire'[backlog'[i]] = Request(conn'[backlog'[i]].op)
             /\ conn'[backlog'[i]].answer.s = "none"
  <2>1. i \in 1 .. Len(backlog) \/ i = Len(backlog) + 1
    BY <1>5
  <2>2. CASE i = Len(backlog) + 1
    BY <1>3, <1>5, <2>2, AnswerType
  <2>3. CASE i \in 1 .. Len(backlog)
    BY <1>3, <1>5, <1>6, <2>3 DEF CalmWire, Untouched, Asked
  <2> QED
    BY <2>1, <2>2, <2>3
<1>8. Untouched'
  BY <1>7 DEF Untouched, Asked
<1>9. Busy => conn'[cur] = conn[cur] /\ wire'[cur] = wire[cur]
  BY <1>3, <1>4
<1>10. CalmWire'
  <2>1. CASE Busy
    BY <1>2, <1>8, <1>9, <2>1 DEF CalmWire, Asked
  <2>2. CASE ~Busy
    BY <1>2, <1>8, <2>2 DEF CalmWire, Busy, Kind
  <2> QED
    BY <2>1, <2>2
<1>11. CalmAnswer'
  <2>1. CASE Busy
    BY <1>2, <1>9, <2>1 DEF CalmAnswer, Busy
  <2>2. CASE ~Busy
    BY <1>2, <2>2 DEF CalmAnswer, Busy
  <2> QED
    BY <2>1, <2>2
<1> QED
  BY <1>10, <1>11

LEMMA CalmAccept ==
  ASSUME ServerInv, CalmWire, CalmAnswer, Accept
  PROVE  CalmWire' /\ CalmAnswer'
<1>1. /\ pc = "accept" /\ pc' = "recv" /\ backlog # <<>>
      /\ cur' = Head(backlog) /\ backlog' = Tail(backlog)
      /\ UNCHANGED <<conn, wire, nvsReady, nvsFailed>>
  BY DEF Accept, InServer, flashVars, histVars
<1>2. backlog \in Seq(Client) /\ Len(backlog) \in Nat /\ Len(backlog) # 0
  BY <1>1, EmptySeq, LenProperties DEF ServerInv, ServerTypes
<1>3. /\ cur' = backlog[1] /\ 1 \in 1 .. Len(backlog) /\ Len(backlog') = Len(backlog) - 1
      /\ \A i \in 1 .. Len(backlog') : backlog'[i] = backlog[i + 1] /\ i + 1 \in 1 .. Len(backlog)
  BY <1>1, <1>2, HeadTailProperties
<1>4. wire[cur'] = Request(conn[cur'].op) /\ conn[cur'].answer.s = "none"
  BY <1>3 DEF CalmWire, Untouched, Asked
<1>5. Untouched'
  BY <1>1, <1>3 DEF CalmWire, Untouched, Asked
<1> QED
  BY <1>1, <1>4, <1>5 DEF CalmWire, CalmAnswer, Asked, Kind

LEMMA CalmRecvFirst ==
  ASSUME ServerInv, Calm, CalmWire, CalmAnswer, RecvFirst
  PROVE  CalmWire' /\ CalmAnswer'
<1> DEFINE op == conn[cur].op
           r == Request(op)
<1>1. /\ pc = "recv" /\ pc' = "more" /\ total = 0 /\ wire[cur] = r /\ cur \in Client
      /\ op \in AnyOp /\ op.kind \in Kind /\ wire \in [Client -> Seq(Units)]
      /\ UNCHANGED <<conn, backlog, cur, nvsReady, nvsFailed>>
  BY DEF RecvFirst, InServer, flashVars, histVars, ServerInv, ServerTypes, ClientInv,
         BufferInv,
         CalmWire, Asked, Busy, Connection
<1>2. PICK k \in 1 .. Len(r) :
        /\ k >= HeadLen(op) /\ Arrives(k)
        /\ want' = (IF IsPut(SubSeq(r, 1, k)[1].u) /\ Has(SubSeq(r, 1, k), "length")
                    THEN SubSeq(r, 1, k)[First(SubSeq(r, 1, k), "length")].v ELSE 0)
        /\ have' = Len(BodyOf(SubSeq(r, 1, k)))
  BY <1>1 DEF RecvFirst, Calm
<1>3. /\ total' = k /\ wire'[cur] = SubSeq(r, total' + 1, Len(r))
      /\ \A c \in Client : c # cur => wire'[c] = wire[c]
  <2>1. total' = 0 + k /\ wire' = [wire EXCEPT ![cur] = SubSeq(r, k + 1, Len(r))]
    BY <1>1, <1>2 DEF Arrives
  <2>2. k \in Nat /\ 0 + k = k
    OBVIOUS
  <2> HIDE DEF r
  <2> QED
    BY <1>1, <2>1, <2>2
<1>4. Untouched'
  BY <1>1, <1>3, OthersWait DEF CalmWire, Busy
<1>5. IsPut(op.kind) => k >= 3 /\ want' = Len(Body(op)) /\ have' = k - 3
  <2> SUFFICES ASSUME IsPut(op.kind) PROVE k >= 3 /\ want' = Len(Body(op)) /\ have' = k - 3
    OBVIOUS
  <2> HIDE DEF op
  <2>1. Len(Body(op)) \in Nat /\ Len(r) = 3 + Len(Body(op))
    BY <1>1, RequestShape
  <2>2. k \in Nat /\ k >= 1 /\ k <= Len(r) /\ k >= 3
    BY <1>2, <2>1 DEF HeadLen
  <2>3. SeesBody(op, k)
    BY <1>1, <2>2, PutBody
  <2>4. /\ SubSeq(r, 1, k)[1].u = op.kind /\ Has(SubSeq(r, 1, k), "length")
        /\ SubSeq(r, 1, k)[First(SubSeq(r, 1, k), "length")].v = Len(Body(op))
        /\ Len(BodyOf(SubSeq(r, 1, k))) = IF k > 3 THEN k - 3 ELSE 0
    BY <2>2, <2>3 DEF SeesBody
  <2>5. want' = Len(Body(op))
    BY <1>2, <2>4
  <2>6. Len(BodyOf(SubSeq(r, 1, k))) = k - 3
    BY <2>2, <2>4
  <2> QED
    BY <1>2, <2>2, <2>5, <2>6
<1>6. CalmWire'
  <2>1. conn'[cur'].op = op /\ Asked(cur)' = r
    BY <1>1 DEF Asked
  <2> HIDE DEF op, r
  <2>2. wire'[cur'] = SubSeq(r, total' + 1, Len(r))
    BY <1>1, <1>3
  <2> QED
    BY <1>1, <1>3, <1>4, <1>5, <2>1, <2>2 DEF CalmWire, Kind
<1>7. CalmAnswer'
  BY <1>1 DEF CalmAnswer, Busy
<1> QED
  BY <1>6, <1>7

LEMMA CalmRecvNothing ==
  ASSUME ServerInv, CalmWire, RecvNothing
  PROVE  FALSE
<1>1. wire[cur] = <<>> /\ wire[cur] = Asked(cur)
  BY DEF RecvNothing, CalmWire
<1>2. conn[cur].op \in AnyOp /\ conn[cur].op.kind \in Kind
  BY DEF RecvNothing, ServerInv, ServerTypes, ClientInv, Busy, Connection
<1> QED
  BY <1>1, <1>2, RequestShape, EmptySeq DEF Asked

LEMMA CalmRecvMore ==
  ASSUME ServerInv, CalmWire, CalmAnswer, RecvMore
  PROVE  CalmWire' /\ CalmAnswer'
<1>1. /\ pc = "more" /\ pc' = "more" /\ cur \in Client /\ total \in Nat
      /\ wire \in [Client -> Seq(Units)]
      /\ UNCHANGED <<conn, backlog, cur, want, nvsReady, nvsFailed>>
  BY DEF RecvMore, InServer, flashVars, histVars, ServerInv, ServerTypes
<1>2. PICK k \in 1 .. Len(wire[cur]) : Arrives(k) /\ have' = have + k
  BY DEF RecvMore
<1>3. /\ total' = total + k /\ wire'[cur] = SubSeq(Asked(cur), total' + 1, Len(Asked(cur)))
      /\ \A c \in Client : c # cur => wire'[c] = wire[c]
  BY <1>1, <1>2, StepRecvMore DEF Arrives
<1>4. Untouched'
  BY <1>1, <1>3, OthersWait DEF CalmWire, Busy
<1>5. CalmWire'
  <2>1. Asked(cur)' = Asked(cur) /\ wire'[cur'] = SubSeq(Asked(cur), total' + 1, Len(Asked(cur)))
    BY <1>1, <1>3 DEF Asked
  <2>2. IsPut(conn[cur].op.kind) =>
          total' >= 3 /\ want = Len(Body(conn[cur].op)) /\ have' = total' - 3
    BY <1>1, <1>2, <1>3 DEF CalmWire
  <2> QED
    BY <1>1, <1>4, <2>1, <2>2 DEF CalmWire, Kind
<1>6. CalmAnswer'
  BY <1>1 DEF CalmAnswer, Busy
<1> QED
  BY <1>5, <1>6

LEMMA CalmDispatch ==
  ASSUME ServerInv, CalmWire, CalmAnswer, Dispatch
  PROVE  CalmWire' /\ CalmAnswer'
<1> DEFINE op == conn[cur].op
<1>1. /\ pc = "more" /\ LoopEnds /\ pc' \in Kind
      /\ UNCHANGED <<conn, wire, backlog, cur, total, nvsReady, nvsFailed>>
  <2>1. Holding /\ 1 \in 1 .. total
    BY DEF Dispatch, Holding, ServerInv, ServerTypes, BufferInv
  <2>2. buf[1].u \in Kind
    BY <2>1, TextIsRequest, RequestShape DEF ServerInv, BufferInv, Asked
  <2> QED
    BY <2>2 DEF Dispatch, connVars, recvVars, InServer, flashVars, histVars
<1>2. /\ total \in Nat /\ total <= Room /\ Room \in Nat /\ total <= Len(Request(op)) /\ total >= 1
      /\ op \in AnyOp /\ op.kind \in Kind
  BY <1>1, ServerAssumption, TextIsRequest DEF ServerInv, ServerTypes, Holding, Asked
<1>3. Untouched'
  BY <1>1, OthersWait DEF CalmWire
<1>4. IsPut(op.kind) => total = Len(Request(op)) \/ total = Room
  <2> SUFFICES ASSUME IsPut(op.kind) PROVE total = Len(Request(op)) \/ total = Room
    OBVIOUS
  <2>1. /\ want = Len(Body(op)) /\ have = total - 3
        /\ wire[cur] = SubSeq(Request(op), total + 1, Len(Request(op)))
    BY <1>1 DEF CalmWire, Asked
  <2> HIDE DEF op
  <2>2. Len(Request(op)) = 3 + Len(Body(op)) /\ Len(Body(op)) \in Nat /\ Request(op) \in Seq(Units)
    BY <1>2, RequestShape
  <2>3. CASE ~MoreNeeded
    BY <1>2, <2>1, <2>2, <2>3 DEF MoreNeeded, Space
  <2>4. CASE wire[cur] = <<>>
    <3>1. Len(wire[cur]) = 0
      BY <2>4, EmptySeq
    <3>2. \A i \in total + 1 .. Len(Request(op)) : Request(op)[i] \in Units
      BY <1>2, <2>2, ElementOfSeq
    <3>3. Len(wire[cur]) = IF total + 1 <= Len(Request(op))
                           THEN Len(Request(op)) - (total + 1) + 1 ELSE 0
      BY <1>2, <2>1, <2>2, <3>2, SubSeqProperties
    <3> QED
      BY <1>2, <2>2, <3>1, <3>3
  <2> QED
    BY <1>1, <2>3, <2>4 DEF LoopEnds
<1>5. CalmWire'
  <2>1. pc' \notin {"recv", "more"}
    BY <1>1 DEF Kind
  <2> QED
    BY <1>1, <1>3, <1>4, <2>1 DEF CalmWire, Asked
<1>6. CalmAnswer'
  BY <1>1 DEF CalmAnswer, Busy, Kind
<1> QED
  BY <1>5, <1>6

LEMMA CalmClose ==
  ASSUME ServerInv, CalmWire, CalmAnswer, Close
  PROVE  CalmWire' /\ CalmAnswer'
<1>1. /\ pc = "close" /\ pc' = "accept" /\ UNCHANGED <<backlog, cur, nvsReady, nvsFailed>>
      /\ conn' = [conn EXCEPT ![cur].open = FALSE] /\ wire' = [wire EXCEPT ![cur] = <<>>]
  BY DEF Close, InServer, flashVars, histVars
<1>2. \A c \in Client : c # cur => wire'[c] = wire[c] /\ conn'[c] = conn[c]
  BY <1>1 DEF ServerInv, ServerTypes
<1>3. Untouched'
  BY <1>1, <1>2, OthersWait DEF CalmWire, Busy
<1> QED
  BY <1>1, <1>3 DEF CalmWire, CalmAnswer, Busy, Kind

\* A PUT of the configuration that fits, as each does, is taken whole.
LEMMA CalmPutConfig ==
  ASSUME ServerInv, CalmWire, CalmAnswer, PutConfig
  PROVE  CalmWire' /\ CalmAnswer'
<1> DEFINE op == conn[cur].op
           body == BodyOf(Text(buf))
<1>1. /\ pc = "putConfig" /\ pc' = "save"
      /\ UNCHANGED <<conn, wire, backlog, cur, nvsReady, nvsFailed>>
      /\ appConfig' = [f \in DOMAIN appConfig |-> Given(body, f)]
  BY DEF PutConfig, connVars, recvVars, flashVars, histVars
<1>2. /\ op \in AnyOp /\ op.kind = "putConfig" /\ IsPut(op.kind) /\ op.kind \in Kind
      /\ total \in Nat /\ total >= 1 /\ total <= Len(Request(op))
      /\ Text(buf) = SubSeq(Request(op), 1, total)
  BY <1>1, TextIsRequest DEF Holding, Kind, IsPut, ServerInv, BufferInv, Asked
<1>3. DOMAIN appConfig = {"station", "bands"} /\ op.cfg \in Fields
  BY <1>2 DEF ServerInv, ServerTypes, Fields, AnyOp
<1>4. total = Len(Request(op)) \/ total = Room
  BY <1>1, <1>2 DEF CalmWire, Asked
<1>5. Untouched'
  BY <1>1, OthersWait DEF CalmWire
<1> HIDE DEF op
<1>6. /\ Body(op) = <<Unit("station", op.cfg.station), Unit("bands", op.cfg.bands)>>
      /\ Len(Body(op)) = 2 /\ Len(Request(op)) = 3 + Len(Body(op))
  BY <1>2, BodyShape, RequestShape
<1>7. total = 5
  BY <1>2, <1>4, <1>6, ServerAssumption
<1>8. SeesBody(op, total)
  BY <1>2, PutBody
<1>9. body \in Seq(Units) /\ Len(body) = 2 /\ body[1] = Body(op)[1] /\ body[2] = Body(op)[2]
  <2>1. /\ body \in Seq(Units) /\ Len(body) = IF total > 3 THEN total - 3 ELSE 0
        /\ \A i \in 1 .. Len(body) : body[i] = Body(op)[i]
    BY <1>2, <1>8 DEF SeesBody
  <2> HIDE DEF body
  <2>2. Len(body) = 2
    BY <1>7, <2>1
  <2>3. 1 \in 1 .. Len(body) /\ 2 \in 1 .. Len(body)
    BY <2>2
  <2> QED
    BY <2>1, <2>2, <2>3
<1> HIDE DEF body
<1>10. /\ body[1].u = "station" /\ body[1].v = op.cfg.station
       /\ body[2].u = "bands" /\ body[2].v = op.cfg.bands
  BY <1>3, <1>6, <1>9, UnitType DEF Fields, UnitKind
<1>11. Given(body, "station") = op.cfg.station
  <2>1. Has(body, "station") /\ First(body, "station") = 1
    <3>1. \A j \in 1 .. 1 - 1 : body[j].u # "station"
      OBVIOUS
    <3>2. 1 \in 1 .. Len(body)
      BY <1>9
    <3> QED
      BY <1>9, <1>10, <3>1, <3>2, FirstIs
  <2> QED
    BY <1>10, <2>1 DEF Given
<1>12. Given(body, "bands") = op.cfg.bands
  <2>1. Has(body, "bands") /\ First(body, "bands") = 2
    <3>1. \A j \in 1 .. 2 - 1 : body[j].u # "bands"
      BY <1>10
    <3>2. 2 \in 1 .. Len(body)
      BY <1>9
    <3> QED
      BY <1>9, <1>10, <3>1, <3>2, FirstIs
  <2> QED
    BY <1>10, <2>1 DEF Given
<1>13. appConfig' = op.cfg
  <2>1. appConfig' = [station |-> op.cfg.station, bands |-> op.cfg.bands]
    BY <1>1, <1>3, <1>11, <1>12
  <2>2. op.cfg = [station |-> op.cfg.station, bands |-> op.cfg.bands]
    BY <1>3 DEF Fields
  <2> QED
    BY <2>1, <2>2
<1>14. CalmWire'
  BY <1>1, <1>5 DEF CalmWire, Kind
<1>15. CalmAnswer'
  BY <1>1, <1>13 DEF CalmAnswer, Busy, op
<1> QED
  BY <1>14, <1>15

LEMMA CalmSaveConfig ==
  ASSUME ServerInv, Calm, CalmWire, CalmAnswer, SaveConfig
  PROVE  CalmWire' /\ CalmAnswer' /\ nvs' = [layout |-> "own", cfg |-> appConfig]
<1>1. /\ pc = "save" /\ Busy /\ Replies(Answer("ok")) /\ Answer("ok") \in Answers
      /\ Answer("ok").s = "ok" /\ UNCHANGED <<wire, backlog, cur, nvsReady>>
      /\ nvsReady /\ conn[cur].op.kind = "putConfig"
  BY AnswerType DEF SaveConfig, recvVars, Busy, CalmAnswer, ServerInv, BufferInv
<1>2. nvs' = [layout |-> "own", cfg |-> appConfig] /\ ~nvsFailed'
  BY <1>1, NoFault DEF SaveConfig
<1> QED
  BY <1>1, <1>2, CalmReply

LEMMA CalmGetConfig ==
  ASSUME ServerInv, CalmWire, CalmAnswer, GetConfig
  PROVE  CalmWire' /\ CalmAnswer'
<1> DEFINE a == [Answer("config") EXCEPT !.cfg = appConfig]
<1>1. /\ pc = "getConfig" /\ Busy /\ Replies(a) /\ nvsReady' /\ ~nvsFailed'
      /\ UNCHANGED <<wire, backlog, cur>> /\ conn[cur].op.kind = "getConfig"
  BY DEF GetConfig, Busy, InServer, flashVars, histVars, CalmAnswer, ServerInv, BufferInv,
         Kind
<1>2. a \in Answers /\ a.s = "config"
  BY AnswerType DEF Answers, ServerInv, ServerTypes
<1> HIDE DEF a
<1> QED
  BY <1>1, <1>2, CalmReply

LEMMA CalmPutFile ==
  ASSUME ServerInv, Calm, CalmWire, CalmAnswer, PutFile
  PROVE  CalmWire' /\ CalmAnswer'
<1>1. /\ pc = "putFile" /\ pc' = "writeFile"
      /\ UNCHANGED <<conn, wire, backlog, cur, total, nvsReady, nvsFailed>>
  BY NoFault DEF PutFile, recvVars
<1>2. Untouched'
  BY <1>1, OthersWait DEF CalmWire
<1>3. CalmWire'
  BY <1>1, <1>2 DEF CalmWire, Kind, Asked
<1>4. CalmAnswer'
  BY <1>1 DEF CalmAnswer, Busy
<1> QED
  BY <1>3, <1>4

LEMMA CalmWriteFile ==
  ASSUME ServerInv, Calm, CalmWire, CalmAnswer, WriteFile
  PROVE  CalmWire' /\ CalmAnswer'
<1> DEFINE op == conn[cur].op
           body == BodyOf(SubSeq(buf, 1, total))
           data == [i \in DOMAIN body |-> body[i].v]
<1>1. /\ pc = "writeFile" /\ Busy /\ Replies(Answer("ok")) /\ Answer("ok") \in Answers
      /\ Answer("ok").s = "ok" /\ UNCHANGED <<wire, backlog, cur>> /\ nvsReady' /\ ~nvsFailed'
  BY AnswerType DEF WriteFile, Busy, recvVars, CalmAnswer
<1>2. file' = [file EXCEPT !.data = Overlay(@, data)]
  BY NoFault DEF WriteFile
<1>3. /\ data \in Seq(Nat) /\ op.data \in Seq(Nat) /\ (total = Len(Request(op)) => data = op.data)
      /\ total <= Len(Request(op)) /\ total \in Nat /\ IsPut(op.kind)
  BY <1>1, Pieces DEF Asked, ServerInv, ServerTypes, BufferInv, Holding, IsPut
<1>4. file \in [exists : BOOLEAN, data : Seq(Nat)] /\ Len(Request(op)) \in Nat /\ Room \in Nat
  BY <1>1, ServerAssumption, RequestShape
  DEF ServerInv, ServerTypes, ClientInv, Connection
<1> HIDE DEF data
<1>5. Fits(op) => total = Len(Request(op))
  <2>1. total = Len(Request(op)) \/ total = Room
    BY <1>1, <1>3 DEF CalmWire, Asked
  <2> HIDE DEF op
  <2> QED
    BY <1>3, <1>4, <2>1 DEF Fits
<1>6. Fits(op) => IsPrefix(op.data, file'.data)
  <2>1. file'.data = Overlay(file.data, data) /\ file.data \in Seq(Nat)
    BY <1>2, <1>4
  <2>2. IsPrefix(data, file'.data)
    BY <1>3, <2>1, OverlayShape
  <2> HIDE DEF op
  <2> QED
    BY <1>3, <1>5, <2>2
<1> QED
  BY <1>1, <1>6, CalmReply

LEMMA CalmGetFile ==
  ASSUME ServerInv, Calm, CalmWire, CalmAnswer, GetFile
  PROVE  CalmWire' /\ CalmAnswer'
<1> DEFINE a == [Answer("file") EXCEPT !.data = file.data]
<1>1. /\ pc = "getFile" /\ Busy /\ nvsReady' /\ ~nvsFailed'
      /\ UNCHANGED <<wire, backlog, cur>> /\ conn[cur].op.kind = "getFile"
      /\ Replies(a) \/ Replies(Answer("404"))
  BY NoFault DEF GetFile, Busy, flashVars, CalmAnswer, ServerInv, BufferInv, Kind
<1>2. a \in Answers /\ a.s = "file" /\ Answer("404") \in Answers /\ Answer("404").s = "404"
  BY AnswerType DEF Answers, ServerInv, ServerTypes
<1> HIDE DEF a
<1> QED
  BY <1>1, <1>2, CalmReply

LEMMA CalmDeleteFile ==
  ASSUME ServerInv, CalmWire, CalmAnswer, DeleteFile
  PROVE  CalmWire' /\ CalmAnswer'
<1> DEFINE a == Answer(IF file.exists THEN "ok" ELSE "404")
<1>1. /\ pc = "deleteFile" /\ Busy /\ Replies(a) /\ nvsReady' /\ ~nvsFailed'
      /\ UNCHANGED <<wire, backlog, cur>> /\ conn[cur].op.kind = "deleteFile"
  BY DEF DeleteFile, Busy, recvVars, histVars, CalmAnswer, ServerInv, BufferInv, Kind
<1>2. a \in Answers /\ a.s \in {"ok", "404"}
  BY AnswerType
<1> HIDE DEF a
<1> QED
  BY <1>1, <1>2, CalmReply

LEMMA CalmRestart ==
  ASSUME CalmAnswer, Restart
  PROVE  CalmWire' /\ CalmAnswer'
<1>1. pc' = "boot" /\ backlog' = <<>> /\ UNCHANGED nvsFailed
  BY DEF Restart
<1>2. ~ \E i \in 1 .. Len(backlog') : TRUE
  BY <1>1, EmptySeq
<1> QED
  BY <1>1, <1>2 DEF CalmWire, Untouched, CalmAnswer, Busy, Kind

LEMMA StepCalm ==
  ASSUME ServerInv, CalmInv, [Next]_vars
  PROVE  CalmInv'
<1> SUFFICES ASSUME Calm PROVE CalmWire' /\ CalmAnswer'
  BY WorldStays DEF CalmInv
<1>1. CalmWire /\ CalmAnswer
  BY DEF CalmInv
<1>2. CASE Serve
  BY <1>1, <1>2, CalmBoot, CalmAccept, CalmRecvFirst, CalmRecvNothing, CalmRecvMore,
     CalmDispatch,
     CalmClose, CalmPutConfig, CalmSaveConfig, CalmGetConfig, CalmPutFile, CalmWriteFile,
     CalmGetFile, CalmDeleteFile DEF Serve
<1>3. CASE Restart
  BY <1>1, <1>3, CalmRestart
<1>4. ASSUME NEW c \in Client, Ask(c) \/ Stall(c) PROVE CalmWire' /\ CalmAnswer'
  <2>1. Ask(c)
    BY <1>4, NoFault DEF Stall
  <2> QED
    BY <1>1, <2>1, CalmAsk
<1>5. CASE UNCHANGED vars
  BY <1>1, <1>5 DEF vars, CalmWire, CalmAnswer, Untouched, Asked, Busy
<1> QED
  BY <1>2, <1>3, <1>4, <1>5 DEF Next

LEMMA CalmStarts == Init => CalmInv
<1> SUFFICES ASSUME Init PROVE CalmWire /\ CalmAnswer
  BY DEF CalmInv
<1>1. pc = "boot" /\ backlog = <<>> /\ ~nvsFailed
  BY DEF Init
<1>2. ~ \E i \in 1 .. Len(backlog) : TRUE
  BY <1>1, EmptySeq
<1> QED
  BY <1>1, <1>2 DEF CalmWire, Untouched, CalmAnswer, Busy, Kind

LEMMA CalmHolds == Spec => []CalmInv
<1>1. Init => CalmInv
  BY CalmStarts
<1>2. ServerInv /\ CalmInv /\ [Next]_vars => CalmInv'
  BY StepCalm
<1> QED
  BY <1>1, <1>2, ServerHolds, PTL DEF Spec

\* While nothing fails, an acknowledged upload that fits the buffer is what the file begins
\* with: for every upload and every room, in however many segments it came, whatever the file
\* or the buffer held before, and whatever restarts are between (webserver.cpp:433-449,
\* 639-651).
THEOREM UploadsLead == Spec => FittingUploadLeads
<1> DEFINE Leads == \A c \in Client : Calm /\ Acknowledges(c, "putFile") /\ Fits(conn[c].op)
                                        => IsPrefix(conn[c].op.data, file.data)
<1>1. ServerInv /\ CalmInv /\ [Next]_vars => [Leads]_vars
  <2> SUFFICES ASSUME ServerInv, CalmInv, Next,
                      NEW c \in Client, Calm, Acknowledges(c, "putFile"), Fits(conn[c].op)
               PROVE  IsPrefix(conn[c].op.data, file.data)
    OBVIOUS
  <2>1. conn[c].open /\ ~conn'[c].open /\ conn[c].op.kind = "putFile" /\ conn'[c].answer.s = "ok"
    BY DEF Acknowledges
  <2>2. CASE Close
    <3>1. c = cur /\ pc = "close"
      BY <2>1, <2>2 DEF Close, ServerInv, ServerTypes
    <3> QED
      BY <2>1, <3>1 DEF CalmInv, CalmAnswer
  <2>3. CASE Restart
    <3>1. conn'[c] = [[conn[c] EXCEPT !.open = FALSE] EXCEPT !.answer = Answer("lost")]
      BY <2>1, <2>3 DEF Restart
    <3>2. conn[c] \in Connection
      BY DEF ServerInv, ServerTypes
    <3>3. conn'[c].answer = Answer("lost")
      BY <3>1, <3>2 DEF Connection
    <3> QED
      BY <2>1, <3>3, AnswerType
  <2>4. CASE RecvNothing
    BY <2>4, CalmRecvNothing DEF CalmInv
  <2>5. ASSUME NEW a, Replies(a) PROVE FALSE
    BY <2>1, <2>5 DEF Replies, ServerInv, ServerTypes, Connection
  <2>6. ASSUME SaveConfig \/ GetConfig \/ WriteFile \/ GetFile \/ DeleteFile
        PROVE  \E a : Replies(a)
    BY <2>6 DEF SaveConfig, GetConfig, WriteFile, GetFile, DeleteFile
  <2>7. ASSUME Boot \/ Accept \/ RecvFirst \/ RecvMore \/ Dispatch \/ PutConfig
        PROVE  conn' = conn
    BY <2>7 DEF Boot, Accept, RecvFirst, RecvMore, Dispatch, PutConfig, connVars
  <2>8. ASSUME PutFile
        PROVE  conn' = conn \/ \E a : Replies(a)
    BY <2>8 DEF PutFile
  <2>9. ASSUME NEW d \in Client, Ask(d)
        PROVE  FALSE
    <3>1. ~conn[d].open /\ \A e \in Client : e # d => conn'[e] = conn[e]
      BY <2>9 DEF Ask, ServerInv, ServerTypes
    <3> QED
      BY <2>1, <3>1
  <2>10. ASSUME NEW d \in Client, Stall(d)
         PROVE  conn' = conn
    BY <2>10 DEF Stall
  <2> QED
    BY <2>1, <2>2, <2>3, <2>4, <2>5, <2>6, <2>7, <2>8, <2>9, <2>10 DEF Next, Serve
<1> QED
  BY <1>1, ServerHolds, CalmHolds, PTL DEF Spec, FittingUploadLeads

-------------------------------------------------------------------------------
(* The configuration as a store. *)

stored == IF Calm THEN Read(nvs) ELSE Default
call == [c \in Client |-> IF Calm THEN Seen(c) ELSE Unused]

\* A call is seen from its client's connection, x.
StOf(x) == IF ~x.open THEN "idle" ELSE IF x.answer.s = "none" THEN "sent" ELSE "done"
KindOf(x) == CASE x.op.kind = "putConfig" -> "put" [] x.op.kind = "getConfig" -> "get"
               [] OTHER -> "other"
OpOf(x) == [kind |-> KindOf(x), cfg |-> x.op.cfg]
AnswerOf(x) == IF x.answer.s \in {"none", "lost"} THEN [s |-> "none", v |-> Default]
               ELSE IF KindOf(x) = "other" THEN [s |-> "other", v |-> Default]
               ELSE [s |-> x.answer.s, v |-> x.answer.cfg]
View(x) == [st |-> StOf(x), op |-> OpOf(x), answer |-> AnswerOf(x)]

LEMMA SeenIsView ==
  /\ \A c : Seen(c) = View(conn[c])
  /\ \A c : Seen(c)' = View(conn'[c])
BY DEF Seen, View, StOf, KindOf, OpOf, AnswerOf

\* Steps that the store does not see.
LEMMA StoreIdle ==
  ASSUME UNCHANGED <<conn, nvs>>, Calm' = Calm
  PROVE  UNCHANGED <<stored, call>>
BY DEF stored, call, Seen, Read

\* The calls of the others do not change.
LEMMA OneCall ==
  ASSUME Calm, Calm', NEW d \in Client, \A c \in Client : c # d => conn'[c] = conn[c]
  PROVE  call[d] = View(conn[d]) /\ call' = [call EXCEPT ![d] = View(conn'[d])]
<1>1. call = [c \in Client |-> View(conn[c])] /\ call' = [c \in Client |-> View(conn'[c])]
  BY SeenIsView DEF call
<1> QED
  BY <1>1

LEMMA StoreInvoke ==
  ASSUME ServerInv, Calm, Calm', NEW c \in Client, Ask(c)
  PROVE  Store0!Invoke(c)
<1>1. PICK op \in Ops(world.kinds) :
        conn' = [conn EXCEPT ![c] = [open |-> TRUE, op |-> op, answer |-> Answer("none")]]
  BY DEF Ask
<1>2. ~conn[c].open /\ UNCHANGED nvs
  BY DEF Ask, flashVars
<1>3. op.kind \in Kind /\ op.cfg \in (IF op.kind = "putConfig" THEN Config ELSE {Default})
  BY OpsType DEF ServerInv, ServerTypes
<1>4. /\ conn'[c].open /\ conn'[c].op = op /\ conn'[c].answer = Answer("none")
      /\ \A d \in Client : d # c => conn'[d] = conn[d]
  BY <1>1 DEF ServerInv, ServerTypes
<1>5. OpOf(conn'[c]) \in Store0!Op
  <2>1. CASE op.kind = "putConfig"
    BY <1>3, <1>4, <2>1 DEF Store0!Op, OpOf, KindOf
  <2>2. CASE op.kind = "getConfig"
    BY <1>3, <1>4, <2>2 DEF Store0!Op, OpOf, KindOf
  <2>3. CASE op.kind \notin {"putConfig", "getConfig"}
    BY <1>3, <1>4, <2>3 DEF Store0!Op, OpOf, KindOf
  <2> QED
    BY <2>1, <2>2, <2>3
<1>6. View(conn'[c]) = [st |-> "sent", op |-> OpOf(conn'[c]), answer |-> Store0!NoAnswer]
  BY <1>4, AnswerType DEF View, StOf, AnswerOf, Store0!NoAnswer
<1>7. call[c].st = "idle"
  <2>1. call[c] = View(conn[c])
    BY <1>4, OneCall
  <2>2. View(conn[c]).st = "idle"
    BY <1>2 DEF View, StOf
  <2> QED
    BY <2>1, <2>2
<1>8. call' = [call EXCEPT ![c] = [st |-> "sent", op |-> OpOf(conn'[c]), answer |-> Store0!NoAnswer]]
  BY <1>4, <1>6, OneCall
<1>9. UNCHANGED stored
  BY <1>2 DEF stored, Read
<1> QED
  BY <1>5, <1>7, <1>8, <1>9 DEF Store0!Invoke, stored, call

LEMMA StoreReturn ==
  ASSUME ServerInv, Calm, Calm', CalmAnswer, Close
  PROVE  Store0!Return(cur)
<1>1. /\ pc = "close" /\ UNCHANGED nvs /\ conn' = [conn EXCEPT ![cur].open = FALSE]
      /\ conn \in [Client -> Connection] /\ cur \in Client /\ conn[cur].open
      /\ conn[cur].answer.s \notin {"none", "lost"}
  BY DEF Close, InServer, flashVars, ServerInv, ServerTypes, ClientInv, Busy, CalmAnswer
<1>2. /\ ~conn'[cur].open /\ conn'[cur].op = conn[cur].op /\ conn'[cur].answer = conn[cur].answer
      /\ \A d \in Client : d # cur => conn'[d] = conn[d]
  BY <1>1 DEF Connection
<1>3. /\ StOf(conn'[cur]) = "idle" /\ OpOf(conn'[cur]) = OpOf(conn[cur])
      /\ AnswerOf(conn'[cur]) = AnswerOf(conn[cur]) /\ StOf(conn[cur]) = "done"
  BY <1>1, <1>2 DEF StOf, OpOf, KindOf, AnswerOf
<1>4. View(conn'[cur]) = [View(conn[cur]) EXCEPT !.st = "idle"]
  BY <1>3 DEF View
<1>5. call' = [call EXCEPT ![cur] = [View(conn[cur]) EXCEPT !.st = "idle"]] /\ call[cur] = View(conn[cur])
  BY <1>1, <1>2, <1>4, OneCall
<1>6. call[cur].st = "done" /\ UNCHANGED stored
  BY <1>1, <1>3, <1>5 DEF View, stored, Read
<1> QED
  BY <1>5, <1>6 DEF Store0!Return, stored, call

\* An answer of the server is the one of the store, given at that instant.
Agrees(a) ==
  /\ conn[cur].op.kind = "putConfig" => a = Answer("ok") /\ Read(nvs)' = conn[cur].op.cfg
  /\ conn[cur].op.kind = "getConfig" => a.s = "config" /\ a.cfg = Read(nvs) /\ UNCHANGED nvs
  /\ conn[cur].op.kind \notin {"putConfig", "getConfig"} => UNCHANGED nvs

LEMMA StorePerform ==
  ASSUME ServerInv, Calm, Calm', CalmAnswer, Busy, pc # "close", NEW a \in Answers, Replies(a),
         a.s \notin {"none", "lost"}, Agrees(a)
  PROVE  Store0!Perform(cur)
<1> DEFINE x == conn[cur]
           op == OpOf(x)
<1>1. x.open /\ cur \in Client /\ x.answer.s = "none"
  BY DEF ServerInv, ServerTypes, ClientInv, CalmAnswer
<1>2. /\ conn'[cur].answer = a /\ conn'[cur].op = x.op /\ conn'[cur].open
      /\ \A c \in Client : c # cur => conn'[c] = conn[c]
  BY <1>1, ReplyShape DEF ServerInv
<1>3. stored = Read(nvs) /\ stored' = Read(nvs)'
  BY DEF stored
<1>4. /\ x.op.kind = "putConfig" => a.s = "ok" /\ a.cfg = Default /\ stored' = x.op.cfg
      /\ x.op.kind = "getConfig" => a.s = "config" /\ a.cfg = stored /\ stored' = stored
      /\ x.op.kind \notin {"putConfig", "getConfig"} => stored' = stored
  BY <1>3, AnswerType DEF Agrees, Read
<1>5. /\ StOf(conn'[cur]) = "done" /\ OpOf(conn'[cur]) = op /\ StOf(x) = "sent"
      /\ AnswerOf(conn'[cur]) = IF KindOf(x) = "other" THEN [s |-> "other", v |-> Default]
                                ELSE [s |-> a.s, v |-> a.cfg]
  BY <1>1, <1>2 DEF StOf, OpOf, KindOf, AnswerOf
<1>6. /\ AnswerOf(conn'[cur]) = Store0!Answer(op)
      /\ stored' = IF op.kind = "put" THEN op.cfg ELSE stored
  <2>1. CASE x.op.kind = "putConfig"
    BY <1>4, <1>5, <2>1 DEF KindOf, OpOf, Store0!Answer
  <2>2. CASE x.op.kind = "getConfig"
    <3>1. KindOf(x) = "get" /\ op.kind = "get"
      BY <2>2 DEF KindOf, OpOf
    <3> HIDE DEF op
    <3>2. Store0!Answer(op) = [s |-> "config", v |-> stored]
      BY <3>1 DEF Store0!Answer, stored
    <3> QED
      BY <1>4, <1>5, <2>2, <3>1, <3>2
  <2>3. CASE x.op.kind \notin {"putConfig", "getConfig"}
    BY <1>4, <1>5, <2>3 DEF KindOf, OpOf, Store0!Answer
  <2> QED
    BY <2>1, <2>2, <2>3
<1>7. View(conn'[cur]) = [[View(x) EXCEPT !.st = "done"] EXCEPT !.answer = Store0!Answer(op)]
  <2>1. View(x) = [st |-> "sent", op |-> op, answer |-> AnswerOf(x)]
    BY <1>5 DEF View
  <2>2. View(conn'[cur]) = [st |-> "done", op |-> op, answer |-> Store0!Answer(op)]
    BY <1>5, <1>6 DEF View
  <2> HIDE DEF op, x
  <2> DEFINE done == [View(x) EXCEPT !.st = "done"]
  <2>3. done = [st |-> "done", op |-> op, answer |-> AnswerOf(x)]
    BY <2>1
  <2> HIDE DEF done
  <2>4. View(conn'[cur]) = [done EXCEPT !.answer = Store0!Answer(op)]
    <3> DEFINE b == Store0!Answer(op)
               old == AnswerOf(x)
    <3> HIDE DEF b, old
    <3>1. View(conn'[cur]) = [st |-> "done", op |-> op, answer |-> b]
      BY <2>2 DEF b
    <3>2. done = [st |-> "done", op |-> op, answer |-> old]
      BY <2>3 DEF old
    <3>3. View(conn'[cur]) = [done EXCEPT !.answer = b]
      <4>1. CASE old = b
        BY <3>1, <3>2, <4>1
      <4>2. CASE old # b
        BY <3>1, <3>2, <4>2
      <4> QED
        BY <4>1, <4>2
    <3> QED
      BY <3>3 DEF b
  <2> QED
    BY <2>4 DEF done
<1>8. call' = [call EXCEPT ![cur] = View(conn'[cur])] /\ call[cur] = View(x)
  BY <1>1, <1>2, OneCall
<1>9. View(x).op = op /\ View(x).st = "sent"
  BY <1>5 DEF View
<1> HIDE DEF x, op
<1>10. call' = [call EXCEPT ![cur].st = "done", ![cur].answer = Store0!Answer(op)]
  <2>1. DOMAIN call = Client
    BY DEF call
  <2> QED
    BY <1>1, <1>7, <1>8, <2>1
<1>11. call[cur].st = "sent" /\ call[cur].op = op
  BY <1>8, <1>9
<1> QED
  BY <1>6, <1>10, <1>11 DEF Store0!Perform, stored, call

LEMMA StoreRestart ==
  ASSUME ServerInv, Calm, Calm', Restart
  PROVE  Store0!Restart
<1>1. /\ conn' = [c \in Client |-> IF conn[c].open
                                   THEN [conn[c] EXCEPT !.open = FALSE, !.answer = Answer("lost")]
                                   ELSE conn[c]]
      /\ UNCHANGED nvs /\ conn \in [Client -> Connection]
  BY DEF Restart, ServerInv, ServerTypes
<1>2. ASSUME NEW c \in Client
      PROVE  View(conn'[c]) = IF View(conn[c]).st = "idle" THEN View(conn[c])
                              ELSE [View(conn[c]) EXCEPT !.st = "idle", !.answer = Store0!NoAnswer]
  <2>1. View(conn[c]).st = "idle" <=> ~conn[c].open
    BY DEF View, StOf
  <2>2. CASE ~conn[c].open
    BY <1>1, <2>1, <2>2
  <2>3. CASE conn[c].open
    <3>1. /\ ~conn'[c].open /\ conn'[c].op = conn[c].op
          /\ conn'[c].answer = Answer("lost") /\ Answer("lost").s = "lost"
      BY <1>1, <2>3, AnswerType DEF Connection
    <3>2. /\ StOf(conn'[c]) = "idle" /\ OpOf(conn'[c]) = OpOf(conn[c])
          /\ AnswerOf(conn'[c]) = Store0!NoAnswer
      BY <3>1 DEF StOf, OpOf, KindOf, AnswerOf, Store0!NoAnswer
    <3> QED
      BY <2>1, <2>3, <3>2 DEF View
  <2> QED
    BY <2>2, <2>3
<1>3. call = [c \in Client |-> View(conn[c])] /\ call' = [c \in Client |-> View(conn'[c])]
  BY SeenIsView DEF call
<1>4. call' = [c \in Client |-> IF call[c].st = "idle" THEN call[c]
                                ELSE [call[c] EXCEPT !.st = "idle", !.answer = Store0!NoAnswer]]
  BY <1>2, <1>3
<1>5. UNCHANGED stored
  BY <1>1 DEF stored, Read
<1> QED
  BY <1>4, <1>5 DEF Store0!Restart, stored, call

LEMMA StoreStep ==
  ASSUME ServerInv, StoredInv, CalmInv, [Next]_vars
  PROVE  [Store0!Next]_(Store0!vars)
<1>1. CASE ~Calm
  BY <1>1, WorldStays DEF Store0!vars, Calm
<1>2. CASE Calm
  <2>1. Calm' /\ CalmWire /\ CalmAnswer /\ cur \in Client
    BY <1>2, WorldStays DEF CalmInv, ServerInv, ServerTypes
  <2>2. ASSUME UNCHANGED <<conn, nvs>> PROVE UNCHANGED Store0!vars
    BY <1>2, <2>1, <2>2, StoreIdle DEF Store0!vars, stored, call
  <2>3. ASSUME Boot \/ Accept \/ RecvFirst \/ RecvMore \/ Dispatch \/ PutConfig \/ PutFile
        PROVE  UNCHANGED <<conn, nvs>>
    BY <1>2, <2>3, NoFault DEF Boot, Accept, RecvFirst, RecvMore, Dispatch, PutConfig,
                               PutFile, connVars,
       InServer, flashVars
  <2>4. CASE Close
    BY <1>2, <2>1, <2>4, StoreReturn DEF Store0!Next
  <2>5. CASE Restart
    BY <1>2, <2>1, <2>5, StoreRestart DEF Store0!Next
  <2>6. ASSUME NEW c \in Client, Ask(c) PROVE Store0!Next
    BY <1>2, <2>1, <2>6, StoreInvoke DEF Store0!Next
  <2>7. ASSUME NEW a \in Answers, Replies(a), a.s \notin {"none", "lost"}, Agrees(a), Busy, pc # "close"
        PROVE  Store0!Next
    BY <1>2, <2>1, <2>7, StorePerform DEF Store0!Next
  <2>8. CASE SaveConfig
    <3>1. nvs' = [layout |-> "own", cfg |-> appConfig] /\ appConfig = conn[cur].op.cfg
          /\ conn[cur].op.kind = "putConfig" /\ Replies(Answer("ok")) /\ pc = "save"
      BY <1>2, <2>1, <2>8, CalmSaveConfig DEF SaveConfig, CalmAnswer, ServerInv, BufferInv
    <3>2. Answer("ok") \in Answers /\ Answer("ok").s \notin {"none", "lost"}
      BY AnswerType
    <3>3. Agrees(Answer("ok"))
      BY <3>1 DEF Agrees, Read
    <3> QED
      BY <2>7, <3>1, <3>2, <3>3 DEF Busy
  <2>9. CASE GetConfig
    <3> DEFINE a == [Answer("config") EXCEPT !.cfg = appConfig]
    <3>1. /\ conn[cur].op.kind = "getConfig" /\ Replies(a) /\ pc = "getConfig" /\ UNCHANGED nvs
      BY <2>9 DEF GetConfig, InServer, flashVars, ServerInv, BufferInv, Kind
    <3>2. appConfig = Read(nvs)
      BY <2>1, <3>1 DEF StoredInv, CalmAnswer
    <3>3. a \in Answers /\ a.s = "config" /\ a.cfg = appConfig
      BY AnswerType DEF Answers, ServerInv, ServerTypes
    <3> HIDE DEF a
    <3>4. Agrees(a)
      BY <3>1, <3>2, <3>3 DEF Agrees
    <3> QED
      BY <2>7, <3>1, <3>3, <3>4 DEF Busy
  <2>10. ASSUME NEW a \in Answers, Replies(a), a.s \notin {"none", "lost"}, UNCHANGED nvs,
                pc \in {"writeFile", "getFile", "deleteFile"}
         PROVE  Store0!Next
    <3>1. conn[cur].op.kind \notin {"putConfig", "getConfig"}
      BY <2>10 DEF ServerInv, BufferInv, Kind
    <3>2. Agrees(a)
      BY <2>10, <3>1 DEF Agrees
    <3> QED
      BY <2>7, <2>10, <3>2 DEF Busy
  <2>11. CASE WriteFile \/ DeleteFile
    <3>1. PICK s \in {"ok", "404"} : Replies(Answer(s))
      BY <2>11 DEF WriteFile, DeleteFile
    <3>2. Answer(s) \in Answers /\ Answer(s).s = s
      BY AnswerType
    <3>3. UNCHANGED nvs /\ pc \in {"writeFile", "getFile", "deleteFile"}
      BY <2>11 DEF WriteFile, DeleteFile
    <3> QED
      BY <2>10, <3>1, <3>2, <3>3
  <2>12. CASE GetFile
    <3> DEFINE a == [Answer("file") EXCEPT !.data = file.data]
    <3>1. Replies(a) \/ Replies(Answer("404"))
      BY <1>2, <2>12, NoFault DEF GetFile
    <3>2. UNCHANGED nvs /\ pc \in {"writeFile", "getFile", "deleteFile"}
      BY <2>12 DEF GetFile, flashVars
    <3>3. a \in Answers /\ a.s = "file" /\ Answer("404") \in Answers /\ Answer("404").s = "404"
      BY AnswerType DEF Answers, ServerInv, ServerTypes
    <3> HIDE DEF a
    <3> QED
      BY <2>10, <3>1, <3>2, <3>3
  <2>13. CASE RecvNothing
    BY <2>1, <2>13, CalmRecvNothing
  <2>14. ASSUME NEW c \in Client, Stall(c) PROVE FALSE
    BY <1>2, <2>14, NoFault DEF Stall
  <2>15. ASSUME UNCHANGED vars PROVE UNCHANGED <<conn, nvs>>
    BY <2>15 DEF vars
  <2> QED
    BY <2>2, <2>3, <2>4, <2>5, <2>6, <2>8, <2>9, <2>11, <2>12, <2>13, <2>14,
       <2>15 DEF Next, Serve
<1> QED
  BY <1>1, <1>2

\* The server implements ConfigStore's safety: while nothing fails, the configuration is one
\* value that each acknowledged PUT has replaced as a whole and each GET answers with, at one
\* instant between request and answer, and that restarts leave alone
\* (webserver.cpp:203-243, 342-370).
THEOREM ConfigIsAStore == Spec => Store0!Init /\ [][Store0!Next]_(Store0!vars)
<1>1. Init => Store0!Init
  <2> SUFFICES ASSUME Init PROVE Store0!Init
    OBVIOUS
  <2>1. conn = [c \in Client |-> [open |-> FALSE, op |-> NoOp, answer |-> Answer("none")]]
    BY DEF Init
  <2>2. stored = Default
    BY DEF Init, stored, Read, Calm
  <2>3. ASSUME NEW c \in Client PROVE View(conn[c]) = Unused
    BY <2>1, AnswerType DEF View, StOf, OpOf, KindOf, AnswerOf, Unused, NoOp
  <2>4. call = [c \in Client |-> Unused]
    BY <2>3, SeenIsView DEF call
  <2> QED
    BY <2>2, <2>4 DEF Store0!Init, Store0!NoAnswer, Unused, stored, call
<1>2. Init => StoredInv
  BY DEF Init, StoredInv
<1>3. StoredInv /\ [Next]_vars => StoredInv'
  BY StepStored
<1>4. ServerInv /\ StoredInv /\ CalmInv /\ [Next]_vars => [Store0!Next]_(Store0!vars)
  BY StoreStep
<1> QED
  BY <1>1, <1>2, <1>3, <1>4, ServerHolds, CalmHolds, PTL DEF Spec

===============================================================================
