-------------------------- MODULE WSPRExciter_proofs --------------------------
(***************************************************************************)
(* The gates of the output stage are safe for every accumulator width,      *)
(* digit size, tuning word and threshold.  Nothing about the phase is       *)
(* needed: the overflow code may be any value, because a code the ring does *)
(* not know holds it.  The inductive invariant says that the ring is        *)
(* one-hot and that the four gate registers are images of such rings.       *)
(*                                                                          *)
(* The phase is conserved for every width and digit size too.  It is a sum  *)
(* over the segments, so that the proof goes by induction on the lower n of *)
(* them: what they hold after a clock, and the carry out of them, is what   *)
(* they held before and the lower n digits of W.                            *)
(***************************************************************************)
EXTENDS WSPRExciter, TLAPS, WellFoundedInduction

HotAt(i) == [j \in Slot |-> j = i]

GateInv == /\ OneHot
           /\ en1 \in BOOLEAN /\ en2 \in BOOLEAN
           /\ SafeGates(outR) /\ SafeGates(outF)
           /\ SafeGates(outR_reg) /\ SafeGates(outF_reg)

\* One overflow moves the hot bit to the next slot: advance1 rotates the ring.
LEMMA Advance1Hot ==
  ASSUME NEW i \in Slot
  PROVE  advance1(HotAt(i)) = HotAt((i + 1) % 6) /\ (i + 1) % 6 \in Slot
  BY DEF advance1, HotAt, Slot

\* Two overflows move it by two.
LEMMA Advance2Hot ==
  ASSUME NEW i \in Slot
  PROVE  advance2(HotAt(i)) = HotAt((i + 2) % 6) /\ (i + 2) % 6 \in Slot
  BY DEF advance2, HotAt, Slot

\* Whatever the overflow code, the ring stays one-hot.
LEMMA AdvanceHot ==
  ASSUME NEW i \in Slot, NEW ovf
  PROVE  \E k \in Slot : Advance(HotAt(i), ovf) = HotAt(k)
<1>1. CASE ovf = 1
  BY <1>1, Advance1Hot DEF Advance
<1>2. CASE ovf = 2
  BY <1>2, Advance2Hot DEF Advance
<1>3. CASE ovf # 1 /\ ovf # 2
  BY <1>3 DEF Advance
<1> QED
  BY <1>1, <1>2, <1>3

\* A one-hot ring drives the gates safely: slots 0..2 push, slots 3..5 pull.
LEMMA HotIsSafe ==
  ASSUME NEW i \in Slot, NEW en \in BOOLEAN
  PROVE  SafeGates(ringToGates(HotAt(i), en))
<1> DEFINE g == ringToGates(HotAt(i), en)
<1>1. \A k \in Slot : HotAt(i)[k] <=> k = i
  BY DEF HotAt
<1>2. \A x \in Gate : Conducts(x) \subseteq Slot
  BY DEF Gate, Conducts, Slot
<1>3. \A x \in Gate : g[x] <=> en /\ i \in Conducts(x)
  BY <1>1, <1>2 DEF ringToGates
<1> HIDE DEF g
<1>4. SafeGates(g)
  BY <1>3 DEF SafeGates, Conducts, Gate
<1> QED
  BY <1>4 DEF g

LEMMA InitGateInv == Init => GateInv
<1> SUFFICES ASSUME Init PROVE GateInv
  OBVIOUS
<1>1. OneHot
  BY DEF Init, OneHot, RingReset, Slot
<1>2. SafeGates(AllOff)
  BY DEF SafeGates, AllOff, Gate
<1> QED
  BY <1>1, <1>2 DEF Init, GateInv

\* A clock edge: the new gates come from the old ring, advanced or not.
LEMMA TickGateInv == 
  ASSUME GateInv, Tick
  PROVE  GateInv'
<1>1. PICK i \in Slot : ring = HotAt(i)
  BY DEF GateInv, OneHot, HotAt
<1>2. OneHot'
  <2>1. CASE rst_l \/ ~txEn_l
    <3>1. ring' = HotAt(0) /\ 0 \in Slot
      BY <2>1 DEF Tick, Walk, RingReset, HotAt, Slot
    <3> QED
      BY <3>1 DEF OneHot, HotAt
  <2>2. CASE ~(rst_l \/ ~txEn_l)
    <3>1. PICK k \in Slot : Advance(HotAt(i), ovf_full) = HotAt(k)
      BY AdvanceHot
    <3>2. ring' = HotAt(k)
      BY <1>1, <2>2, <3>1 DEF Tick, Walk
    <3> QED
      BY <3>2 DEF OneHot, HotAt
  <2> QED
    BY <2>1, <2>2
<1>3. SafeGates(outR')
  <2>1. PICK k \in Slot : Advance(ring, ovf_full) = HotAt(k)
    BY <1>1, AdvanceHot
  <2>2. outR' = ringToGates(HotAt(k), en2)
    BY <2>1 DEF Tick, Drive
  <2> QED
    BY <2>2, HotIsSafe DEF GateInv
<1>4. SafeGates(outF')
  <2>1. PICK k \in Slot : (IF ovf_mid THEN advance1(ring) ELSE ring) = HotAt(k)
    BY <1>1, Advance1Hot
  <2>2. outF' = ringToGates(HotAt(k), en1)
    BY <2>1 DEF Tick, Drive
  <2> QED
    BY <2>2, HotIsSafe DEF GateInv
<1>5. SafeGates(outR_reg') /\ SafeGates(outF_reg')
  BY DEF Tick, Drive, GateInv
<1>6. en1' \in BOOLEAN /\ en2' \in BOOLEAN
  BY DEF Tick, Power
<1> QED
  BY <1>2, <1>3, <1>4, <1>5, <1>6 DEF GateInv, SafeGates

\* Inputs change between clock edges and touch no register of the block.
LEMMA StepGateInv == GateInv /\ [Next]_vars => GateInv'
<1> SUFFICES ASSUME GateInv, [Next]_vars PROVE GateInv'
  OBVIOUS
<1>1. CASE Tick
  BY <1>1, TickGateInv
<1>2. CASE SetInput
  BY <1>2 DEF SetInput, outs, power, GateInv, OneHot, SafeGates
<1>3. CASE UNCHANGED vars
  BY <1>3 DEF vars, outs, power, GateInv, OneHot, SafeGates
<1> QED
  BY <1>1, <1>2, <1>3 DEF Next

\* The ring is always one-hot (WSPRExciter.sv:85-105).
THEOREM RingOneHot == Spec => []OneHot
<1>1. GateInv => OneHot
  BY DEF GateInv
<1> QED
  BY <1>1, InitGateInv, StepGateInv, PTL DEF Spec

\* Push and pull never conduct together, on either clock edge
\* (WSPRExciter.sv:122-153).
THEOREM GatesNeverShootThrough == Spec => []NoShootThrough
<1>1. GateInv => NoShootThrough
  BY DEF GateInv, NoShootThrough
<1> QED
  BY <1>1, InitGateInv, StepGateInv, PTL DEF Spec


-------------------------------------------------------------------------------
(* Recursion and induction on the natural numbers, in a form without operator parameters: *)
(* a property is the set of the numbers that have it. *)

LEMMA NatMin ==
  ASSUME NEW S, S \subseteq Nat, S # {}
  PROVE  \E m \in S : \A k \in S : m <= k
<1>1. \E m \in S : \A k \in S : ~ (<<k, m>> \in OpToRel(<, Nat))
  BY NatLessThanWellFounded, WFMin, Zenon
<1>2. ASSUME NEW k \in Nat, NEW m \in Nat, k < m PROVE <<k, m>> \in OpToRel(<, Nat)
  <2>1. <<k, m>> \in Nat \X Nat /\ <<k, m>>[1] < <<k, m>>[2]
    BY <1>2
  <2> QED
    BY <2>1, Zenon DEF OpToRel
<1>3. \A k \in S : k \in Nat
  OBVIOUS
<1>4. \E m \in S : \A k \in S : ~ (k < m)
  BY <1>1, <1>2, <1>3, Zenon
<1> QED
  BY <1>4

LEMMA NatAll ==
  ASSUME NEW S \in SUBSET Nat, 0 \in S, \A n \in S : n + 1 \in S
  PROVE  S = Nat
<1> SUFFICES ASSUME Nat \ S # {} PROVE FALSE
  OBVIOUS
<1>1. PICK m \in Nat \ S : \A k \in Nat \ S : m <= k
  BY NatMin
<1>2. m - 1 \in S
  BY <1>1
<1> QED
  BY <1>1, <1>2

\* A function on the first n + 1 numbers, given by its first value and a step.
Upto(T, a, F, n, g) ==
  g \in [0 .. n -> T] /\ g[0] = a /\ \A i \in 0 .. n - 1 : g[i + 1] = F[<<i, g[i]>>]

LEMMA UptoMore ==
  ASSUME NEW T, NEW a \in T, NEW F \in [Nat \X T -> T], NEW n \in Nat, NEW g,
         Upto(T, a, F, n, g)
  PROVE  \E h : Upto(T, a, F, n + 1, h)
<1> DEFINE v == F[<<n, g[n]>>]
           h == [i \in 0 .. n + 1 |-> IF i = n + 1 THEN v ELSE g[i]]
<1>1. g[n] \in T /\ v \in T
  BY DEF Upto
<1>2. h \in [0 .. n + 1 -> T] /\ h[0] = a
  BY <1>1 DEF Upto
<1>3. ASSUME NEW i \in 0 .. (n + 1) - 1 PROVE h[i + 1] = F[<<i, h[i]>>]
  <2>1. i \in 0 .. n + 1 /\ i + 1 \in 0 .. n + 1 /\ i # n + 1 /\ h[i] = g[i]
    OBVIOUS
  <2>2. CASE i = n
    <3>1. h[i + 1] = v
      BY <2>1, <2>2
    <3> QED
      BY <2>1, <2>2, <3>1
  <2>3. CASE i # n
    <3>1. i \in 0 .. n - 1 /\ i + 1 # n + 1
      BY <2>1, <2>3
    <3>2. h[i + 1] = g[i + 1] /\ g[i + 1] = F[<<i, g[i]>>]
      BY <2>1, <3>1 DEF Upto
    <3> QED
      BY <2>1, <3>2
  <2> QED
    BY <2>2, <2>3
<1> HIDE DEF h
<1> QED
  BY <1>2, <1>3 DEF Upto

LEMMA UptoAgree ==
  ASSUME NEW T, NEW a, NEW F, NEW n \in Nat, NEW g, Upto(T, a, F, n, g),
         NEW m \in Nat, NEW h, Upto(T, a, F, m, h), NEW i \in Nat, i <= n, i <= m
  PROVE  g[i] = h[i]
<1> DEFINE S == {j \in Nat : j <= n /\ j <= m => g[j] = h[j]}
<1>1. 0 \in S
  BY DEF Upto
<1>2. ASSUME NEW j \in S PROVE j + 1 \in S
  <2>1. ASSUME j + 1 <= n, j + 1 <= m PROVE g[j + 1] = h[j + 1]
    <3>1. j \in 0 .. n - 1 /\ j \in 0 .. m - 1 /\ g[j] = h[j]
      BY <1>2, <2>1
    <3> QED
      BY <3>1 DEF Upto
  <2> QED
    BY <2>1
<1>3. S \in SUBSET Nat
  OBVIOUS
<1> HIDE DEF S
<1>4. S = Nat
  BY <1>1, <1>2, <1>3, NatAll
<1> QED
  BY <1>4 DEF S

\* The function on all of them.
StepOn(T, F) == F \in [Nat \X T -> T]
Recursive(T, a, F, f) ==
  f \in [Nat -> T] /\ f[0] = a /\ \A n \in Nat : f[n + 1] = F[<<n, f[n]>>]

LEMMA Recursion ==
  ASSUME NEW T, NEW a \in T, NEW F, StepOn(T, F)
  PROVE  \E f : Recursive(T, a, F, f)
<1> DEFINE S == {n \in Nat : \E g : Upto(T, a, F, n, g)}
           G(n) == CHOOSE g : Upto(T, a, F, n, g)
           f == [n \in Nat |-> G(n)[n]]
<1>1. 0 \in S
  <2>1. Upto(T, a, F, 0, [i \in 0 .. 0 |-> a])
    BY DEF Upto
  <2> QED
    BY <2>1
<1>2. ASSUME NEW n \in S PROVE n + 1 \in S
  <2>1. PICK g : Upto(T, a, F, n, g)
    BY <1>2
  <2>2. \E h : Upto(T, a, F, n + 1, h)
    BY <2>1, UptoMore DEF StepOn
  <2> QED
    BY <2>2
<1>3. S \in SUBSET Nat
  OBVIOUS
<1> HIDE DEF S
<1>4. S = Nat
  BY <1>1, <1>2, <1>3, NatAll
<1>5. ASSUME NEW n \in Nat PROVE Upto(T, a, F, n, G(n))
  BY <1>4 DEF S
<1> HIDE DEF G
<1>6. f \in [Nat -> T] /\ f[0] = a
  BY <1>5 DEF Upto
<1>7. ASSUME NEW n \in Nat PROVE f[n + 1] = F[<<n, f[n]>>]
  <2>1. Upto(T, a, F, n, G(n)) /\ Upto(T, a, F, n + 1, G(n + 1)) /\ n + 1 \in Nat
    BY <1>5
  <2>2. G(n)[n] = G(n + 1)[n]
    BY <2>1, UptoAgree
  <2>3. G(n + 1)[n + 1] = F[<<n, G(n + 1)[n]>>]
    BY <2>1 DEF Upto
  <2> QED
    BY <2>1, <2>2, <2>3
<1>8. Recursive(T, a, F, f)
  BY <1>6, <1>7 DEF Recursive
<1> QED
  BY <1>8

-------------------------------------------------------------------------------
(* The weights and the sums of the phase are what their definitions say. *)

LEMMA WeightIs ==
  /\ Weight \in [Nat -> Nat \ {0}]
  /\ Weight[0] = 1
  /\ \A n \in Nat : Weight[n + 1] = Radix * Weight[n]
<1> DEFINE T == Nat \ {0}
           F == [p \in Nat \X T |-> Radix * p[2]]
           Is(g) == g = [s \in Nat |-> IF s = 0 THEN 1 ELSE Radix * g[s - 1]]
<1>1. StepOn(T, F) /\ 1 \in T
  BY RadixAssumption DEF StepOn
<1> HIDE DEF F
<1>2. PICK f : Recursive(T, 1, F, f)
  BY <1>1, Recursion
<1>3. f \in [Nat -> T] /\ f[0] = 1 /\ \A n \in Nat : f[n + 1] = Radix * f[n]
  BY <1>2 DEF Recursive, F
<1>4. ASSUME NEW s \in Nat PROVE f[s] = IF s = 0 THEN 1 ELSE Radix * f[s - 1]
  <2>1. CASE s = 0
    BY <1>3, <2>1
  <2>2. CASE s # 0
    <3>1. s - 1 \in Nat /\ (s - 1) + 1 = s
      BY <2>2
    <3>2. f[s] = Radix * f[s - 1]
      BY <1>3, <3>1
    <3> QED
      BY <2>2, <3>2
  <2> QED
    BY <2>1, <2>2
<1>5. Is(f)
  BY <1>3, <1>4
<1>6. Is(Weight)
  BY <1>5 DEF Weight
<1>7. Weight[0] = 1 /\ \A n \in Nat : Weight[n + 1] = Radix * Weight[n]
  BY <1>6
<1> DEFINE S == {n \in Nat : Weight[n] \in T}
<1>8. 0 \in S /\ \A n \in S : n + 1 \in S
  BY <1>7, RadixAssumption
<1>9. S \in SUBSET Nat
  OBVIOUS
<1> HIDE DEF S
<1>10. S = Nat
  BY <1>8, <1>9, NatAll
<1>11. \A n \in Nat : Weight[n] \in Nat \ {0}
  BY <1>10 DEF S
<1>12. Weight \in [Nat -> Nat \ {0}]
  BY <1>6, <1>11
<1> QED
  BY <1>7, <1>12

LEMMA SumIs ==
  ASSUME NEW n \in Nat, NEW x, \A i \in 0 .. n - 1 : x[i] \in Int
  PROVE  /\ SumTo(x, 0) = 0
         /\ \A k \in 0 .. n : SumTo(x, k) \in Int
         /\ \A k \in 0 .. n - 1 : SumTo(x, k + 1) = SumTo(x, k) + x[k]
<1> DEFINE F == [p \in Nat \X Int |-> IF p[1] < n THEN p[2] + x[p[1]] ELSE p[2]]
<1>1. StepOn(Int, F) /\ 0 \in Int
  BY DEF StepOn
<1> HIDE DEF F
<1>2. PICK f : Recursive(Int, 0, F, f)
  BY <1>1, Recursion
<1>3. f \in [Nat -> Int] /\ f[0] = 0 /\ \A i \in 0 .. n - 1 : f[i + 1] = f[i] + x[i]
  <2>1. ASSUME NEW i \in 0 .. n - 1 PROVE f[i + 1] = f[i] + x[i]
    <3>1. i \in Nat /\ f[i] \in Int /\ i < n
      BY <1>2 DEF Recursive
    <3>2. F[<<i, f[i]>>] = f[i] + x[i]
      BY <3>1 DEF F
    <3> QED
      BY <1>2, <3>1, <3>2 DEF Recursive
  <2> QED
    BY <1>2, <2>1 DEF Recursive
<1>4. ASSUME NEW k \in 0 .. n PROVE SumTo(x, k) = f[k]
  <2> DEFINE Is(g) == g = [i \in 0 .. k |-> IF i = 0 THEN 0 ELSE g[i - 1] + x[i - 1]]
             g0 == [i \in 0 .. k |-> f[i]]
             sum == CHOOSE g : Is(g)
  <2>1. ASSUME NEW i \in 0 .. k PROVE g0[i] = IF i = 0 THEN 0 ELSE g0[i - 1] + x[i - 1]
    <3>1. CASE i = 0
      BY <1>3, <3>1
    <3>2. CASE i # 0
      <4>1. i - 1 \in 0 .. n - 1 /\ (i - 1) + 1 = i /\ i - 1 \in 0 .. k
        BY <3>2
      <4>2. f[i] = f[i - 1] + x[i - 1]
        BY <1>3, <4>1
      <4> QED
        BY <3>2, <4>1, <4>2
    <3> QED
      BY <3>1, <3>2
  <2>2. Is(g0)
    BY <2>1
  <2> HIDE DEF g0
  <2>3. Is(sum)
    BY <2>2
  <2>4. SumTo(x, k) = sum[k]
    BY DEF SumTo
  <2> HIDE DEF sum
  <2> DEFINE S == {j \in Nat : j <= k => sum[j] = f[j]}
  <2>5. 0 \in S
    BY <1>3, <2>3
  <2>6. ASSUME NEW j \in S PROVE j + 1 \in S
    <3>1. ASSUME j + 1 <= k PROVE sum[j + 1] = f[j + 1]
      <4>1. j \in 0 .. n - 1 /\ j + 1 \in 0 .. k /\ j + 1 # 0 /\ (j + 1) - 1 = j
        BY <3>1
      <4>2. sum[j + 1] = sum[j] + x[j]
        BY <2>3, <4>1
      <4>3. sum[j] = f[j]
        BY <3>1
      <4> QED
        BY <1>3, <4>1, <4>2, <4>3
    <3> QED
      BY <3>1
  <2>7. S \in SUBSET Nat
    OBVIOUS
  <2> HIDE DEF S
  <2>8. S = Nat
    BY <2>5, <2>6, <2>7, NatAll
  <2>9. k \in S /\ k <= k
    BY <2>8
  <2> QED
    BY <2>4, <2>9 DEF S
<1>5. ASSUME NEW k \in 0 .. n - 1 PROVE k \in 0 .. n /\ k + 1 \in 0 .. n
  OBVIOUS
<1>6. 0 \in 0 .. n
  OBVIOUS
<1> QED
  BY <1>3, <1>4, <1>5, <1>6

-------------------------------------------------------------------------------
(* Types. *)

LEMMA DivRem ==
  ASSUME NEW a \in Int, NEW b \in Nat \ {0}
  PROVE  a \div b \in Int /\ a % b \in 0 .. b - 1 /\ a = b * (a \div b) + (a % b)
  OBVIOUS

LEMMA InputsType ==
  ASSUME TypeOK
  PROVE  /\ W \in 0 .. 2 * Modulus - 1 /\ Modulus \in Nat \ {0}
         /\ \A s \in Seg : WDigit(s) \in Digit
         /\ WBit32 \in Bit
<1>1. Modulus \in Nat \ {0}
  BY WeightIs, SegsAssumption DEF Modulus
<1>2. in.tuningWord \in 0 .. Modulus - 1
  BY InputAssumption DEF TypeOK
<1>3. W \in 0 .. 2 * Modulus - 1
  BY <1>1, <1>2 DEF W
<1>4. ASSUME NEW s \in Seg PROVE WDigit(s) \in Digit
  <2>1. Weight[s] \in Nat \ {0}
    BY WeightIs, SegsAssumption DEF Seg
  <2>2. W \div Weight[s] \in Int
    <3>1. W \in Int
      BY <1>1, <1>3
    <3> QED
      BY <2>1, <3>1, DivRem, Zenon
  <2>3. Radix \in Nat \ {0}
    BY RadixAssumption
  <2> QED
    BY <2>2, <2>3, DivRem, Zenon DEF WDigit, Digit
<1>5. WBit32 \in Bit
  <2> DEFINE q == W \div Modulus
             r == W % Modulus
  <2>1. q \in Int /\ r \in 0 .. Modulus - 1 /\ W = Modulus * q + r
    <3>1. W \in Int
      BY <1>1, <1>3
    <3> QED
      BY <1>1, <3>1, DivRem, Zenon
  <2> HIDE DEF q, r
  <2>2. q >= 0
    <3>1. q <= -1 => Modulus * q <= -Modulus
      BY <1>1, <2>1
    <3> QED
      BY <1>1, <1>3, <2>1, <3>1
  <2>3. q <= 1
    <3>1. q >= 2 => Modulus * q >= 2 * Modulus
      BY <1>1, <2>1
    <3> QED
      BY <1>1, <1>3, <2>1, <3>1
  <2> QED
    BY <2>1, <2>2, <2>3 DEF q, WBit32, Bit
<1> QED
  BY <1>1, <1>3, <1>4, <1>5

\* A segment's sum is its new digit and one carry.
LEMMA SegSumIs ==
  ASSUME TypeOK, NEW s \in Seg
  PROVE  /\ SegSum(s) \div Radix \in Bit /\ SegSum(s) % Radix \in Digit
         /\ SegSum(s) = Radix * (SegSum(s) \div Radix) + (SegSum(s) % Radix)
         /\ CarryIn(s) \in Bit /\ acc[s] \in Digit /\ w_pipe[s][s] \in Digit
<1>1. acc[s] \in Digit /\ w_pipe[s][s] \in Digit
  BY DEF TypeOK
<1>2. CarryIn(s) \in Bit
  BY SegsAssumption DEF TypeOK, CarryIn, Bit, Seg
<1>3. SegSum(s) \in 0 .. 2 * Radix - 1
  BY <1>1, <1>2, RadixAssumption DEF SegSum, Digit, Bit
<1> DEFINE q == SegSum(s) \div Radix
           r == SegSum(s) % Radix
<1>4. q \in Int /\ r \in 0 .. Radix - 1 /\ SegSum(s) = Radix * q + r
  <2>1. SegSum(s) \in Int /\ Radix \in Nat \ {0}
    BY <1>3, RadixAssumption
  <2> QED
    BY <2>1, DivRem, Zenon
<1> HIDE DEF q, r
<1>5. q >= 0
  <2>1. q <= -1 => Radix * q <= -Radix
    BY <1>4, RadixAssumption
  <2> QED
    BY <1>3, <1>4, <2>1, RadixAssumption
<1>6. q <= 1
  <2>1. q >= 2 => Radix * q >= 2 * Radix
    BY <1>4, RadixAssumption
  <2> QED
    BY <1>3, <1>4, <2>1, RadixAssumption
<1>7. q \in Bit /\ r \in Digit
  BY <1>4, <1>5, <1>6 DEF Bit, Digit
<1> QED
  BY <1>1, <1>2, <1>4, <1>7 DEF q, r

LEMMA RemUnique ==
  ASSUME NEW a \in Int, NEW m \in Nat \ {0}, NEW e \in Int, NEW t \in 0 .. m - 1,
         a = m * e + t
  PROVE  a % m = t
<1> DEFINE q == a \div m
           r == a % m
<1>1. q \in Int /\ r \in 0 .. m - 1 /\ a = m * q + r
  BY DivRem, Zenon
<1> HIDE DEF q, r
<1>2. m * (e - q) = r - t
  BY <1>1
<1>3. e - q >= 1 => m * (e - q) >= m
  BY <1>1
<1>4. e - q <= -1 => m * (e - q) <= -m
  BY <1>1
<1>5. e = q
  BY <1>1, <1>2, <1>3, <1>4
<1>6. m * (e - q) = 0
  BY <1>1, <1>5
<1>7. r = t
  BY <1>1, <1>2, <1>6
<1> QED
  BY <1>7 DEF r

\* The remainder by one more digit.
LEMMA DigitSplit ==
  ASSUME NEW a \in Int, NEW w \in Nat \ {0}, NEW b \in Nat \ {0}
  PROVE  a % (b * w) = (a % w) + w * ((a \div w) % b)
<1> DEFINE q == a \div w
           r == a % w
           e == q \div b
           d == q % b
<1>1. q \in Int /\ r \in 0 .. w - 1 /\ a = w * q + r
  BY DivRem, Zenon
<1>2. e \in Int /\ d \in 0 .. b - 1 /\ q = b * e + d
  BY <1>1, DivRem, Zenon
<1> SUFFICES a % (b * w) = r + w * d
  OBVIOUS
<1> HIDE DEF q, r, e, d
<1>3. b * w \in Nat \ {0} /\ w * d \in Int
  BY <1>2
<1>4. a = (b * w) * e + (r + w * d)
  <2>1. w * q = w * (b * e) + w * d
    BY <1>1, <1>2
  <2>2. w * (b * e) = (b * w) * e
    BY <1>2
  <2> QED
    BY <1>1, <1>2, <1>3, <2>1, <2>2
<1>5. r + w * d \in 0 .. b * w - 1
  <2>1. w * d >= 0 /\ w * d <= w * (b - 1)
    BY <1>2
  <2>2. w * (b - 1) = b * w - w
    OBVIOUS
  <2> QED
    BY <1>1, <1>3, <2>1, <2>2
<1> QED
  BY <1>2, <1>3, <1>4, <1>5, RemUnique

-------------------------------------------------------------------------------
(* The phase. *)

\* A number comes in at one end of a sum and the others move up.
LEMMA ShiftedSum ==
  ASSUME NEW n \in Nat, NEW x, \A i \in 0 .. n - 1 : x[i] \in Int,
         NEW y, y[0] \in Int, \A i \in 0 .. n - 1 : y[i + 1] = x[i]
  PROVE  SumTo(y, n + 1) = y[0] + SumTo(x, n)
<1>1. \A i \in 0 .. (n + 1) - 1 : y[i] \in Int
  <2>1. ASSUME NEW i \in 0 .. (n + 1) - 1 PROVE y[i] \in Int
    <3>1. CASE i # 0
      <4>1. i - 1 \in 0 .. n - 1 /\ (i - 1) + 1 = i
        BY <3>1
      <4>2. y[i] = x[i - 1]
        BY <4>1
      <4> QED
        BY <4>1, <4>2
    <3> QED
      BY <3>1
  <2> QED
    BY <2>1
<1>2. /\ SumTo(x, 0) = 0
      /\ \A k \in 0 .. n : SumTo(x, k) \in Int
      /\ \A k \in 0 .. n - 1 : SumTo(x, k + 1) = SumTo(x, k) + x[k]
  BY SumIs
<1>3. /\ SumTo(y, 0) = 0
      /\ \A k \in 0 .. n + 1 : SumTo(y, k) \in Int
      /\ \A k \in 0 .. (n + 1) - 1 : SumTo(y, k + 1) = SumTo(y, k) + y[k]
  <2>1. n + 1 \in Nat
    OBVIOUS
  <2> HIDE DEF SumTo
  <2> QED
    BY <1>1, <2>1, SumIs
<1> DEFINE S == {k \in Nat : k <= n => SumTo(y, k + 1) = y[0] + SumTo(x, k)}
<1>4. 0 \in S
  <2>1. 0 \in 0 .. (n + 1) - 1
    OBVIOUS
  <2>2. SumTo(y, 0 + 1) = SumTo(y, 0) + y[0]
    BY <1>3, <2>1
  <2> QED
    BY <1>2, <1>3, <2>2
<1>5. ASSUME NEW k \in S PROVE k + 1 \in S
  <2>1. ASSUME k + 1 <= n PROVE SumTo(y, (k + 1) + 1) = y[0] + SumTo(x, k + 1)
    <3>1. k \in 0 .. n - 1 /\ k \in 0 .. n /\ k + 1 \in 0 .. (n + 1) - 1 /\ k + 1 \in 0 .. n + 1
      BY <2>1
    <3>2. SumTo(y, (k + 1) + 1) = SumTo(y, k + 1) + y[k + 1] /\ y[k + 1] = x[k]
      BY <1>3, <3>1
    <3>3. SumTo(y, k + 1) = y[0] + SumTo(x, k)
      BY <2>1
    <3>4. SumTo(x, k + 1) = SumTo(x, k) + x[k]
      BY <1>2, <3>1
    <3>5. SumTo(x, k) \in Int /\ x[k] \in Int /\ y[0] \in Int
      BY <1>2, <3>1
    <3> QED
      BY <3>2, <3>3, <3>4, <3>5
  <2> QED
    BY <2>1
<1>6. S \in SUBSET Nat
  OBVIOUS
<1> HIDE DEF S
<1>7. S = Nat
  BY <1>4, <1>5, <1>6, NatAll
<1>8. n \in S
  BY <1>7
<1> QED
  BY <1>8 DEF S

\* The digits in flight to a segment: one of W comes in, the one that is added goes out.
LEMMA InFlightStep ==
  ASSUME TypeOK, ShiftTuning, NEW s \in Seg
  PROVE  /\ InFlight(s) \in Int
         /\ InFlight(s)' = InFlight(s) + WDigit(s) - w_pipe[s][s]
<1> DEFINE x == w_pipe[s]
           y == w_pipe'[s]
<1>1. s \in Nat /\ s <= Top /\ Top \in Nat /\ s + 1 \in Nat
  BY SegsAssumption DEF Seg, Top
<1>2. \A i \in 0 .. (s + 1) - 1 : x[i] \in Int
  <2>1. \A i \in 0 .. (s + 1) - 1 : i \in Seg
    BY <1>1 DEF Seg, Top
  <2>2. \A i \in Seg : w_pipe[s][i] \in Digit
    BY DEF TypeOK
  <2> QED
    BY <2>1, <2>2 DEF Digit
<1>3. y[0] = WDigit(s) /\ \A i \in 0 .. s - 1 : y[i + 1] = x[i]
  BY <1>1, SegsAssumption DEF ShiftTuning, Seg, Top
<1>4. WDigit(s) \in Int
  BY InputsType DEF Digit
<1> HIDE DEF x, y
<1>5. SumTo(y, s + 1) = y[0] + SumTo(x, s)
  <2>1. \A i \in 0 .. s - 1 : x[i] \in Int
    BY <1>1, <1>2
  <2> QED
    BY <1>1, <1>3, <1>4, <2>1, ShiftedSum
<1>6. SumTo(x, s + 1) = SumTo(x, s) + x[s] /\ SumTo(x, s) \in Int /\ SumTo(x, s + 1) \in Int
  <2>1. s \in 0 .. (s + 1) - 1 /\ s \in 0 .. s + 1 /\ s + 1 \in 0 .. s + 1
    BY <1>1
  <2>2. /\ \A k \in 0 .. s + 1 : SumTo(x, k) \in Int
        /\ \A k \in 0 .. (s + 1) - 1 : SumTo(x, k + 1) = SumTo(x, k) + x[k]
    BY <1>1, <1>2, SumIs
  <2> QED
    BY <2>1, <2>2
<1>7. x[s] \in Int
  BY <1>1, <1>2
<1>8. InFlight(s) = SumTo(x, s + 1) /\ InFlight(s)' = SumTo(y, s + 1) /\ w_pipe[s][s] = x[s]
  BY DEF InFlight, x, y
<1> QED
  BY <1>3, <1>4, <1>5, <1>6, <1>7, <1>8

LEMMA HeldStep ==
  ASSUME TypeOK, ShiftTuning, Accumulate, ~rst_l, NEW s \in Seg
  PROVE  /\ Held[s] = Weight[s] * (acc[s] + InFlight(s) + CarryIn(s)) /\ Held[s] \in Int
         /\ Held'[s] \in Int
         /\ Held'[s] + Weight[s + 1] * CarryIn(s + 1)'
              = Held[s] + Weight[s] * CarryIn(s)' + Weight[s] * WDigit(s)
<1>1. /\ s \in Nat /\ s \in 0 .. Segs /\ s + 1 \in 0 .. Segs /\ s # Segs /\ s + 1 # 0
      /\ (s + 1) - 1 = s
  BY SegsAssumption DEF Seg
<1> DEFINE w == Weight[s]
           f == InFlight(s)
           g == InFlight(s)'
           k == CarryIn(s)
           k1 == CarryIn(s)'
           sum == SegSum(s)
<1>2. w \in Int /\ Weight[s + 1] = Radix * w /\ Radix \in Int
  BY <1>1, WeightIs, RadixAssumption
<1>3. f \in Int /\ g = f + WDigit(s) - w_pipe[s][s]
  BY InFlightStep
<1>4. WDigit(s) \in Int /\ w_pipe[s][s] \in Int /\ acc[s] \in Int /\ k \in Int
  BY InputsType, SegSumIs DEF Digit, Bit
<1>5. acc'[s] = sum % Radix /\ CarryIn(s + 1)' = sum \div Radix
  BY <1>1 DEF Accumulate, CarryIn
<1>6. k1 \in Int
  <2>1. CASE s = 0
    BY <2>1 DEF CarryIn
  <2>2. CASE s # 0
    <3>1. s - 1 \in Seg /\ s - 1 \in 0 .. Segs /\ s - 1 # Segs
      BY <1>1, <2>2, SegsAssumption DEF Seg
    <3>2. k1 = SegSum(s - 1) \div Radix
      BY <2>2, <3>1 DEF CarryIn, Accumulate
    <3> QED
      BY <3>1, <3>2, SegSumIs DEF Bit
  <2> QED
    BY <2>1, <2>2
<1>7. sum = Radix * (sum \div Radix) + (sum % Radix) /\ sum \div Radix \in Int /\ sum % Radix \in Int
  BY SegSumIs DEF Digit, Bit
<1>8. sum = acc[s] + w_pipe[s][s] + k
  BY DEF SegSum
<1>9. Held[s] = w * (acc[s] + f + k)
  BY DEF Held
<1>10. Held'[s] = w * (acc'[s] + g + k1)
  BY DEF Held
<1> DEFINE q == sum \div Radix
           r == sum % Radix
<1> HIDE DEF w, f, g, k, k1, sum, q, r
<1>11. /\ q \in Int /\ r \in Int /\ acc[s] + w_pipe[s][s] + k = Radix * q + r
       /\ acc'[s] = r /\ CarryIn(s + 1)' = q
  BY <1>5, <1>7, <1>8 DEF q, r
<1>12. Held[s] \in Int /\ Held'[s] \in Int
  BY <1>2, <1>3, <1>4, <1>6, <1>9, <1>10, <1>11
<1>13. (r + g + k1) + Radix * q = (acc[s] + f + k) + k1 + WDigit(s)
  <2> DEFINE bq == Radix * q
             wd == WDigit(s)
             wp == w_pipe[s][s]
             a == acc[s]
  <2>1. /\ bq \in Int /\ wd \in Int /\ wp \in Int /\ a \in Int /\ r \in Int /\ f \in Int
        /\ k \in Int /\ k1 \in Int
    BY <1>2, <1>3, <1>4, <1>6, <1>11
  <2>2. g = f + wd - wp /\ a + wp + k = bq + r
    BY <1>3, <1>11
  <2> HIDE DEF bq, wd, wp, a
  <2>3. (r + g + k1) + bq = (a + f + k) + k1 + wd
    BY <2>1, <2>2
  <2> QED
    BY <2>3 DEF bq, wd, a
<1>14. w * ((r + g + k1) + Radix * q) = w * (r + g + k1) + (Radix * w) * q
  <2> DEFINE z == r + g + k1
  <2>1. z \in Int
    BY <1>3, <1>4, <1>6, <1>11
  <2> HIDE DEF z
  <2>2. w * (z + Radix * q) = w * z + w * (Radix * q)
    BY <1>2, <1>11, <2>1
  <2>3. w * (Radix * q) = (Radix * w) * q
    BY <1>2, <1>11
  <2> QED
    BY <2>2, <2>3 DEF z
<1>15. w * ((acc[s] + f + k) + k1 + WDigit(s)) = w * (acc[s] + f + k) + w * k1 + w * WDigit(s)
  BY <1>2, <1>3, <1>4, <1>6
<1>16. w * (r + g + k1) + (Radix * w) * q = w * (acc[s] + f + k) + w * k1 + w * WDigit(s)
  BY <1>13, <1>14, <1>15
<1>17. Held'[s] + Weight[s + 1] * CarryIn(s + 1)' = Held[s] + w * k1 + w * WDigit(s)
  BY <1>2, <1>9, <1>10, <1>11, <1>16
<1> QED
  BY <1>9, <1>12, <1>17 DEF w, f, k, k1

\* What the lower n segments hold and the carry out of them, after a clock, is what they
\* held before and the lower n digits of W.
LEMMA PartStep ==
  ASSUME TypeOK, ShiftTuning, Accumulate, ~rst_l, NEW n \in 0 .. Segs
  PROVE  SumTo(Held', n) + Weight[n] * CarryIn(n)' = SumTo(Held, n) + (W % Weight[n])
<1>1. Segs \in Nat /\ \A s \in 0 .. Segs - 1 : s \in Seg
  BY SegsAssumption DEF Seg
<1> DEFINE x == Held
           y == Held'
           v == W
<1>2. /\ SumTo(x, 0) = 0
      /\ \A k \in 0 .. Segs : SumTo(x, k) \in Int
      /\ \A k \in 0 .. Segs - 1 : SumTo(x, k + 1) = SumTo(x, k) + x[k]
  <2>1. \A s \in 0 .. Segs - 1 : x[s] \in Int
    BY <1>1, HeldStep
  <2> HIDE DEF x
  <2> QED
    BY <1>1, <2>1, SumIs
<1>3. /\ SumTo(y, 0) = 0
      /\ \A k \in 0 .. Segs : SumTo(y, k) \in Int
      /\ \A k \in 0 .. Segs - 1 : SumTo(y, k + 1) = SumTo(y, k) + y[k]
  <2>1. \A s \in 0 .. Segs - 1 : y[s] \in Int
    BY <1>1, HeldStep
  <2> HIDE DEF y
  <2> QED
    BY <1>1, <2>1, SumIs
<1>4. v \in Int
  BY InputsType
<1>5. ASSUME NEW s \in 0 .. Segs - 1
      PROVE  /\ y[s] + Weight[s + 1] * CarryIn(s + 1)' = x[s] + Weight[s] * CarryIn(s)' + Weight[s] * WDigit(s)
             /\ x[s] \in Int /\ y[s] \in Int
  BY <1>1, HeldStep
<1>6. ASSUME NEW s \in 0 .. Segs - 1
      PROVE  v % Weight[s + 1] = (v % Weight[s]) + Weight[s] * WDigit(s)
  <2>1. Weight[s] \in Nat \ {0} /\ Radix \in Nat \ {0} /\ Weight[s + 1] = Radix * Weight[s]
    BY <1>1, WeightIs, RadixAssumption DEF Seg
  <2> DEFINE w == Weight[s]
  <2>2. w \in Nat \ {0}
    BY <2>1
  <2> HIDE DEF v, w
  <2>3. v % (Radix * w) = (v % w) + w * ((v \div w) % Radix)
    BY <1>4, <2>1, <2>2, DigitSplit, Zenon
  <2> QED
    BY <2>1, <2>3 DEF WDigit, w, v
<1>7. \A s \in 0 .. Segs : Weight[s] \in Int /\ Weight[s] # 0 /\ v % Weight[s] \in Int
  <2>1. ASSUME NEW s \in 0 .. Segs PROVE Weight[s] \in Int /\ Weight[s] # 0 /\ v % Weight[s] \in Int
    <3>1. Weight[s] \in Nat \ {0}
      BY WeightIs, <1>1
    <3> DEFINE w == Weight[s]
    <3>2. w \in Nat \ {0}
      BY <3>1
    <3> HIDE DEF v, w
    <3>3. v % w \in 0 .. w - 1
      BY <1>4, <3>2, DivRem, Zenon
    <3> QED
      BY <3>1, <3>2, <3>3 DEF w
  <2> QED
    BY <2>1
<1>8. \A s \in 0 .. Segs : CarryIn(s)' \in Int
  <2>1. ASSUME NEW s \in 0 .. Segs PROVE CarryIn(s)' \in Int
    <3>1. CASE s = 0
      BY <3>1 DEF CarryIn
    <3>2. CASE s # 0
      <4>1. s - 1 \in Seg /\ s - 1 \in 0 .. Segs /\ s - 1 # Segs
        BY <1>1, <3>2
      <4>2. CarryIn(s)' = SegSum(s - 1) \div Radix
        BY <3>2, <4>1 DEF CarryIn, Accumulate
      <4> QED
        BY <4>1, <4>2, SegSumIs DEF Bit
    <3> QED
      BY <3>1, <3>2
  <2> QED
    BY <2>1
<1> DEFINE Part(k) == SumTo(y, k) + Weight[k] * CarryIn(k)' = SumTo(x, k) + (v % Weight[k])
           S == {k \in Nat : k <= Segs => Part(k)}
<1>9. 0 \in S
  <2>1. CarryIn(0)' = 0
    BY DEF CarryIn
  <2>2. Weight[0] = 1
    BY WeightIs
  <2> HIDE DEF v, x, y
  <2>3. v % Weight[0] = 0
    BY <1>4, <2>2
  <2>4. Part(0)
    BY <1>2, <1>3, <2>1, <2>2, <2>3
  <2> QED
    BY <2>4
<1>10. ASSUME NEW k \in S PROVE k + 1 \in S
  <2>1. ASSUME k + 1 <= Segs PROVE Part(k + 1)
    <3>1. k \in 0 .. Segs - 1 /\ k \in 0 .. Segs /\ k + 1 \in 0 .. Segs
      BY <1>1, <2>1
    <3>2. Part(k)
      BY <1>1, <2>1
    <3> DEFINE sy == SumTo(y, k)
               sx == SumTo(x, k)
               sy1 == SumTo(y, k + 1)
               sx1 == SumTo(x, k + 1)
               yk == y[k]
               xk == x[k]
               wc == Weight[k] * CarryIn(k)'
               wc1 == Weight[k + 1] * CarryIn(k + 1)'
               wd == Weight[k] * WDigit(k)
               m == v % Weight[k]
               m1 == v % Weight[k + 1]
    <3>3. sy \in Int /\ sx \in Int /\ sy1 = sy + yk /\ sx1 = sx + xk
      BY <1>2, <1>3, <3>1
    <3>4. xk \in Int /\ yk \in Int /\ m \in Int /\ wc \in Int /\ wc1 \in Int /\ wd \in Int
      <4>1. WDigit(k) \in Int
        BY <1>1, <3>1, InputsType DEF Digit
      <4>2. Weight[k] \in Int /\ Weight[k + 1] \in Int /\ CarryIn(k)' \in Int /\ CarryIn(k + 1)' \in Int
        BY <1>7, <1>8, <3>1
      <4>3. wc \in Int /\ wc1 \in Int /\ wd \in Int
        BY <4>1, <4>2
      <4> QED
        BY <1>5, <1>7, <3>1, <4>3
    <3>5. yk + wc1 = xk + wc + wd /\ m1 = m + wd
      BY <1>5, <1>6, <3>1
    <3>6. sy + wc = sx + m
      BY <3>2
    <3> HIDE DEF sy, sx, sy1, sx1, yk, xk, wc, wc1, wd, m, m1
    <3>7. sy1 + wc1 = sx1 + m1
      BY <3>3, <3>4, <3>5, <3>6
    <3> QED
      BY <3>7 DEF sy1, wc1, sx1, m1
  <2> QED
    BY <2>1
<1>11. S \in SUBSET Nat
  OBVIOUS
<1> HIDE DEF S
<1>12. S = Nat
  BY <1>9, <1>10, <1>11, NatAll
<1>13. n \in S /\ n <= Segs
  BY <1>1, <1>12
<1> QED
  BY <1>13 DEF S

LEMMA RingTypes ==
  ASSUME NEW r \in [Slot -> BOOLEAN], NEW ovf
  PROVE  Advance(r, ovf) \in [Slot -> BOOLEAN] /\ advance1(r) \in [Slot -> BOOLEAN]
<1>1. advance1(r) \in [Slot -> BOOLEAN] /\ advance2(r) \in [Slot -> BOOLEAN]
  BY DEF advance1, advance2, Slot
<1> QED
  BY <1>1 DEF Advance

LEMMA GateTypes ==
  ASSUME NEW r, NEW en
  PROVE  ringToGates(r, en) \in Gates
  BY DEF ringToGates, Gates

LEMMA TickNCO ==
  ASSUME TypeOK, Tick
  PROVE  /\ w_pipe' \in [Seg -> [Seg -> Digit]] /\ w_bit32_pipe' \in [Seg -> Bit]
         /\ acc' \in [Seg -> Digit] /\ c' \in [0 .. Segs -> Bit] /\ due' \in 0 .. 2
<1>1. 0 \in Digit /\ 0 \in Bit /\ Top \in Seg /\ Top \in 0 .. Segs
  BY SegsAssumption, RadixAssumption DEF Digit, Bit, Top, Seg
<1>2. \A s \in Seg : WDigit(s) \in Digit
  BY InputsType
<1>3. WBit32 \in Bit
  BY InputsType
<1>4. \A d \in Seg : d # 0 => d - 1 \in Seg
  BY SegsAssumption DEF Seg
<1>5. w_pipe' \in [Seg -> [Seg -> Digit]]
  <2> DEFINE new(s, d) == IF d > s THEN 0 ELSE IF d = 0 THEN WDigit(s) ELSE w_pipe[s][d - 1]
  <2>1. ASSUME NEW s \in Seg, NEW d \in Seg PROVE new(s, d) \in Digit
    BY <1>1, <1>2, <1>4 DEF TypeOK
  <2>2. w_pipe' = [s \in Seg |-> [d \in Seg |-> new(s, d)]]
    BY DEF Tick, ShiftTuning
  <2> HIDE DEF new
  <2> QED
    BY <2>1, <2>2
<1>6. w_bit32_pipe' \in [Seg -> Bit]
  BY <1>3, <1>4 DEF Tick, ShiftTuning, TypeOK
<1>7. acc' \in [Seg -> Digit]
  BY <1>1, SegSumIs DEF Tick, Accumulate
<1>8. (w_bit32_pipe[Top] + c[Top]) % 2 \in Bit
  <2>1. w_bit32_pipe[Top] \in Bit /\ c[Top] \in Bit
    BY <1>1 DEF TypeOK
  <2> QED
    BY <2>1 DEF Bit
<1>9. c' \in [0 .. Segs -> Bit]
  <2>1. \A s \in 0 .. Segs : s # Segs => s \in Seg
    BY SegsAssumption DEF Seg
  <2>2. \A s \in Seg : SegSum(s) \div Radix \in Bit
    BY SegSumIs
  <2> DEFINE top == (w_bit32_pipe[Top] + c[Top]) % 2
             carry(s) == SegSum(s) \div Radix
  <2> HIDE DEF top, carry
  <2>3. CASE rst_l
    BY <1>1, <2>3 DEF Tick, Accumulate
  <2>4. CASE ~rst_l
    <3>1. c' = [s \in 0 .. Segs |-> IF s = Segs THEN top ELSE carry(s)]
      BY <2>4 DEF Tick, Accumulate, top, carry
    <3>2. top \in Bit /\ \A s \in Seg : carry(s) \in Bit
      BY <1>8, <2>2 DEF top, carry
    <3> QED
      BY <2>1, <3>1, <3>2
  <2> QED
    BY <2>3, <2>4
<1>10. due' \in 0 .. 2
  <2>1. w_bit32_pipe[Top] \in Bit /\ SegSum(Top) \div Radix \in Bit
    BY <1>1, SegSumIs DEF TypeOK
  <2> QED
    BY <2>1 DEF Tick, Accumulate, Bit
<1> QED
  BY <1>5, <1>6, <1>7, <1>9, <1>10

LEMMA TickTypeOK == TypeOK /\ Tick => TypeOK'
<1> SUFFICES ASSUME TypeOK, Tick PROVE TypeOK'
  OBVIOUS
<1>1. in' = in /\ in \in [tuningWord : Tunings, powerThreshold : Thresholds,
                          txEnable : BOOLEAN, reset : BOOLEAN]
  BY DEF TypeOK, Tick
<1>2. rst_l' \in BOOLEAN /\ txEn_l' \in BOOLEAN /\ pwrThresh_l' \in Nat
  <2>1. in.reset \in BOOLEAN /\ in.txEnable \in BOOLEAN /\ in.powerThreshold \in Nat
    BY <1>1, InputAssumption
  <2> QED
    BY <2>1 DEF Tick, Power
<1>3. Top \in Seg /\ Top - 1 \in Seg /\ Top \in 0 .. Segs /\ Segs \in 0 .. Segs
  BY SegsAssumption DEF Top, Seg
<1>4. /\ comp_res' \in BOOLEAN /\ ovf_mid' \in BOOLEAN
      /\ ovf_full_d1' \in 0 .. 3 /\ ovf_full' \in 0 .. 3
  <2>1. comp_res' \in BOOLEAN /\ ovf_mid' \in BOOLEAN
    BY DEF Tick, Predict
  <2>2. c[Segs] \in Bit /\ c[Top] \in Bit
    BY <1>3 DEF TypeOK
  <2>3. ovf_full_d1' \in 0 .. 3
    BY <2>2 DEF Tick, Predict, Bit
  <2>4. ovf_full' \in 0 .. 3
    BY DEF Tick, Predict, TypeOK
  <2> QED
    BY <2>1, <2>3, <2>4
<1>5. ring' \in [Slot -> BOOLEAN]
  <2>1. RingReset \in [Slot -> BOOLEAN]
    BY DEF RingReset
  <2>2. Advance(ring, ovf_full) \in [Slot -> BOOLEAN]
    BY RingTypes DEF TypeOK
  <2> QED
    BY <2>1, <2>2 DEF Tick, Walk
<1>6. phaseEnd' \in Nat /\ en1' \in BOOLEAN /\ en2' \in BOOLEAN
  <2>1. acc[Top] \in Nat /\ acc[Top - 1] \in Nat /\ Radix \in Nat
    BY <1>3, RadixAssumption DEF TypeOK, Digit
  <2> QED
    BY <2>1 DEF Tick, Power
<1>7. outR' \in Gates /\ outF' \in Gates /\ outR_reg' \in Gates /\ outF_reg' \in Gates
  BY GateTypes DEF Tick, Drive, TypeOK
<1> QED
  BY <1>1, <1>2, <1>4, <1>5, <1>6, <1>7, TickNCO DEF TypeOK

LEMMA InitTypeOK == Init => TypeOK
<1> SUFFICES ASSUME Init PROVE TypeOK
  OBVIOUS
<1>1. 0 \in Digit /\ 0 \in Bit
  BY RadixAssumption DEF Digit, Bit
<1>2. RingReset \in [Slot -> BOOLEAN] /\ AllOff \in Gates
  BY DEF RingReset, AllOff, Gates
<1> QED
  <2>1. /\ w_pipe \in [Seg -> [Seg -> Digit]] /\ w_bit32_pipe \in [Seg -> Bit]
        /\ acc \in [Seg -> Digit] /\ c \in [0 .. Segs -> Bit]
    BY <1>1 DEF Init
  <2>2. /\ in \in [tuningWord : Tunings, powerThreshold : Thresholds,
                   txEnable : BOOLEAN, reset : BOOLEAN]
        /\ ring \in [Slot -> BOOLEAN]
        /\ outR \in Gates /\ outF \in Gates /\ outR_reg \in Gates /\ outF_reg \in Gates
    BY <1>2 DEF Init
  <2>3. /\ rst_l = FALSE /\ txEn_l = FALSE /\ comp_res = FALSE /\ ovf_mid = FALSE
        /\ en1 = FALSE /\ en2 = FALSE
    BY DEF Init
  <2>4. rst_l \in BOOLEAN /\ txEn_l \in BOOLEAN /\ comp_res \in BOOLEAN /\ ovf_mid \in BOOLEAN
        /\ en1 \in BOOLEAN /\ en2 \in BOOLEAN
    BY <2>3
  <2>5. /\ ovf_full_d1 = 0 /\ ovf_full = 0 /\ phaseEnd = 0 /\ pwrThresh_l = 0 /\ due = 0
    BY DEF Init
  <2>6. /\ ovf_full_d1 \in 0 .. 3 /\ ovf_full \in 0 .. 3 /\ phaseEnd \in Nat
        /\ pwrThresh_l \in Nat /\ due \in 0 .. 2
    BY <2>5
  <2> QED
    BY <2>1, <2>2, <2>4, <2>6 DEF TypeOK

LEMMA StepTypeOK == TypeOK /\ [Next]_vars => TypeOK'
<1> SUFFICES ASSUME TypeOK, [Next]_vars PROVE TypeOK'
  OBVIOUS
<1>1. CASE SetInput
  <2> DEFINE I == [tuningWord : Tunings, powerThreshold : Thresholds,
                   txEnable : BOOLEAN, reset : BOOLEAN]
  <2>1. in \in I
    BY DEF TypeOK
  <2>2. in' \in I
    BY <1>1, <2>1 DEF SetInput
  <2> HIDE DEF I
  <2> QED
    BY <1>1, <2>2 DEF SetInput, TypeOK, nco, predict, power, outs, I
<1>2. CASE Tick
  BY <1>2, TickTypeOK
<1>3. CASE UNCHANGED vars
  BY <1>3 DEF vars, TypeOK, nco, predict, power, outs
<1> QED
  BY <1>1, <1>2, <1>3 DEF Next

\* The registers of the block keep the widths they are declared with, for every number of
\* segments and size of a digit (WSPRExciter.sv:26-146).
THEOREM WidthsAreKept == Spec => []TypeOK
<1> QED
  BY InitTypeOK, StepTypeOK, PTL DEF Spec

LEMMA PhaseTick ==
  ASSUME TypeOK, Tick, ~rst_l
  PROVE  Phase' + Modulus * c'[Top] = Phase + (W % Modulus)
<1>1. Segs \in 0 .. Segs /\ Segs # 0 /\ Segs - 1 = Top
  BY SegsAssumption DEF Top
<1>2. SumTo(Held', Segs) + Weight[Segs] * CarryIn(Segs)' = SumTo(Held, Segs) + (W % Weight[Segs])
  BY <1>1, PartStep DEF Tick
<1>3. CarryIn(Segs)' = c'[Top]
  BY <1>1 DEF CarryIn
<1> QED
  BY <1>2, <1>3 DEF Phase, Modulus

\* PhaseConserved for every number of segments and digit size, the eight segments of four
\* bits of the RTL among them.
THEOREM NoPhaseIsLost == Spec => PhaseConserved
<1> DEFINE A == ~rst_l /\ UNCHANGED in => \/ UNCHANGED vars
                                          \/ Phase' + Modulus * c'[Top] = Phase + (W % Modulus)
<1>1. TypeOK /\ [Next]_vars => [A]_vars
  <2> SUFFICES ASSUME TypeOK, Next, ~rst_l, UNCHANGED in, ~UNCHANGED vars
               PROVE  Phase' + Modulus * c'[Top] = Phase + (W % Modulus)
    OBVIOUS
  <2>1. CASE Tick
    BY <2>1, PhaseTick
  <2>2. CASE SetInput
    BY <2>2 DEF SetInput, vars
  <2> QED
    BY <2>1, <2>2 DEF Next
<1> QED
  BY <1>1, WidthsAreKept, PTL DEF Spec, PhaseConserved

================================================================================
