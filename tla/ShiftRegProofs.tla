--------------------------- MODULE ShiftRegProofs ---------------------------
(***************************************************************************)
(* For every number of address lines, sreg_set leaves exactly its argument *)
(* in the register and SRAM_burst_inc counts exactly one up, as a number   *)
(* modulo the size of the memory.                                          *)
(***************************************************************************)
EXTENDS ShiftReg, TLAPS, FiniteSetTheorems

-----------------------------------------------------------------------------
(* The inductive invariant.                                                *)

\* The bits of addr from bit k up have been shifted in, in order.
Shifted(k) == \A j \in 0..(W - k) - 1 : buffer[j] = addr[k + j]

\* Where a call of sreg_set is.
Setting ==
  /\ pc = "bit" => expected = Value(addr) /\ Shifted(i)
  /\ pc = "low" => expected = Value(addr) /\ i < W /\ si = addr[i] /\ Shifted(i + 1)
  /\ pc \in {"held", "raise"} /\ ~en => expected = Value(addr) /\ i < W /\ si = addr[i]
  /\ pc = "held" /\ ~en => IF sregClk THEN Shifted(i) ELSE Shifted(i + 1)
  /\ pc = "raise" /\ ~en => Shifted(i)

\* Where a call of SRAM_burst_inc is.
Counting ==
  /\ pc = "held" /\ en => expected = IF sregClk THEN Value(buffer) ELSE Value(Inc(buffer))
  /\ pc = "raise" /\ en => expected = Value(buffer)

\* A pin is low only in a pulse, and only one of the two.
Pins ==
  /\ pc \in {"idle", "bit", "low"} => en /\ counter
  /\ pc \in {"held", "raise"} => (en <=> ~counter)

IInv == TypeOK /\ Setting /\ Counting /\ Pins /\ AddressExact

-----------------------------------------------------------------------------
\* A rising edge with the enable low puts the next bit under those there.
LEMMA ShiftStep ==
  ASSUME NEW b \in Address, NEW a \in Address, NEW k \in 0..W - 1,
         \A j \in 0..(W - (k + 1)) - 1 : b[j] = a[(k + 1) + j]
  PROVE  \A j \in 0..(W - k) - 1 : ShiftIn(b, a[k])[j] = a[k + j]
<1> USE WidthAssumption
<1> TAKE j \in 0..(W - k) - 1
<1>1. j \in 0..W - 1 BY SMT
<1>2. CASE j = 0 BY <1>1, <1>2, SMT DEF ShiftIn
<1>3. CASE j /= 0
  <2>1. j - 1 \in 0..(W - (k + 1)) - 1 /\ (k + 1) + (j - 1) = k + j BY <1>3, SMT
  <2>2. b[j - 1] = a[k + j] BY <2>1
  <2>3. ShiftIn(b, a[k])[j] = b[j - 1] BY <1>1, <1>3 DEF ShiftIn
  <2> QED BY <2>2, <2>3
<1> QED BY <1>2, <1>3

LEMMA SameBits ==
  ASSUME NEW a \in Address, NEW b \in Address, \A k \in 0..W - 1 : a[k] = b[k]
  PROVE  a = b
<1>1. a = [k \in 0..W - 1 |-> a[k]] BY Zenon DEF Address
<1>2. b = [k \in 0..W - 1 |-> b[k]] BY Zenon DEF Address
<1>3. [k \in 0..W - 1 |-> a[k]] = [k \in 0..W - 1 |-> b[k]] BY Zenon
<1> QED BY <1>1, <1>2, <1>3, Zenon

LEMMA EdgeStaysInAddress ==
  ASSUME NEW b \in Address, NEW bit \in {0, 1}
  PROVE  ShiftIn(b, bit) \in Address /\ Inc(b) \in Address
<1> USE WidthAssumption
<1>1. \A k \in 0..W - 1 : k /= 0 => b[k - 1] \in {0, 1} BY SMT DEF Address
<1>2. ShiftIn(b, bit) \in Address BY <1>1 DEF Address, ShiftIn
<1>3. \A k \in 0..W - 1 : b[k] \in {0, 1} /\ 1 - b[k] \in {0, 1} BY SMT DEF Address
<1>4. Inc(b) \in Address BY <1>3 DEF Address, Inc
<1> QED BY <1>2, <1>4

-----------------------------------------------------------------------------
(* The register as a number.                                               *)

\* Induction over the numbers, stated of a set: a least number outside it would
\* be a minimal interval, and inclusion of finite sets is well founded.
LEMMA SetInduction ==
  ASSUME NEW T, T \subseteq Nat, 0 \in T, \A n \in T : n + 1 \in T
  PROVE  \A n \in Nat : n \in T
<1> DEFINE R == StrictSubsetOrdering(Nat)
           Bad == {0..n : n \in Nat \ T}
<1> SUFFICES ASSUME NEW k \in Nat, k \notin T PROVE FALSE OBVIOUS
<1>1. IsWellFoundedOn(R, FiniteSubsetsOf(Nat))
  BY FS_StrictSubsetOrderingWellFounded
<1>2. \A n \in Nat : 0..n \in FiniteSubsetsOf(Nat)
  <2> TAKE n \in Nat
  <2>1. IsFiniteSet(0..n) BY FS_Interval, SMT
  <2>2. 0..n \subseteq Nat BY SMT
  <2> QED BY <2>1, <2>2, Zenon DEF FiniteSubsetsOf
<1>3. Bad \subseteq FiniteSubsetsOf(Nat) BY <1>2, Zenon
<1>4. Bad /= {} BY Zenon
<1>5. PICK m \in Bad : \A y \in Bad : <<y, m>> \notin R
  <2> HIDE DEF R, Bad
  <2> QED BY <1>1, <1>3, <1>4, WFMin, Zenon
<1>6. PICK n \in Nat \ T : m = 0..n BY Zenon
<1>7. n /= 0 /\ n - 1 \in Nat BY SMT
<1>8. n - 1 \notin T BY <1>7, SMT
<1>9. 0..n - 1 \in Bad BY <1>7, <1>8, Zenon
<1>10. 0..n - 1 \subseteq Nat /\ 0..n \subseteq Nat /\ 0..n - 1 \subseteq 0..n BY SMT
<1>11. 0..n - 1 /= 0..n BY SMT
<1>12. <<0..n - 1, 0..n>> \in R BY <1>10, <1>11 DEF StrictSubsetOrdering
<1> QED BY <1>5, <1>6, <1>9, <1>12

\* The same up to a bound.
LEMMA UpToInduction ==
  ASSUME NEW N \in Nat, NEW T, 0 \in T, \A n \in 0..N - 1 : n \in T => n + 1 \in T
  PROVE  \A n \in 0..N : n \in T
<1> DEFINE U == {n \in Nat : n <= N => n \in T}
<1>1. U \subseteq Nat /\ 0 \in U BY SMT
<1>2. \A n \in U : n + 1 \in U BY SMT
<1>3. \A n \in Nat : n \in U
  <2> HIDE DEF U
  <2> QED BY <1>1, <1>2, SetInduction
<1> QED BY <1>3, SMT

\* A function whose every value follows from the one before exists.
LEMMA Recursion ==
  ASSUME NEW N \in Nat, NEW a \in Nat, NEW g \in [0..N - 1 -> [Nat -> Nat]]
  PROVE  \E f \in [0..N -> Nat] :
           f = [k \in 0..N |-> IF k = 0 THEN a ELSE g[k - 1][f[k - 1]]]
<1> DEFINE Rec(n, f) == \A k \in 0..n : f[k] = IF k = 0 THEN a ELSE g[k - 1][f[k - 1]]
           T == {n \in 0..N : \E f \in [0..n -> Nat] : Rec(n, f)}
<1>1. 0 \in T
  <2> DEFINE h == [k \in 0..0 |-> a]
  <2>1. h \in [0..0 -> Nat] BY SMT
  <2>2. Rec(0, h) BY SMT
  <2> HIDE DEF h
  <2> QED BY <2>1, <2>2, SMT
<1>2. ASSUME NEW n \in 0..N - 1, n \in T PROVE n + 1 \in T
  <2>1. PICK f \in [0..n -> Nat] : Rec(n, f) BY <1>2
  <2> DEFINE h == [k \in 0..n + 1 |-> IF k = n + 1 THEN g[n][f[n]] ELSE f[k]]
  <2>2. g[n] \in [Nat -> Nat] BY <1>2, Zenon
  <2>8. n \in 0..n BY <1>2, SMT
  <2>3. g[n][f[n]] \in Nat BY <2>1, <2>2, <2>8, Zenon
  <2>4. \A k \in 0..n + 1 : k /= n + 1 => k \in 0..n BY <1>2, SMT
  <2>5. h \in [0..n + 1 -> Nat] BY <2>3, <2>4
  <2>6. Rec(n + 1, h)
    <3> SUFFICES ASSUME NEW k \in 0..n + 1
                 PROVE  h[k] = IF k = 0 THEN a ELSE g[k - 1][h[k - 1]]
      OBVIOUS
    <3>1. CASE k = n + 1
      <4>1. h[k] = g[n][f[n]] /\ k /= 0 /\ k - 1 = n BY <1>2, <3>1, SMT
      <4>2. n \in 0..n + 1 /\ n /= n + 1 BY <1>2, SMT
      <4>3. h[n] = f[n] BY <4>2
      <4> HIDE DEF h
      <4> QED BY <4>1, <4>3
    <3>2. CASE k /= n + 1
      <4>1. k \in 0..n BY <1>2, <3>2, SMT
      <4>2. h[k] = f[k] BY <3>2
      <4>3. f[k] = IF k = 0 THEN a ELSE g[k - 1][f[k - 1]] BY <2>1, <4>1
      <4>4. k /= 0 => k - 1 \in 0..n + 1 /\ k - 1 /= n + 1 BY <1>2, <4>1, SMT
      <4>5. k /= 0 => h[k - 1] = f[k - 1] BY <4>4
      <4> HIDE DEF h
      <4> QED BY <4>2, <4>3, <4>5
    <3> QED BY <3>1, <3>2
  <2>7. n + 1 \in 0..N BY <1>2, SMT
  <2> HIDE DEF h, Rec
  <2> QED BY <2>5, <2>6, <2>7
<1>3. \A n \in 0..N : n \in T
  <2> HIDE DEF T
  <2> QED BY <1>1, <1>2, UpToInduction
<1>4. N \in 0..N BY SMT
<1>5. PICK f \in [0..N -> Nat] : Rec(N, f) BY <1>3, <1>4
<1>6. f = [k \in 0..N |-> f[k]] BY Zenon
<1>7. [k \in 0..N |-> f[k]] = [k \in 0..N |-> IF k = 0 THEN a ELSE g[k - 1][f[k - 1]]]
  BY <1>5, Zenon
<1> QED BY <1>6, <1>7, Zenon

\* A number below the modulus is its own remainder, and that of one round more.
LEMMA ModBelow ==
  ASSUME NEW m \in Nat, NEW n \in Nat, n < m
  PROVE  n % m = n /\ (n + m) % m = n
<1>1. n % m = n BY SMT
<1>2. (n + m) % m = n BY SMT
<1> QED BY <1>1, <1>2

\* The weights exist; each is twice the one below it.
LEMMA WeightDoubles ==
  /\ Weight \in [0..W -> Nat]
  /\ Weight[0] = 1
  /\ \A k \in 0..W - 1 : Weight[k + 1] = 2 * Weight[k]
  /\ \A k \in 0..W : Weight[k] > 0
<1> USE WidthAssumption
<1> DEFINE g == [k \in 0..W - 1 |-> [v \in Nat |-> 2 * v]]
<1>1. g \in [0..W - 1 -> [Nat -> Nat]] BY SMT
<1>2. PICK f \in [0..W -> Nat] :
        f = [k \in 0..W |-> IF k = 0 THEN 1 ELSE g[k - 1][f[k - 1]]]
  <2> HIDE DEF g
  <2>1. 1 \in Nat /\ W \in Nat BY SMT
  <2> QED BY <1>1, <2>1, Recursion, Zenon
<1>3. ASSUME NEW k \in 0..W, k /= 0 PROVE k - 1 \in 0..W - 1 /\ f[k - 1] \in Nat
  <2>1. k - 1 \in 0..W - 1 /\ k - 1 \in 0..W BY <1>3, SMT
  <2> QED BY <1>2, <2>1, Zenon
<1>4. \A k \in 0..W : k /= 0 => g[k - 1][f[k - 1]] = 2 * f[k - 1] BY <1>3
<1>5. f = [k \in 0..W |-> IF k = 0 THEN 1 ELSE 2 * f[k - 1]]
  <2> HIDE DEF g
  <2>1. \A k \in 0..W : (IF k = 0 THEN 1 ELSE g[k - 1][f[k - 1]])
                        = IF k = 0 THEN 1 ELSE 2 * f[k - 1]
    BY <1>4
  <2>2. [k \in 0..W |-> IF k = 0 THEN 1 ELSE g[k - 1][f[k - 1]]]
        = [k \in 0..W |-> IF k = 0 THEN 1 ELSE 2 * f[k - 1]]
    BY <2>1, Zenon
  <2> QED BY <1>2, <2>2, Zenon
<1>6. Weight = [k \in 0..W |-> IF k = 0 THEN 1 ELSE 2 * Weight[k - 1]]
  BY <1>5, Zenon DEF Weight
<1>7. \A k \in 0..W : Weight[k] = IF k = 0 THEN 1 ELSE 2 * Weight[k - 1]
  BY <1>6, Zenon
<1>8. \A k \in 0..W : Weight[k] \in Nat /\ Weight[k] > 0
  <2> DEFINE T == {k \in 0..W : Weight[k] \in Nat /\ Weight[k] > 0}
  <2>1. 0 \in T BY <1>7, SMT
  <2>2. ASSUME NEW n \in 0..W - 1, n \in T PROVE n + 1 \in T
    <3>1. n + 1 \in 0..W /\ n + 1 /= 0 /\ (n + 1) - 1 = n BY <2>2, SMT
    <3>2. Weight[n + 1] = 2 * Weight[n] BY <1>7, <3>1
    <3> QED BY <2>2, <3>1, <3>2, SMT
  <2>3. \A k \in 0..W : k \in T
    <3> HIDE DEF T
    <3> QED BY <2>1, <2>2, UpToInduction
  <2> QED BY <2>3
<1>9. ASSUME NEW k \in 0..W - 1 PROVE Weight[k + 1] = 2 * Weight[k]
  <2>1. k + 1 \in 0..W /\ k + 1 /= 0 /\ (k + 1) - 1 = k BY <1>9, SMT
  <2> QED BY <1>7, <2>1
<1>10. Weight \in [0..W -> Nat] BY <1>6, <1>8, Zenon
<1>11. 0 \in 0..W BY SMT
<1>12. Weight[0] = 1 BY <1>7, <1>11
<1> QED BY <1>8, <1>9, <1>10, <1>12

\* A bit is worth its weight or nothing.
LEMMA BitWeighs ==
  ASSUME NEW b \in Address, NEW k \in 0..W - 1
  PROVE  /\ b[k] \in {0, 1}
         /\ b[k] * Weight[k] = IF b[k] = 1 THEN Weight[k] ELSE 0
         /\ b[k] * Weight[k] \in Nat
<1>1. b[k] \in {0, 1} BY Zenon DEF Address
<1>2. k \in 0..W BY WidthAssumption, SMT
<1>3. Weight[k] \in Nat BY <1>2, WeightDoubles
<1>4. CASE b[k] = 0 BY <1>3, <1>4, SMT
<1>5. CASE b[k] = 1 BY <1>3, <1>5, SMT
<1> QED BY <1>1, <1>4, <1>5

\* What the low bits are worth exists, and each bit adds its own.
LEMMA WorthAdds ==
  ASSUME NEW b \in Address
  PROVE  /\ Worth(b) \in [0..W -> Nat]
         /\ Worth(b)[0] = 0
         /\ \A k \in 0..W - 1 : Worth(b)[k + 1] = Worth(b)[k] + b[k] * Weight[k]
<1> USE WidthAssumption
<1> DEFINE g == [k \in 0..W - 1 |-> [v \in Nat |-> v + b[k] * Weight[k]]]
<1>1. g \in [0..W - 1 -> [Nat -> Nat]]
  <2>1. \A k \in 0..W - 1 : \A v \in Nat : v + b[k] * Weight[k] \in Nat
    BY BitWeighs, SMT
  <2> QED BY <2>1, Zenon
<1>2. PICK f \in [0..W -> Nat] :
        f = [k \in 0..W |-> IF k = 0 THEN 0 ELSE g[k - 1][f[k - 1]]]
  <2> HIDE DEF g
  <2>1. 0 \in Nat /\ W \in Nat BY SMT
  <2> QED BY <1>1, <2>1, Recursion, Zenon
<1>3. ASSUME NEW k \in 0..W, k /= 0 PROVE k - 1 \in 0..W - 1 /\ f[k - 1] \in Nat
  <2>1. k - 1 \in 0..W - 1 /\ k - 1 \in 0..W BY <1>3, SMT
  <2> QED BY <1>2, <2>1, Zenon
<1>4. \A k \in 0..W : k /= 0 => g[k - 1][f[k - 1]] = f[k - 1] + b[k - 1] * Weight[k - 1]
  BY <1>3, Zenon
<1>5. f = [k \in 0..W |-> IF k = 0 THEN 0 ELSE f[k - 1] + b[k - 1] * Weight[k - 1]]
  <2> HIDE DEF g
  <2>1. \A k \in 0..W : (IF k = 0 THEN 0 ELSE g[k - 1][f[k - 1]])
                        = IF k = 0 THEN 0 ELSE f[k - 1] + b[k - 1] * Weight[k - 1]
    BY <1>4
  <2>2. [k \in 0..W |-> IF k = 0 THEN 0 ELSE g[k - 1][f[k - 1]]]
        = [k \in 0..W |-> IF k = 0 THEN 0 ELSE f[k - 1] + b[k - 1] * Weight[k - 1]]
    BY <2>1, Zenon
  <2> QED BY <1>2, <2>2, Zenon
<1>6. Worth(b) = [k \in 0..W |-> IF k = 0 THEN 0
                                 ELSE Worth(b)[k - 1] + b[k - 1] * Weight[k - 1]]
  BY <1>5, Zenon DEF Worth
<1>7. \A k \in 0..W : Worth(b)[k] = IF k = 0 THEN 0
                                    ELSE Worth(b)[k - 1] + b[k - 1] * Weight[k - 1]
  BY <1>6, Zenon
<1>8. ASSUME NEW k \in 0..W - 1 PROVE Worth(b)[k + 1] = Worth(b)[k] + b[k] * Weight[k]
  <2>1. k + 1 \in 0..W /\ k + 1 /= 0 /\ (k + 1) - 1 = k BY <1>8, SMT
  <2> QED BY <1>7, <2>1
<1>9. \A k \in 0..W : Worth(b)[k] \in Nat
  <2> DEFINE T == {k \in 0..W : Worth(b)[k] \in Nat}
  <2>1. 0 \in T BY <1>7, SMT
  <2>2. ASSUME NEW n \in 0..W - 1, n \in T PROVE n + 1 \in T
    <3>1. n + 1 \in 0..W BY <2>2, SMT
    <3>2. Worth(b)[n + 1] = Worth(b)[n] + b[n] * Weight[n] BY <1>8, <2>2
    <3>3. b[n] * Weight[n] \in Nat /\ Worth(b)[n] \in Nat BY <2>2, BitWeighs
    <3>4. Worth(b)[n + 1] \in Nat BY <3>2, <3>3, SMT
    <3> QED BY <3>1, <3>4
  <2>3. \A k \in 0..W : k \in T
    <3> HIDE DEF T
    <3> QED BY <2>1, <2>2, UpToInduction
  <2> QED BY <2>3
<1>10. Worth(b) \in [0..W -> Nat] BY <1>6, <1>9, Zenon
<1>11. 0 \in 0..W BY SMT
<1>12. Worth(b)[0] = 0 BY <1>7, <1>11
<1> QED BY <1>8, <1>10, <1>12

\* The bits below k are worth less than bit k.
LEMMA WorthBelow ==
  ASSUME NEW b \in Address
  PROVE  \A k \in 0..W : Worth(b)[k] \in Nat /\ Worth(b)[k] < Weight[k]
<1> USE WidthAssumption
<1> DEFINE T == {k \in 0..W : Worth(b)[k] < Weight[k]}
<1>1. 0 \in T BY WorthAdds, WeightDoubles, SMT
<1>2. ASSUME NEW n \in 0..W - 1, n \in T PROVE n + 1 \in T
  <2>1. n + 1 \in 0..W /\ n \in 0..W BY <1>2, SMT
  <2>2. Worth(b)[n + 1] = Worth(b)[n] + b[n] * Weight[n] BY <1>2, WorthAdds
  <2>3. Weight[n + 1] = 2 * Weight[n] BY <1>2, WeightDoubles
  <2>4. b[n] * Weight[n] = IF b[n] = 1 THEN Weight[n] ELSE 0 BY <1>2, BitWeighs
  <2>5. Weight[n] \in Nat BY <2>1, WeightDoubles
  <2>6. Worth(b)[n] \in Nat BY <2>1, WorthAdds
  <2>7. Worth(b)[n] + b[n] * Weight[n] < 2 * Weight[n]
    BY <1>2, <2>4, <2>5, <2>6, SMT
  <2> QED BY <2>1, <2>2, <2>3, <2>7
<1>3. \A k \in 0..W : k \in T
  <2>1. W \in Nat BY SMT
  <2> HIDE DEF T
  <2> QED BY <1>1, <1>2, <2>1, UpToInduction
<1> QED BY <1>3, WorthAdds

\* As long as all bits below are one they become zero; the first that is not
\* takes the carry, and those above it stay.
LEMMA IncAddsOne ==
  ASSUME NEW b \in Address
  PROVE  Value(Inc(b)) = (Value(b) + 1) % Weight[W]
<1> USE WidthAssumption
<1> DEFINE c == Inc(b)
           Ones(k) == \A j \in 0..k - 1 : b[j] = 1
           T == {k \in 0..W :
                   IF Ones(k) THEN Worth(b)[k] + 1 = Weight[k] /\ Worth(c)[k] = 0
                              ELSE Worth(c)[k] = Worth(b)[k] + 1}
<1>1. c \in Address
  <2>1. 0 \in {0, 1} OBVIOUS
  <2> QED BY <2>1, EdgeStaysInAddress
<1>2. \A k \in 0..W - 1 : c[k] = IF Ones(k) THEN 1 - b[k] ELSE b[k]
  BY Zenon DEF Inc
<1> HIDE DEF c
<1>3. 0 \in T
  <2>1. Ones(0) BY SMT
  <2>2. Worth(b)[0] = 0 /\ Worth(c)[0] = 0 /\ Weight[0] = 1
    BY <1>1, WorthAdds, WeightDoubles
  <2> HIDE DEF Ones
  <2> QED BY <2>1, <2>2, SMT
<1>4. ASSUME NEW n \in 0..W - 1, n \in T PROVE n + 1 \in T
  <2>1. n + 1 \in 0..W /\ n \in 0..W BY <1>4, SMT
  <2>2. Ones(n + 1) <=> Ones(n) /\ b[n] = 1
    <3>1. \A j \in 0..(n + 1) - 1 : j \in 0..n - 1 \/ j = n BY <1>4, SMT
    <3>2. \A j \in 0..n - 1 : j \in 0..(n + 1) - 1 BY <1>4, SMT
    <3>3. n \in 0..(n + 1) - 1 BY <1>4, SMT
    <3> QED BY <3>1, <3>2, <3>3, Zenon
  <2> HIDE DEF Ones
  <2>3. /\ Worth(b)[n + 1] = Worth(b)[n] + b[n] * Weight[n]
        /\ Worth(c)[n + 1] = Worth(c)[n] + c[n] * Weight[n]
    BY <1>1, <1>4, WorthAdds
  <2>4. Weight[n + 1] = 2 * Weight[n] BY <1>4, WeightDoubles
  <2>5. /\ b[n] * Weight[n] = IF b[n] = 1 THEN Weight[n] ELSE 0
        /\ c[n] * Weight[n] = IF c[n] = 1 THEN Weight[n] ELSE 0
        /\ b[n] \in {0, 1}
    BY <1>1, <1>4, BitWeighs
  <2>6. c[n] = IF Ones(n) THEN 1 - b[n] ELSE b[n] BY <1>2, <1>4
  <2>7. Weight[n] \in Nat /\ Worth(b)[n] \in Nat /\ Worth(c)[n] \in Nat
    BY <1>1, <2>1, WeightDoubles, WorthAdds
  <2>8. CASE Ones(n) /\ b[n] = 1
    <3>1. Worth(b)[n] + 1 = Weight[n] /\ Worth(c)[n] = 0 BY <1>4, <2>8
    <3>2. c[n] = 0 BY <2>6, <2>8, SMT
    <3>3. Worth(c)[n + 1] = 0 BY <2>3, <2>5, <3>1, <3>2, SMT
    <3>4. Worth(b)[n + 1] = Worth(b)[n] + Weight[n] BY <2>3, <2>5, <2>8
    <3>5. Worth(b)[n + 1] + 1 = Weight[n + 1] BY <2>4, <2>7, <3>1, <3>4, SMT
    <3> QED BY <2>1, <2>2, <2>8, <3>3, <3>5
  <2>9. CASE Ones(n) /\ b[n] /= 1
    <3>1. Worth(b)[n] + 1 = Weight[n] /\ Worth(c)[n] = 0 BY <1>4, <2>9
    <3>2. c[n] = 1 BY <2>5, <2>6, <2>9, SMT
    <3>3. Worth(c)[n + 1] = Weight[n] BY <2>3, <2>5, <2>7, <3>1, <3>2, SMT
    <3>4. Worth(b)[n + 1] = Worth(b)[n] BY <2>3, <2>5, <2>7, <2>9, SMT
    <3>5. Worth(c)[n + 1] = Worth(b)[n + 1] + 1 BY <3>1, <3>3, <3>4
    <3> QED BY <2>1, <2>2, <2>9, <3>5
  <2>10. CASE ~Ones(n)
    <3>1. Worth(c)[n] = Worth(b)[n] + 1 BY <1>4, <2>10
    <3>2. c[n] = b[n] BY <2>6, <2>10
    <3>3. b[n] * Weight[n] \in Nat BY <1>4, BitWeighs
    <3>4. Worth(c)[n + 1] = Worth(b)[n] + 1 + b[n] * Weight[n]
      BY <2>3, <3>1, <3>2
    <3>5. Worth(c)[n + 1] = Worth(b)[n + 1] + 1 BY <2>3, <2>7, <3>3, <3>4, SMT
    <3> QED BY <2>1, <2>2, <2>10, <3>5
  <2> QED BY <2>8, <2>9, <2>10
<1>5. \A k \in 0..W : k \in T
  <2>1. W \in Nat BY SMT
  <2> HIDE DEF T
  <2> QED BY <1>3, <1>4, <2>1, UpToInduction
<1>6. W \in 0..W BY SMT
<1>7. IF Ones(W) THEN Worth(b)[W] + 1 = Weight[W] /\ Worth(c)[W] = 0
                 ELSE Worth(c)[W] = Worth(b)[W] + 1
  BY <1>5, <1>6
<1>8. Worth(c)[W] \in Nat /\ Worth(c)[W] < Weight[W] BY <1>1, <1>6, WorthBelow
<1>9. Weight[W] \in Nat BY <1>6, WeightDoubles
<1>10. /\ Worth(c)[W] % Weight[W] = Worth(c)[W]
       /\ (Worth(c)[W] + Weight[W]) % Weight[W] = Worth(c)[W]
  BY <1>8, <1>9, ModBelow
<1> HIDE DEF Ones, T
<1>11. CASE Ones(W)
  <2>1. Worth(b)[W] + 1 = Worth(c)[W] + Weight[W] BY <1>7, <1>9, <1>11, SMT
  <2> QED BY <1>10, <2>1, Zenon DEF Value, c
<1>12. CASE ~Ones(W) BY <1>7, <1>10, <1>12, Zenon DEF Value, c
<1> QED BY <1>11, <1>12

\* The register stands for a number of the range its lines can count in.
LEMMA ValueInRange ==
  ASSUME NEW b \in Address
  PROVE  Value(b) \in 0..Weight[W] - 1
<1>1. W \in 0..W BY WidthAssumption, SMT
<1>2. Value(b) \in Nat /\ Value(b) < Weight[W] BY <1>1, WorthBelow DEF Value
<1>3. Weight[W] \in Nat BY <1>1, WeightDoubles
<1> QED BY <1>2, <1>3, SMT

\* So does its successor.
LEMMA SuccessorInRange ==
  ASSUME NEW n \in 0..Weight[W] - 1
  PROVE  (n + 1) % Weight[W] \in 0..Weight[W] - 1
<1>1. W \in 0..W BY WidthAssumption, SMT
<1>2. Weight[W] \in Nat /\ Weight[W] > 0 BY <1>1, WeightDoubles
<1>3. n \in Nat /\ n < Weight[W] BY <1>2, SMT
<1>4. CASE n + 1 = Weight[W]
  <2>1. 0 + Weight[W] = n + 1 BY <1>2, <1>4, SMT
  <2>2. (0 + Weight[W]) % Weight[W] = 0 BY <1>2, ModBelow
  <2>3. (n + 1) % Weight[W] = 0 BY <2>1, <2>2, Zenon
  <2>4. 0 \in 0..Weight[W] - 1 BY <1>2, SMT
  <2> QED BY <2>3, <2>4, Zenon
<1>5. CASE n + 1 < Weight[W]
  <2>1. n + 1 \in Nat BY <1>3, SMT
  <2>2. (n + 1) % Weight[W] = n + 1 BY <1>2, <1>5, <2>1, ModBelow
  <2>3. n + 1 \in 0..Weight[W] - 1 BY <1>2, <1>5, <2>1, SMT
  <2> QED BY <2>2, <2>3, Zenon
<1> QED BY <1>2, <1>3, <1>4, <1>5, SMT

-----------------------------------------------------------------------------
(* The steps keep the invariant.                                           *)

LEMMA InitIInv == Init => IInv
<1> SUFFICES ASSUME Init PROVE IInv OBVIOUS
<1>1. 0 \in 0..W BY WidthAssumption, SMT
<1>2. buffer \in Address => Value(buffer) \in 0..Weight[W] - 1 BY ValueInRange
<1>3. TypeOK BY <1>1, <1>2 DEF Init, TypeOK
<1> QED BY <1>3 DEF Init, IInv, Setting, Counting, Pins, AddressExact

\* A falling edge of the AVR's clock, whatever the pins.
LEMMA EdgeTypes ==
  ASSUME TypeOK, FallingEdge, si' \in {0, 1}
  PROVE  buffer' \in Address /\ sregClk' \in BOOLEAN
<1>1. SregEdge(buffer, en', counter', si') \in Address
  BY EdgeStaysInAddress DEF SregEdge, TypeOK
<1> QED BY <1>1 DEF FallingEdge, TypeOK

LEMMA NextTypeOK == TypeOK /\ [Next]_vars => TypeOK'
<1> SUFFICES ASSUME TypeOK, [Next]_vars PROVE TypeOK' OBVIOUS
<1>0. TypeOK OBVIOUS
<1>1. ASSUME FallingEdge,
             /\ en' \in BOOLEAN /\ counter' \in BOOLEAN /\ si' \in {0, 1}
             /\ pc' \in {"idle", "bit", "low", "held", "raise"} /\ i' \in 0..W
             /\ addr' \in Address /\ expected' \in 0..Weight[W] - 1
      PROVE  TypeOK'
  BY <1>0, <1>1, EdgeTypes DEF TypeOK
<1>2. CASE Compute BY <1>0, <1>1, <1>2 DEF Compute, avrVars, TypeOK
<1>3. CASE SetCall
  <2>1. W \in 0..W BY WidthAssumption, SMT
  <2>2. addr' \in Address => Value(addr') \in 0..Weight[W] - 1 BY ValueInRange
  <2> QED BY <2>1, <2>2, <1>0, <1>1, <1>3 DEF SetCall, TypeOK
<1>4. CASE SetBit
  <2>1. i - 1 \in 0..W /\ i - 1 \in 0..W - 1
    BY <1>0, <1>4, WidthAssumption, SMT DEF SetBit, TypeOK
  <2>2. addr[i - 1] \in {0, 1} BY <2>1, <1>0 DEF TypeOK, Address
  <2> QED BY <2>1, <2>2, <1>0, <1>1, <1>4 DEF SetBit, TypeOK
<1>5. CASE EnableLow BY <1>0, <1>1, <1>5 DEF EnableLow, TypeOK
<1>6. CASE CounterLow
  <2>1. (expected + 1) % Weight[W] \in 0..Weight[W] - 1 BY <1>0, SuccessorInRange DEF TypeOK
  <2> QED BY <2>1, <1>0, <1>1, <1>6 DEF CounterLow, TypeOK
<1>7. CASE Held BY <1>0, <1>1, <1>7 DEF Held, TypeOK
<1>8. CASE Raise BY <1>0, <1>1, <1>8 DEF Raise, TypeOK
<1>9. CASE SetReturn BY <1>0, <1>1, <1>9 DEF SetReturn, TypeOK
<1>10. CASE UNCHANGED vars BY <1>0, <1>10 DEF vars, avrVars, TypeOK
<1> QED BY <1>2, <1>3, <1>4, <1>5, <1>6, <1>7, <1>8, <1>9, <1>10 DEF Next

\* With both pins high an edge leaves the register alone.
LEMMA QuietEdge ==
  ASSUME FallingEdge, en', counter'
  PROVE  buffer' = buffer
BY DEF FallingEdge, SregEdge

LEMMA NextOther ==
  ASSUME ~InterruptsInPulse, IInv, [Next]_vars
  PROVE  (Setting /\ Counting /\ Pins /\ AddressExact)'
<1> SUFFICES (Setting /\ Counting /\ Pins /\ AddressExact)'
  OBVIOUS
<1>0. TypeOK /\ Setting /\ Counting /\ Pins /\ AddressExact BY DEF IInv
<1> USE <1>0 DEF Setting, Counting, Pins, AddressExact
<1>1. CASE Compute
  <2>1. pc \in {"idle", "bit", "low"} /\ UNCHANGED avrVars /\ en /\ counter
    BY <1>1 DEF Compute
  <2>2. UNCHANGED <<en, counter, si, pc, i, addr, expected>> BY <2>1 DEF avrVars
  <2>3. buffer' = buffer BY <1>1, <2>1, <2>2, QuietEdge DEF Compute
  <2> QED BY <2>1, <2>2, <2>3 DEF Shifted
<1>2. CASE SetCall
  <2>1. pc' = "bit" /\ en' /\ counter' /\ expected' = Value(addr') /\ i' = W
    BY <1>2 DEF SetCall
  <2>2. Shifted(i)'
    <3>1. \A j \in 0..(W - W) - 1 : FALSE BY WidthAssumption, SMT
    <3> QED BY <2>1, <3>1 DEF Shifted
  <2> QED BY <2>1, <2>2
<1>3. CASE SetBit
  <2>1. /\ pc = "bit" /\ pc' = "low" /\ i > 0 /\ i' = i - 1 /\ si' = addr[i - 1]
        /\ UNCHANGED <<en, counter, addr, expected>> /\ en /\ counter
    BY <1>3 DEF SetBit
  <2>2. buffer' = buffer BY <1>3, <2>1, QuietEdge DEF SetBit
  <2>3. i' + 1 = i /\ i' < W
    <3>1. i \in 0..W BY DEF TypeOK
    <3> QED BY ONLY <2>1, <3>1, WidthAssumption, SMT
  <2>4. Shifted(i + 1)' BY <2>1, <2>2, <2>3 DEF Shifted
  <2>5. si' = addr'[i'] BY <2>1
  <2> QED BY <2>1, <2>3, <2>4, <2>5
<1>4. CASE EnableLow
  <2>1. /\ pc = "low" /\ pc' = "held" /\ ~en' /\ counter'
        /\ UNCHANGED <<counter, si, i, addr, expected>>
        /\ expected = Value(addr) /\ i < W /\ si = addr[i] /\ Shifted(i + 1)
    BY <1>4 DEF EnableLow
  <2>2. CASE sregClk
    <3>1. ~sregClk' /\ buffer' = buffer BY <1>4, <2>2 DEF EnableLow, FallingEdge
    <3>2. Shifted(i + 1)' BY <2>1, <3>1 DEF Shifted
    <3> QED BY <2>1, <3>1, <3>2
  <2>3. CASE ~sregClk
    <3>1. sregClk' /\ buffer' = ShiftIn(buffer, addr[i])
      BY <1>4, <2>1, <2>3 DEF EnableLow, FallingEdge, SregEdge
    <3>2. Shifted(i)'
      <4>1. i \in 0..W - 1 /\ buffer \in Address /\ addr \in Address
        <5>1. i \in 0..W BY DEF TypeOK
        <5> QED BY <2>1, <5>1, WidthAssumption, SMT DEF TypeOK
      <4>2. \A j \in 0..(W - (i + 1)) - 1 : buffer[j] = addr[(i + 1) + j]
        BY <2>1 DEF Shifted
      <4>3. \A j \in 0..(W - i) - 1 : ShiftIn(buffer, addr[i])[j] = addr[i + j]
        BY <4>1, <4>2, ShiftStep
      <4> QED BY <2>1, <3>1, <4>3 DEF Shifted
    <3> QED BY <2>1, <3>1, <3>2
  <2> QED BY <2>2, <2>3 DEF TypeOK
<1>5. CASE CounterLow
  <2>1. /\ pc = "idle" /\ pc' = "held" /\ ~counter' /\ en' /\ en
        /\ expected' = Value(Inc(buffer))
    BY <1>0, <1>5, IncAddsOne DEF CounterLow, TypeOK
  <2>2. CASE sregClk
    <3>1. ~sregClk' /\ buffer' = buffer BY <1>5, <2>2 DEF CounterLow, FallingEdge
    <3> QED BY <2>1, <3>1
  <2>3. CASE ~sregClk
    <3>1. sregClk' /\ buffer' = Inc(buffer)
      BY <1>5, <2>1, <2>3 DEF CounterLow, FallingEdge, SregEdge
    <3> QED BY <2>1, <3>1
  <2> QED BY <2>2, <2>3 DEF TypeOK
<1>6. CASE Held
  <2>1. /\ pc = "held" /\ pc' = "raise"
        /\ UNCHANGED <<en, counter, si, i, addr, expected>>
    BY <1>6 DEF Held
  <2>2. CASE sregClk
    <3>1. buffer' = buffer BY <1>6, <2>2 DEF Held, FallingEdge
    <3> QED BY <2>1, <2>2, <3>1 DEF Shifted
  <2>3. CASE ~sregClk /\ ~en
    <3>1. buffer' = ShiftIn(buffer, addr[i])
      BY <1>6, <2>1, <2>3 DEF Held, FallingEdge, SregEdge
    <3>2. Shifted(i)'
      <4>1. i \in 0..W - 1 /\ buffer \in Address /\ addr \in Address
        <5>1. i \in 0..W BY DEF TypeOK
        <5>2. i < W BY <2>1, <2>3
        <5> QED BY <5>1, <5>2, WidthAssumption, SMT DEF TypeOK
      <4>2. \A j \in 0..(W - (i + 1)) - 1 : buffer[j] = addr[(i + 1) + j]
        BY <2>1, <2>3 DEF Shifted
      <4>3. \A j \in 0..(W - i) - 1 : ShiftIn(buffer, addr[i])[j] = addr[i + j]
        BY <4>1, <4>2, ShiftStep
      <4> QED BY <2>1, <3>1, <4>3 DEF Shifted
    <3> QED BY <2>1, <2>3, <3>2
  <2>4. CASE ~sregClk /\ en
    <3>1. buffer' = Inc(buffer)
      BY <1>6, <2>1, <2>4 DEF Held, FallingEdge, SregEdge
    <3> QED BY <2>1, <2>4, <3>1
  <2> QED BY <2>2, <2>3, <2>4 DEF TypeOK
<1>7. CASE Raise
  <2>1. /\ pc = "raise" /\ en' /\ counter' /\ pc' = (IF en THEN "idle" ELSE "bit")
        /\ UNCHANGED <<si, i, addr, expected>>
    BY <1>7 DEF Raise
  <2>2. buffer' = buffer BY <1>7, <2>1, QuietEdge DEF Raise
  <2>3. CASE en BY <2>1, <2>2, <2>3
  <2>4. CASE ~en
    <3>1. Shifted(i)' BY <2>1, <2>2, <2>4 DEF Shifted
    <3> QED BY <2>1, <2>4, <3>1
  <2> QED BY <2>3, <2>4 DEF TypeOK
<1>8. CASE SetReturn
  <2>1. /\ pc = "bit" /\ pc' = "idle" /\ i = 0 /\ en /\ counter
        /\ UNCHANGED <<en, counter, si, i, addr, expected>>
    BY <1>8 DEF SetReturn
  <2>2. buffer' = buffer BY <1>8, <2>1, QuietEdge DEF SetReturn
  <2>3. buffer = addr
    <3>1. \A j \in 0..W - 1 : buffer[j] = addr[j]
      <4> TAKE j \in 0..W - 1
      <4>1. j \in 0..(W - 0) - 1 /\ 0 + j = j BY WidthAssumption, SMT
      <4> QED BY <2>1, <4>1 DEF Shifted
    <3> QED BY <3>1, SameBits DEF TypeOK
  <2> QED BY <2>1, <2>2, <2>3
<1>9. CASE UNCHANGED vars
  <2>1. UNCHANGED <<buffer, sregClk, en, counter, si, pc, i, addr, expected>>
    BY <1>9 DEF vars, avrVars
  <2> QED BY <2>1 DEF Shifted
<1> QED BY <1>1, <1>2, <1>3, <1>4, <1>5, <1>6, <1>7, <1>8, <1>9 DEF Next

THEOREM Invariance == ASSUME ~InterruptsInPulse PROVE Spec => []IInv
<1>1. IInv /\ [Next]_vars => IInv'
  <2>1. IInv => TypeOK BY DEF IInv
  <2> QED BY <2>1, NextTypeOK, NextOther DEF IInv
<1> QED BY <1>1, InitIInv, PTL DEF Spec

\* The register holds W bits and the loop counter never leaves its range.
THEOREM TypeCorrect == Spec => []TypeOK
<1>1. Init => TypeOK BY InitIInv DEF IInv
<1> QED BY <1>1, NextTypeOK, PTL DEF Spec

\* If no handler runs inside a pulse, after sreg_set the register holds its
\* argument and after SRAM_burst_inc the next address, for every width of the
\* register and every phase of its clock.
THEOREM AddressAlwaysExact == ASSUME ~InterruptsInPulse PROVE Spec => []AddressExact
<1>1. IInv => AddressExact BY DEF IInv
<1> QED BY <1>1, Invariance, PTL

=============================================================================
