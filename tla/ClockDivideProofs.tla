-------------------------- MODULE ClockDivideProofs --------------------------
(***************************************************************************)
(* What ClockDivide.tla promises, for every set of divisors of eight bits. *)
(*                                                                         *)
(* The clock changes at two places of the count: where the counter starts  *)
(* again and, for an odd divisor, half a cycle of clk after its middle.    *)
(* InStep says what the phase is anywhere between them, so that each       *)
(* change is found to come at the end of a half period.                    *)
(***************************************************************************)
EXTENDS ClockDivide, TLAPS

\* The edges of clk since the counter started again.
Edges == 2 * count + (IF clk THEN 1 ELSE 0)

\* An odd divisor is in the second half of its count: out2 has followed out1.
Followed == count > m \/ (count = m /\ clk)

Levels ==
  /\ enable \in BOOLEAN /\ clk \in BOOLEAN /\ reset \in BOOLEAN
  /\ out1 \in BOOLEAN /\ out2 \in BOOLEAN

Numbers ==
  /\ n \in 0..255 /\ n \in Ns /\ count \in 0..255 /\ phase \in Int
  /\ DividerEnabled => count <= Last

\* Held in reset, or without enable, a divider shows no change.
AtRest ==
  /\ ~enable \/ reset => count = 0 /\ ~out1 /\ ~out2
  /\ ~enable \/ (reset /\ DividerEnabled) => phase = Unknown

\* Undivided, the clock changes with every edge.
Passed == ~DividerEnabled => phase \in {Unknown, 0}

\* The phase is what the count and the level of clk make it.
InStep ==
  /\ DividerEnabled /\ ~Odd /\ phase # Unknown => phase = Edges
  /\ DividerEnabled /\ Odd /\ Followed => out1 = out2 /\ phase \in {Unknown, Edges - n}
  /\ DividerEnabled /\ Odd /\ ~Followed
       => IF out1 = out2 THEN phase = Unknown ELSE phase = Edges

IInv == Levels /\ Numbers /\ AtRest /\ Passed /\ InStep

-----------------------------------------------------------------------------
\* Half of a divisor.
LEMMA Half ==
  ASSUME n \in 0..255
  PROVE  /\ m \in 0..127
         /\ Odd => n = 2 * m + 1
         /\ ~Odd => n = 2 * m
  BY DEF m, Odd

\* The phase that is not known is none of those that are.
LEMMA NotAPhase == Unknown \in Int /\ Unknown < 0
  BY DEF Unknown

LEMMA Starts == Init => IInv
<1> SUFFICES ASSUME Init PROVE IInv
  OBVIOUS
<1>1. n \in 0..255
  BY DivisorAssumption DEF Init
<1>2. /\ m \in 0..127
      /\ Odd => n = 2 * m + 1
      /\ ~Odd => n = 2 * m
  BY <1>1, Half
<1>3. Levels
  BY DEF Init, Levels
<1>6. Numbers
  BY NotAPhase, <1>1, <1>2 DEF Init, Numbers, DividerEnabled, Last
<1>4. AtRest /\ Passed
  BY DEF Init, AtRest, Passed
<1>5. InStep
  BY <1>1, <1>2 DEF Init, InStep
<1> QED
  BY <1>3, <1>4, <1>5, <1>6 DEF IInv

\* What a step keeps: the inputs that are tied stay as they are.
Tied ==
  /\ n' = n /\ enable' = enable /\ n \in 0..255 /\ m \in 0..127 /\ m' = m
  /\ Odd' = Odd /\ Last' = Last /\ (DividerEnabled => Last \in 0..254)
  /\ DividerEnabled' = DividerEnabled /\ HalfPeriod' = HalfPeriod
  /\ Odd => n = 2 * m + 1
  /\ ~Odd => n = 2 * m

LEMMA TiedInputs ==
  ASSUME IInv, [Next]_vars
  PROVE  Tied /\ Levels'
<1>1. n' = n /\ enable' = enable
  BY DEF Next, Fall, Rise, ResetHigh, ResetLow, vars
<1>2. n \in 0..255
  BY DEF IInv, Numbers
<1>3. /\ m \in 0..127
      /\ Odd => n = 2 * m + 1
      /\ ~Odd => n = 2 * m
  BY <1>2, Half
<1>4. m' = m
  BY <1>1 DEF m
<1>5. Odd' = Odd
  BY <1>1 DEF Odd
<1>6. Last' = Last
  BY <1>1, <1>4, <1>5 DEF Last
<1>7. DividerEnabled' = DividerEnabled /\ HalfPeriod' = HalfPeriod
  BY <1>1 DEF DividerEnabled, HalfPeriod
<1>8. DividerEnabled => Last \in 0..254
  BY <1>2, <1>3 DEF DividerEnabled, Last
<1>9. Levels'
  <2>1. Levels
    BY DEF IInv
  <2>2. CASE Fall
    BY <2>1, <2>2 DEF Fall, Levels
  <2>3. CASE Rise
    BY <2>1, <2>3 DEF Rise, Levels
  <2>4. CASE ResetHigh \/ ResetLow \/ UNCHANGED vars
    BY <2>1, <2>4 DEF ResetHigh, ResetLow, Levels, vars
  <2> QED
    BY <2>2, <2>3, <2>4 DEF Next
<1> QED
  BY <1>1, <1>2, <1>3, <1>4, <1>5, <1>6, <1>7, <1>8, <1>9 DEF Tied

\* An edge that changes nothing but the count of the edges.
LEMMA AdvanceKeeps ==
  ASSUME Tied, Numbers, InStep, out1' = out1, Odd => out2' = out2,
         phase' = IF phase = Unknown THEN Unknown ELSE phase + 1,
         Edges' = Edges + 1, Edges \in Nat, Odd => Followed' = Followed
  PROVE  InStep'
<1>1. Unknown \in Int /\ Unknown < 0 /\ phase \in Int /\ n \in 0..255
  BY NotAPhase DEF Numbers
<1>2. CASE DividerEnabled /\ ~Odd
  BY <1>1, <1>2 DEF Tied, InStep
<1>3. CASE DividerEnabled /\ Odd /\ Followed
  <2>1. phase \in {Unknown, Edges - n} /\ out1 = out2
    BY <1>3 DEF InStep
  <2>2. phase' \in {Unknown, Edges' - n}
    BY <1>1, <2>1
  <2> QED
    BY <1>3, <2>1, <2>2 DEF Tied, InStep
<1>4. CASE DividerEnabled /\ Odd /\ ~Followed
  <2>1. IF out1 = out2 THEN phase = Unknown ELSE phase = Edges
    BY <1>4 DEF InStep
  <2>2. IF out1 = out2 THEN phase' = Unknown ELSE phase' = Edges'
    BY <1>1, <2>1
  <2> QED
    BY <1>4, <2>2 DEF Tied, InStep
<1> QED
  BY <1>2, <1>3, <1>4 DEF Tied, InStep

\* A step that leaves the divider as a reset does.
LEMMA RestKeeps ==
  ASSUME IInv, [Next]_vars, count' = 0, ~out1', ~out2', phase' = Unknown
  PROVE  IInv'
<1>1. Tied /\ Levels'
  BY TiedInputs
<1>2. n \in Ns
  BY DEF IInv, Numbers
<1>3. Numbers'
  BY NotAPhase, <1>1, <1>2 DEF Tied, Numbers
<1>4. AtRest' /\ Passed'
  BY DEF AtRest, Passed
<1>5. out1' = out2'
  BY <1>1, Zenon DEF Levels
<1>6. InStep'
  BY <1>5 DEF InStep
<1> QED
  BY <1>1, <1>3, <1>4, <1>6 DEF IInv

\* An edge of clk at a divider that passes it on.
LEMMA PassedKeeps ==
  ASSUME IInv, Fall \/ Rise, enable, ~DividerEnabled
  PROVE  /\ IInv'
         /\ phase # Unknown => phase + 1 = HalfPeriod
<1>1. Tied /\ Levels'
  BY TiedInputs DEF Next
<1>2. Levels /\ Numbers /\ AtRest /\ Passed /\ InStep
  BY DEF IInv
<1>3. ClkOut' # ClkOut
  <2>1. (clk /\ ~clk') \/ (~clk /\ clk')
    BY DEF Fall, Rise
  <2> QED
    BY <2>1, <1>1 DEF Tied, ClkOut, Out
<1>4. phase' = 0
  BY <1>3 DEF Fall, Rise, Counted
<1>5. /\ count' = 0 \/ count' = count
      /\ reset' = reset
      /\ reset => count' = 0 /\ ~out1' /\ ~out2'
  <2>1. CASE Fall
    BY <1>2, <2>1 DEF Fall, AtRest
  <2>2. CASE Rise
    BY <1>2, <2>2 DEF Rise, AtRest
  <2> QED
    BY <2>1, <2>2
<1>6. Numbers'
  BY <1>1, <1>2, <1>4, <1>5 DEF Tied, Numbers
<1>7. AtRest' /\ Passed' /\ InStep'
  BY <1>1, <1>4, <1>5 DEF Tied, AtRest, Passed, InStep
<1>8. phase # Unknown => phase + 1 = HalfPeriod
  BY <1>2 DEF Passed, HalfPeriod
<1> QED
  BY <1>1, <1>6, <1>7, <1>8 DEF IInv

\* A falling edge: the clock may start a half period.
LEMMA FallKeeps ==
  ASSUME IInv, Fall
  PROVE  /\ IInv'
         /\ ClkOut' # ClkOut /\ phase # Unknown => phase + 1 = HalfPeriod
<1>1. Tied /\ Levels'
  BY TiedInputs DEF Next
<1>2. Levels /\ Numbers /\ AtRest /\ Passed /\ InStep
  BY DEF IInv
<1>3. CASE ~enable \/ (reset /\ DividerEnabled)
  <2>1. count' = 0 /\ ~out1' /\ ~out2'
    BY <1>2, <1>3 DEF Fall, AtRest
  <2>2. ClkOut' = ClkOut
    BY <1>1, <1>2, <1>3, <2>1 DEF Tied, ClkOut, Out, AtRest, Levels
  <2>3. phase' = Unknown
    BY <1>2, <1>3, <2>2 DEF AtRest, Fall, Counted
  <2> QED
    BY <2>1, <2>2, <2>3, RestKeeps DEF Next
<1>4. CASE enable /\ ~DividerEnabled
  BY <1>4, PassedKeeps
<1>5. CASE enable /\ DividerEnabled /\ ~reset /\ count = Last
  <2>1. clk /\ ~clk' /\ count' = 0 /\ out1' = ~out1 /\ out2' = out2 /\ ~reset'
    BY <1>5 DEF Fall
  <2>2. ClkOut' # ClkOut
    BY <1>1, <1>2, <1>5, <2>1, Zenon DEF Tied, ClkOut, Out, Levels
  <2>3. phase' = 0
    BY <2>2 DEF Fall, Counted
  <2>4. Odd => count = 2 * m /\ m > 0 /\ Edges = 4 * m + 1 /\ Followed
    BY <1>1, <1>5, <2>1 DEF Tied, Last, DividerEnabled, Edges, Followed
  <2>5. phase # Unknown => phase + 1 = HalfPeriod
    <3>1. CASE Odd
      BY <1>1, <1>2, <1>5, <2>4, <3>1 DEF Tied, InStep, HalfPeriod
    <3>2. CASE ~Odd
      BY <1>1, <1>2, <1>5, <2>1, <3>2 DEF Tied, InStep, Edges, Last, HalfPeriod
    <3> QED
      BY <3>1, <3>2
  <2>6. InStep'
    <3>1. CASE Odd
      <4>1. ~Followed' /\ Edges' = 0
        BY <1>1, <2>1, <2>4, <3>1 DEF Tied, Followed, Edges
      <4>2. out1 = out2
        BY <1>2, <1>5, <2>4, <3>1 DEF InStep
      <4>3. out1' # out2'
        BY <1>2, <2>1, <4>2, Zenon DEF Levels
      <4> QED
        BY <1>1, <2>3, <3>1, <4>1, <4>3, Zenon DEF Tied, InStep
    <3>2. CASE ~Odd
      BY <1>1, <2>1, <2>3, <3>2 DEF Tied, InStep, Edges
    <3> QED
      BY <3>1, <3>2
  <2>7. Numbers'
    BY <1>1, <1>2, <2>1, <2>3 DEF Tied, Numbers
  <2>8. AtRest' /\ Passed'
    BY <1>1, <1>5, <2>1 DEF Tied, AtRest, Passed
  <2> QED
    BY <1>1, <2>5, <2>6, <2>7, <2>8 DEF IInv
<1>6. CASE enable /\ DividerEnabled /\ ~reset /\ count # Last
  <2>1. clk /\ ~clk' /\ out1' = out1 /\ out2' = out2 /\ ~reset'
    BY <1>6 DEF Fall
  <2>2. count' = count + 1 /\ count' <= Last
    BY <1>1, <1>2, <1>6 DEF Fall, Tied, Numbers
  <2>3. ClkOut' = ClkOut
    BY <1>1, <1>6, <2>1 DEF Tied, ClkOut, Out
  <2>4. phase' = IF phase = Unknown THEN Unknown ELSE phase + 1
    BY <2>3 DEF Fall, Counted
  <2>5. Numbers'
    BY NotAPhase, <1>1, <1>2, <1>6, <2>2, <2>4 DEF Tied, Numbers
  <2>6. InStep'
    <3>1. Edges' = Edges + 1 /\ Edges \in Nat
      BY <1>2, <2>1, <2>2 DEF Edges, Numbers
    <3>2. Followed' = Followed
      BY <1>1, <1>2, <2>1, <2>2 DEF Followed, Numbers, Tied
    <3> QED
      BY <1>1, <1>2, <2>1, <2>4, <3>1, <3>2, AdvanceKeeps
  <2>7. AtRest' /\ Passed'
    BY <1>1, <1>6, <2>1 DEF Tied, AtRest, Passed
  <2> QED
    BY <1>1, <2>3, <2>5, <2>6, <2>7 DEF IInv
<1> QED
  BY <1>2, <1>3, <1>4, <1>5, <1>6 DEF Levels

\* A rising edge: an odd divisor's clock may start the other half period.
LEMMA RiseKeeps ==
  ASSUME IInv, Rise
  PROVE  /\ IInv'
         /\ ClkOut' # ClkOut /\ phase # Unknown => phase + 1 = HalfPeriod
<1>1. Tied /\ Levels'
  BY TiedInputs DEF Next
<1>2. Levels /\ Numbers /\ AtRest /\ Passed /\ InStep
  BY DEF IInv
<1>3. ~clk /\ clk' /\ count' = count /\ out1' = out1 /\ reset' = reset
  BY DEF Rise
<1>4. CASE ~enable \/ (reset /\ DividerEnabled)
  <2>1. count' = 0 /\ ~out1' /\ ~out2'
    BY <1>2, <1>4 DEF Rise, AtRest
  <2>2. ClkOut' = ClkOut
    BY <1>1, <1>2, <1>4, <2>1 DEF Tied, ClkOut, Out, AtRest, Levels
  <2>3. phase' = Unknown
    BY <1>2, <1>4, <2>2 DEF AtRest, Rise, Counted
  <2> QED
    BY <2>1, <2>2, <2>3, RestKeeps DEF Next
<1>5. CASE enable /\ ~DividerEnabled
  BY <1>5, PassedKeeps
<1>6. CASE enable /\ DividerEnabled /\ ~reset /\ ~(Odd /\ count = m)
  <2>1. Odd => out2' = out2
    BY <1>6 DEF Rise
  <2>2. ClkOut' = ClkOut
    BY <1>1, <1>3, <1>6, <2>1 DEF Tied, ClkOut, Out
  <2>3. phase' = IF phase = Unknown THEN Unknown ELSE phase + 1
    BY <2>2 DEF Rise, Counted
  <2>4. Numbers'
    BY NotAPhase, <1>1, <1>2, <1>3, <2>3 DEF Tied, Numbers
  <2>5. InStep'
    <3>1. Edges' = Edges + 1 /\ Edges \in Nat
      BY <1>2, <1>3 DEF Edges, Numbers
    <3>2. Odd => Followed' = Followed
      BY <1>1, <1>2, <1>3, <1>6 DEF Followed, Numbers, Tied
    <3> QED
      BY <1>1, <1>2, <1>3, <2>1, <2>3, <3>1, <3>2, AdvanceKeeps
  <2>6. AtRest' /\ Passed'
    BY <1>1, <1>3, <1>6 DEF Tied, AtRest, Passed
  <2> QED
    BY <1>1, <2>2, <2>4, <2>5, <2>6 DEF IInv
<1>7. CASE enable /\ DividerEnabled /\ ~reset /\ Odd /\ count = m
  <2>1. out2' = out1
    BY <1>7 DEF Rise
  <2>2. ~Followed /\ Followed' /\ Edges = 2 * m /\ Edges' = n
    BY <1>1, <1>3, <1>7 DEF Followed, Edges, Tied
  <2>3. out1' = out2'
    BY <1>3, <2>1
  <2>4. CASE out1 = out2
    <3>1. phase = Unknown
      BY <1>2, <1>7, <2>2, <2>4 DEF InStep
    <3>2. ClkOut' = ClkOut
      BY <1>1, <1>3, <1>7, <2>1, <2>4 DEF Tied, ClkOut, Out
    <3>3. phase' = Unknown
      BY <3>1, <3>2 DEF Rise, Counted
    <3>4. Numbers'
      BY NotAPhase, <1>1, <1>2, <1>3, <3>3 DEF Tied, Numbers
    <3>5. InStep'
      BY <1>1, <1>7, <2>2, <2>3, <3>3 DEF InStep, Tied
    <3>6. AtRest' /\ Passed'
      BY <1>1, <1>3, <1>7, <3>3 DEF AtRest, Passed, Tied
    <3> QED
      BY <1>1, <3>1, <3>4, <3>5, <3>6 DEF IInv
  <2>5. CASE out1 # out2
    <3>1. phase = n - 1
      BY <1>1, <1>2, <1>7, <2>2, <2>5 DEF InStep, Tied
    <3>2. ClkOut' # ClkOut
      BY <1>1, <1>2, <1>7, <2>3, <2>5, Zenon DEF Tied, ClkOut, Out, Levels
    <3>3. phase' = 0
      BY <3>2 DEF Rise, Counted
    <3>4. Numbers'
      BY <1>1, <1>2, <1>3, <3>3 DEF Tied, Numbers
    <3>5. InStep'
      BY <1>1, <1>7, <2>2, <2>3, <3>3 DEF InStep, Tied
    <3>6. AtRest' /\ Passed'
      BY <1>1, <1>3, <1>7, <3>3 DEF AtRest, Passed, Tied
    <3>7. phase + 1 = HalfPeriod
      BY <1>1, <1>7, <3>1 DEF HalfPeriod, Tied
    <3> QED
      BY <1>1, <3>4, <3>5, <3>6, <3>7 DEF IInv
  <2> QED
    BY <2>4, <2>5
<1> QED
  BY <1>2, <1>4, <1>5, <1>6, <1>7 DEF Levels

LEMMA ResetKeeps ==
  ASSUME IInv, ResetHigh \/ ResetLow
  PROVE  IInv'
<1>1. AtRest
  BY DEF IInv
<1>2. count' = 0 /\ ~out1' /\ ~out2' /\ phase' = Unknown
  BY <1>1 DEF ResetHigh, ResetLow, AtRest
<1> QED
  BY <1>2, RestKeeps DEF Next

LEMMA StepKeeps == IInv /\ [Next]_vars => IInv'
<1> SUFFICES ASSUME IInv, [Next]_vars PROVE IInv'
  OBVIOUS
<1>1. CASE Fall
  BY <1>1, FallKeeps
<1>2. CASE Rise
  BY <1>2, RiseKeeps
<1>3. CASE ResetHigh \/ ResetLow
  BY <1>3, ResetKeeps
<1>4. CASE UNCHANGED vars
  BY <1>4 DEF vars, IInv, Levels, Numbers, AtRest, Passed, InStep, DividerEnabled, Last,
     Odd, m, Edges, Followed
<1> QED
  BY <1>1, <1>2, <1>3, <1>4 DEF Next

-----------------------------------------------------------------------------
LEMMA Bounded == IInv => TypeOK /\ NeverLate
<1> SUFFICES ASSUME IInv PROVE TypeOK /\ NeverLate
  OBVIOUS
<1>1. Levels /\ Numbers /\ AtRest /\ Passed /\ InStep
  BY DEF IInv
<1>2. n \in 0..255
  BY <1>1 DEF Numbers
<1>3. /\ m \in 0..127
      /\ Odd => n = 2 * m + 1
      /\ ~Odd => n = 2 * m
  BY <1>2, Half
<1>4. phase \in -1..HalfPeriod - 1
  BY <1>1, <1>2, <1>3 DEF Numbers, Passed, InStep, Edges, Followed, HalfPeriod,
     DividerEnabled, Last, Unknown
<1>5. HalfPeriod \in 1..255
  BY <1>2 DEF HalfPeriod, DividerEnabled
<1> QED
  BY <1>1, <1>4, <1>5 DEF TypeOK, NeverLate, Levels, Numbers

\* The registers keep their widths and the counter stays below the divisor,
\* whatever the divisor is.
THEOREM TypeCorrect == Spec => []TypeOK
  BY Starts, StepKeeps, Bounded, PTL DEF Spec

\* No level of the divided clock lasts longer than half its period.
THEOREM NeverLateAlways == Spec => []NeverLate
  BY Starts, StepKeeps, Bounded, PTL DEF Spec

\* And none ends before it: after the first change every half period has the
\* same length, which for an odd divisor ends at a rising edge of clk and at a
\* falling one in turn.
THEOREM NeverEarlyAlways == Spec => NeverEarly
<1>1. IInv /\ [Next]_vars
        => [UNCHANGED reset /\ ClkOut' /= ClkOut /\ phase /= Unknown
              => phase + 1 = HalfPeriod]_vars
  <2> SUFFICES ASSUME IInv, Next, UNCHANGED reset, ClkOut' # ClkOut, phase # Unknown
               PROVE  phase + 1 = HalfPeriod
    BY DEF vars
  <2>1. ~(ResetHigh \/ ResetLow)
    BY DEF ResetHigh, ResetLow
  <2> QED
    BY <2>1, FallKeeps, RiseKeeps DEF Next
<1> QED
  BY <1>1, Starts, StepKeeps, PTL DEF Spec, NeverEarly
=============================================================================
