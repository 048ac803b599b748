----------------------------- MODULE ClockDivide -----------------------------
(***************************************************************************)
(* The clock divider of cpld/hdl/clockdivide.v.  Two of them, with n tied  *)
(* to 2 and enable to 1, make the clocks of the address register and of    *)
(* the bus machine from the clock of the AVR (system.v).                   *)
(*                                                                         *)
(* A step is one edge of an input: a falling or a rising edge of clk, or a *)
(* change of reset.  phase is not in the source: it counts the edges of    *)
(* clk since clk_out last changed, and is Unknown from a reset to the      *)
(* first change after it.                                                  *)
(***************************************************************************)
EXTENDS Integers

CONSTANT Ns     \* the divisors examined

ASSUME DivisorAssumption == Ns \subseteq 0..255

Unknown == -1

VARIABLES n, enable,          \* inputs that stay as they are tied
          clk, reset,         \* inputs that move
          count, out1, out2,  \* the registers
          phase

vars == <<n, enable, clk, reset, count, out1, out2, phase>>

Odd == n % 2 = 1
m == n \div 2               \* n >> 1

\* Mutant: divisors below two are divided by as well.
MutDividerEnabled == TRUE

DividerEnabled == n >= 2    \* dbn_en, the or of the bits above bit 0

\* The combinational output.
Out(c, o1, o2) == /\ enable
                  /\ IF ~DividerEnabled THEN c
                     ELSE IF Odd THEN o1 /= o2 ELSE o1
ClkOut == Out(clk, out1, out2)

\* How many edges of clk one phase of clk_out should last.
HalfPeriod == IF DividerEnabled THEN n ELSE 1

\* The edge count after an edge of clk.
Counted == IF ClkOut' /= ClkOut THEN 0
           ELSE IF phase = Unknown THEN Unknown ELSE phase + 1

Init == /\ n \in Ns /\ enable \in BOOLEAN
        /\ clk \in BOOLEAN /\ reset = TRUE
        /\ count = 0 /\ out1 = FALSE /\ out2 = FALSE /\ phase = Unknown

\* Mutant: the odd case restarts at m - 1 as the even one does.
MutLast == m - 1

\* The count at which the counter starts again.
Last == IF Odd THEN n - 1 ELSE m - 1

\* Mutant: the count is compared with > for ==.
MutFall ==
  /\ clk /\ clk' = FALSE
  /\ IF reset THEN count' = 0 /\ out1' = FALSE
     ELSE IF DividerEnabled /\ enable
          THEN IF count > Last THEN count' = 0 /\ out1' = ~out1
               ELSE count' = (count + 1) % 256 /\ UNCHANGED out1
          ELSE UNCHANGED <<count, out1>>
  /\ UNCHANGED <<n, enable, reset, out2>>
  /\ phase' = Counted

\* always @(negedge clk or posedge reset), at a falling edge of clk.
Fall ==
  /\ clk /\ clk' = FALSE
  /\ IF reset THEN count' = 0 /\ out1' = FALSE
     ELSE IF DividerEnabled /\ enable
          THEN IF count = Last THEN count' = 0 /\ out1' = ~out1
               ELSE count' = (count + 1) % 256 /\ UNCHANGED out1
          ELSE UNCHANGED <<count, out1>>
  /\ UNCHANGED <<n, enable, reset, out2>>
  /\ phase' = Counted

\* Mutant: out2 follows out1 at the wrong end of the count.
MutRise ==
  /\ ~clk /\ clk' = TRUE
  /\ out2' = IF reset THEN FALSE
             ELSE IF count = 0 /\ enable THEN out1 ELSE out2
  /\ UNCHANGED <<n, enable, reset, count, out1>>
  /\ phase' = Counted

\* always @(posedge clk or posedge reset), at a rising edge of clk.
Rise ==
  /\ ~clk /\ clk' = TRUE
  /\ out2' = IF reset THEN FALSE
             ELSE IF count = m /\ enable THEN out1 ELSE out2
  /\ UNCHANGED <<n, enable, reset, count, out1>>
  /\ phase' = Counted

\* Both always blocks at a rising edge of reset.
ResetHigh ==
  /\ ~reset /\ reset' = TRUE
  /\ count' = 0 /\ out1' = FALSE /\ out2' = FALSE /\ phase' = Unknown
  /\ UNCHANGED <<n, enable, clk>>

ResetLow ==
  /\ reset /\ reset' = FALSE
  /\ phase' = Unknown
  /\ UNCHANGED <<n, enable, clk, count, out1, out2>>

Next == Fall \/ Rise \/ ResetHigh \/ ResetLow

Spec == Init /\ [][Next]_vars

\* The clock of the AVR never stops.
FairSpec == Spec /\ WF_vars(Fall) /\ WF_vars(Rise)

-----------------------------------------------------------------------------
\* The registers keep their widths and the counter stays below the divisor.
TypeOK ==
  /\ n \in Ns /\ enable \in BOOLEAN /\ clk \in BOOLEAN /\ reset \in BOOLEAN
  /\ count \in 0..255 /\ out1 \in BOOLEAN /\ out2 \in BOOLEAN
  /\ phase \in -1..254
  /\ DividerEnabled => count <= Last

\* clk_out never holds a level longer than it should: between two changes of
\* it lie at most HalfPeriod edges of clk.
NeverLate == enable => phase < HalfPeriod

\* And never shorter: after the first change that follows a reset, clk_out
\* changes only at the end of a full half period, so the divided clock has
\* the right period and an even duty cycle, for odd divisors too.
NeverEarly ==
  [][UNCHANGED reset /\ ClkOut' /= ClkOut /\ phase /= Unknown
       => phase + 1 = HalfPeriod]_vars

\* Once reset stays low the divided clock runs for ever.
KeepsRunning ==
  enable /\ <>[](~reset) => []<>ClkOut /\ []<>~ClkOut
=============================================================================
