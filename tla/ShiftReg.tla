------------------------------ MODULE ShiftReg ------------------------------
(***************************************************************************)
(* The address register of the CPLD and the two routines of the firmware   *)
(* that move it: sreg_set, which shifts an address in, and SRAM_burst_inc, *)
(* which counts it up (poc/poc_sreg/main.c).                               *)
(*                                                                         *)
(* Every step is one clock cycle of the AVR.  Its pins change at the       *)
(* rising edge; at the falling edge the divided clock of the register      *)
(* toggles.  sbi and cbi take two cycles, so a pin pulled low and raised   *)
(* by the next instruction is low for exactly two of them, unless an       *)
(* interrupt handler runs between the two.  Nothing here makes the two     *)
(* clocks start in any particular phase.                                   *)
(***************************************************************************)
EXTENDS Cpld

CONSTANT InterruptsInPulse  \* may a handler run between the cbi and the sbi of a pulse?

ASSUME InterruptAssumption == InterruptsInPulse \in BOOLEAN

VARIABLES buffer, sregClk,      \* the register and its clock
          en, counter, si,      \* the pins of the AVR it looks at
          pc, i, addr,          \* sreg_set: where it is, bits left, argument
          expected              \* the number the register should hold between calls

avrVars == <<en, counter, si, pc, i, addr, expected>>
vars == <<buffer, sregClk, avrVars>>

\* Address line k weighs 2^k; Weight[W] is the size of the memory.
Weight[k \in 0..W] == IF k = 0 THEN 1 ELSE 2 * Weight[k - 1]

\* What the bits of b below k are worth.
Worth(b) == LET sum[k \in 0..W] == IF k = 0 THEN 0
                                   ELSE sum[k - 1] + b[k - 1] * Weight[k - 1]
            IN sum

\* The address a program counts in.
Value(b) == Worth(b)[W]

Init == /\ buffer \in Address /\ sregClk \in BOOLEAN
        /\ en = TRUE /\ counter = TRUE /\ si \in {0, 1}
        /\ pc = "idle" /\ i = 0 /\ addr = buffer /\ expected = Value(buffer)

\* Mutant: the register is clocked by the undivided clock.
MutFallingEdge ==
  /\ sregClk' = ~sregClk
  /\ buffer' = SregEdge(buffer, en', counter', si')

\* The falling edge that ends a cycle, with the pins as they now stand.
FallingEdge ==
  /\ sregClk' = ~sregClk
  /\ buffer' = IF ~sregClk THEN SregEdge(buffer, en', counter', si') ELSE buffer

\* A cycle spent elsewhere: computing, returning, calling, in a handler.
Compute ==
  /\ pc \in {"idle", "bit", "low"} \cup (IF InterruptsInPulse THEN {"held"} ELSE {})
  /\ UNCHANGED avrVars
  /\ FallingEdge

\* Mutant: one bit more than the register has is sent.
MutSetCall ==
  /\ pc = "idle"
  /\ addr' \in Address /\ expected' = Value(addr') /\ i' = W + 1 /\ en' = TRUE
  /\ pc' = "bit"
  /\ UNCHANGED <<counter, si>>
  /\ FallingEdge

SetCall ==
  /\ pc = "idle"
  /\ addr' \in Address /\ expected' = Value(addr') /\ i' = W /\ en' = TRUE
  /\ pc' = "bit"
  /\ UNCHANGED <<counter, si>>
  /\ FallingEdge

\* Mutant: the low bit is sent first.
MutSetBit ==
  /\ pc = "bit" /\ i > 0
  /\ si' = addr[W - i] /\ i' = i - 1 /\ pc' = "low"
  /\ UNCHANGED <<en, counter, addr, expected>>
  /\ FallingEdge

\* while (i--) with the test of 1 << i: the high bit first.
SetBit ==
  /\ pc = "bit" /\ i > 0
  /\ si' = addr[i - 1] /\ i' = i - 1 /\ pc' = "low"
  /\ UNCHANGED <<en, counter, addr, expected>>
  /\ FallingEdge

EnableLow ==
  /\ pc = "low"
  /\ en' = FALSE /\ pc' = "held"
  /\ UNCHANGED <<counter, si, i, addr, expected>>
  /\ FallingEdge

CounterLow ==
  /\ pc = "idle"
  /\ counter' = FALSE /\ pc' = "held" /\ expected' = (expected + 1) % Weight[W]
  /\ UNCHANGED <<en, si, i, addr>>
  /\ FallingEdge

\* The first of the two cycles of the sbi that ends the pulse.
Held ==
  /\ pc = "held"
  /\ pc' = "raise"
  /\ UNCHANGED <<en, counter, si, i, addr, expected>>
  /\ FallingEdge

\* Its second cycle: the pin rises.
Raise ==
  /\ pc = "raise"
  /\ en' = TRUE /\ counter' = TRUE
  /\ pc' = IF en THEN "idle" ELSE "bit"
  /\ UNCHANGED <<si, i, addr, expected>>
  /\ FallingEdge

SetReturn ==
  /\ pc = "bit" /\ i = 0
  /\ pc' = "idle"
  /\ UNCHANGED <<en, counter, si, i, addr, expected>>
  /\ FallingEdge

Next == \/ Compute \/ SetCall \/ SetBit \/ EnableLow \/ CounterLow
        \/ Held \/ Raise \/ SetReturn

Spec == Init /\ [][Next]_vars

-----------------------------------------------------------------------------
\* The register holds W bits and the loop counter stays in its range.
TypeOK ==
  /\ buffer \in Address /\ sregClk \in BOOLEAN
  /\ en \in BOOLEAN /\ counter \in BOOLEAN /\ si \in {0, 1}
  /\ pc \in {"idle", "bit", "low", "held", "raise"} /\ i \in 0..W
  /\ addr \in Address /\ expected \in 0..Weight[W] - 1

\* Between calls the register stands for the last address given to sreg_set,
\* plus one for each SRAM_burst_inc since, modulo the size of the memory and
\* whatever the phase of the divided clock at each pulse: no pulse is missed,
\* none is taken twice, and the carry reaches every line.
AddressExact == pc = "idle" => Value(buffer) = expected

=============================================================================
