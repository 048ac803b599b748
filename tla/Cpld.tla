-------------------------------- MODULE Cpld --------------------------------
(***************************************************************************)
(* The logic of the CPLD as functions: what one clock edge does to the     *)
(* address register (sreg.v) and to the bus machine (bus.v), and what      *)
(* system.v wires to the SRAM.  ShiftReg.tla and SramPath.tla put clocks   *)
(* and an AVR around them.                                                 *)
(*                                                                         *)
(* Active-low pins are named without their _n; a pin is TRUE when high.    *)
(***************************************************************************)
EXTENDS Naturals

CONSTANTS W,      \* DWIDTH of sreg.v, the number of address lines
          Data,   \* the bytes on the data lines
          Z,      \* a line nobody drives
          X       \* a line whose level is not known

ASSUME WidthAssumption == W \in Nat \ {0}
ASSUME DataAssumption == Data /= {}
ASSUME LevelAssumption == Z \notin Data /\ X \notin Data /\ Z /= X

Address == [0..W - 1 -> {0, 1}]

-----------------------------------------------------------------------------
(* sreg.v                                                                  *)

\* Mutant: the new bit enters at the top.
MutShiftIn(b, bit) == [k \in 0..W - 1 |-> IF k = W - 1 THEN bit ELSE b[k + 1]]

\* Mutant: the register is declared one bit wider than it has address lines.
MutWideShiftIn(b, bit) == [k \in 0..W |-> IF k = 0 THEN bit ELSE b[k - 1]]

\* buffer <= buffer << 1; buffer[0] <= in
ShiftIn(b, bit) == [k \in 0..W - 1 |-> IF k = 0 THEN bit ELSE b[k - 1]]

\* buffer <= buffer + 1: a bit flips when every bit below it is one.
Inc(b) == [k \in 0..W - 1 |-> IF \A j \in 0..k - 1 : b[j] = 1
                              THEN 1 - b[k] ELSE b[k]]

\* A rising edge of the register's clock.
SregEdge(b, en, counter, si) ==
  IF ~en THEN ShiftIn(b, si) ELSE IF ~counter THEN Inc(b) ELSE b

-----------------------------------------------------------------------------
(* bus.v                                                                   *)

FsmState == {"IDLE", "WE", "BUFAVR", "BUFSRAM", "OE"}

\* The three latches: what drives the AVR side, what drives the SRAM side
\* and the byte between them.
Latches == [avr : Data \cup {Z, X}, sram : Data \cup {Z, X}, buffer : Data \cup {Z, X}]

\* A latch that takes an undriven line holds some level, nobody knows which.
Sample(v) == IF v = Z THEN X ELSE v

\* FSM_COMBO: a write goes round BUFAVR and WE, a read round BUFSRAM and OE,
\* and each leaves through IDLE when its pin rises.
FsmNext(s, we, oe) ==
  CASE s = "IDLE" /\ ~we       -> "BUFAVR"
    [] s = "IDLE" /\ we /\ ~oe -> "BUFSRAM"
    [] s = "BUFAVR" /\ ~we     -> "WE"
    [] s = "WE" /\ ~we         -> "BUFAVR"
    [] s = "BUFSRAM" /\ ~oe    -> "OE"
    [] s = "OE" /\ ~oe         -> "BUFSRAM"
    [] OTHER                   -> "IDLE"

\* OUTPUT_LOGIC on entering a state, with the levels then on the two buses.
FsmOutput(s, lat, avr, sram) ==
  CASE s = "IDLE"    -> [avr |-> Z, sram |-> Z, buffer |-> Z]
    [] s = "WE"      -> [lat EXCEPT !.sram = Sample(lat.buffer)]
    [] s = "OE"      -> [lat EXCEPT !.avr = Sample(lat.buffer)]
    [] s = "BUFSRAM" -> [lat EXCEPT !.buffer = Sample(sram)]
    [] s = "BUFAVR"  -> [lat EXCEPT !.buffer = Sample(avr)]

\* While the machine stays in a state that fills the buffer, a simulation
\* keeps the byte taken on entry (the block is sensitive to state alone) and
\* a latch in the device follows the bus: both are possible.
Follow(s, lat, avr, sram) ==
  {lat} \cup CASE s = "BUFSRAM" -> {[lat EXCEPT !.buffer = Sample(sram)]}
               [] s = "BUFAVR"  -> {[lat EXCEPT !.buffer = Sample(avr)]}
               [] OTHER         -> {}

\* What stands on a line with these drivers, Z for those that do not drive.
Level(drivers) ==
  LET on == drivers \ {Z}
  IN IF on = {} THEN Z ELSE IF \E v \in on : on = {v} THEN CHOOSE v \in on : TRUE
     ELSE X
=============================================================================
