---------------------------- MODULE MCClockDivide ----------------------------
(* Every divisor the eight-bit input can name.                               *)
EXTENDS ClockDivide

MCNs == 0..255
=============================================================================
