------------------------------- MODULE MCUart -------------------------------
(* Rings of two and three slots, wrapped more than once in both directions. *)
EXTENDS Uart

MCBytes == {0, 1}
=============================================================================
