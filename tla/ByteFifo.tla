------------------------------ MODULE ByteFifo ------------------------------
(***************************************************************************)
(* What a byte queue of the serial driver promises: bytes leave in the     *)
(* order they were accepted, none is invented, repeated or skipped, and at *)
(* most Capacity of them wait at any moment.  Uart.tla implements two of   *)
(* these, one for each direction of the line.                              *)
(***************************************************************************)
EXTENDS Naturals, Sequences

CONSTANTS Bytes,     \* what one element of the queue may be
          Capacity   \* how many elements may wait

VARIABLES in,        \* every byte accepted so far, oldest first
          out        \* every byte handed on so far, oldest first

Waiting == Len(in) - Len(out)

Init == in = <<>> /\ out = <<>>

Accept(b) == /\ Waiting < Capacity
             /\ in' = Append(in, b)
             /\ UNCHANGED out

HandOn == /\ Waiting > 0
          /\ out' = Append(out, in[Len(out) + 1])
          /\ UNCHANGED in

Next == HandOn \/ \E b \in Bytes : Accept(b)

Spec == Init /\ [][Next]_<<in, out>>
=============================================================================
