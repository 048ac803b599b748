-------------------------------- MODULE Uart --------------------------------
(***************************************************************************)
(* The interrupt-driven serial driver of poc/poc_sreg/uart.c (the copy in  *)
(* poc/MassStorage differs only in the baud rate divisor).  One main       *)
(* thread calls uart_putchar, uart_getchar and uart_available; two         *)
(* interrupt handlers run between any two of its instructions and, since   *)
(* an AVR handler runs with interrupts off, never inside one another.      *)
(* Each access of a volatile byte by the main thread is a step of its own. *)
(*                                                                         *)
(* The USART itself is external: UDRE says the data register is empty, and *)
(* received bytes wait in its two-byte FIFO.                               *)
(***************************************************************************)
EXTENDS Naturals, Sequences

CONSTANTS TxSize, RxSize,  \* TX_BUFFER_SIZE, RX_BUFFER_SIZE
          Bytes,           \* the bytes used
          MaxTx, MaxRx     \* bounds: bytes sent and received in a run

\* uart.c, line 33: "These buffers may be any size from 2 to 256 bytes."
ASSUME SizeAssumption == TxSize \in 2..256 /\ RxSize \in 2..256
ASSUME BytesAssumption == Bytes \subseteq 0..255 /\ 0 \in Bytes
ASSUME BoundAssumption == MaxTx \in Nat /\ MaxRx \in Nat

VARIABLES txBuffer, txHead, txTail,  \* the transmit ring
          rxBuffer, rxHead, rxTail,  \* the receive ring
          udrie,                     \* UDRIE1 of UCSR1B, the only bit that changes
          udre,                      \* the data register can take a byte
          rxFifo,                    \* received bytes the handler has not read
          pc, i, c, head,            \* the main thread: where it is, its locals
          credit,                    \* bytes uart_available has promised
          accepted, sent,            \* history: stored by putchar, written to UDR1
          arrived,                   \* history: how many bytes the line delivered
          stored, returned           \* history: kept by the handler, returned by getchar

txVars == <<txBuffer, txHead, txTail, udrie, accepted>>
lineVars == <<udre, sent>>
rxVars == <<rxBuffer, rxHead, stored>>
fifoVars == <<rxFifo, arrived>>
getVars == <<rxTail, returned, credit>>
mainVars == <<pc, i, c, head>>
vars == <<txVars, lineVars, rxVars, fifoVars, getVars, mainVars>>

Pc == {"idle", "put_wait", "put_store", "put_head", "put_enable",
       "get_wait", "get_read", "get_tail", "avail_head", "avail_tail"}

(***************************************************************************)
(* Ring arithmetic on uint8_t indices.                                     *)
(***************************************************************************)
\* Mutant: > for >= in the wrap.
MutAdvance(k, size) == LET n == (k + 1) % 256 IN IF n > size THEN 0 ELSE n

\* i = k + 1; if (i >= SIZE) i = 0;
Advance(k, size) == LET n == (k + 1) % 256 IN IF n >= size THEN 0 ELSE n

\* Mutant: > for >=, so that an empty ring counts as a full one.
MutAvailable(h, t) == IF h > t THEN (h - t) % 256 ELSE ((RxSize + h) - t) % 256

\* The value uart_available computes from a head and a tail it has read.
Available(h, t) == IF h >= t THEN (h - t) % 256 ELSE ((RxSize + h) - t) % 256

\* How many slots lie from tail (exclusive) to head (inclusive).
Used(h, t, size) == IF h >= t THEN h - t ELSE (size + h) - t

\* The d-th slot after tail.
Slot(t, d, size) == IF t + d >= size THEN (t + d) - size ELSE t + d

\* uart_init.
Init ==
  /\ txBuffer = [k \in 0..TxSize - 1 |-> 0] /\ txHead = 0 /\ txTail = 0
  /\ rxBuffer = [k \in 0..RxSize - 1 |-> 0] /\ rxHead = 0 /\ rxTail = 0
  /\ udrie = FALSE /\ udre = TRUE /\ rxFifo = <<>>
  /\ pc = "idle" /\ i = 0 /\ c = 0 /\ head = 0 /\ credit = 0
  /\ accepted = <<>> /\ sent = <<>> /\ arrived = 0
  /\ stored = <<>> /\ returned = <<>>

\* The end of a call: its locals are gone.
Return == pc' = "idle" /\ i' = 0 /\ c' = 0 /\ head' = 0

(***************************************************************************)
(* uart_putchar                                                            *)
(***************************************************************************)
PutCall ==
  /\ pc = "idle" /\ Len(accepted) < MaxTx
  /\ pc' = "put_wait" /\ c' \in Bytes /\ i' = Advance(txHead, TxSize)
  /\ UNCHANGED <<txVars, lineVars, rxVars, fifoVars, getVars, head>>

\* Mutant: putchar does not wait for space.
MutPutWait ==
  /\ pc = "put_wait"
  /\ pc' = "put_store"
  /\ UNCHANGED <<txVars, lineVars, rxVars, fifoVars, getVars, i, c, head>>

PutWait ==
  /\ pc = "put_wait" /\ txTail /= i
  /\ pc' = "put_store"
  /\ UNCHANGED <<txVars, lineVars, rxVars, fifoVars, getVars, i, c, head>>

PutStore ==
  /\ pc = "put_store"
  /\ txBuffer' = [txBuffer EXCEPT ![i] = c]
  /\ pc' = "put_head"
  /\ UNCHANGED <<txHead, txTail, udrie, accepted, lineVars, rxVars, fifoVars,
                 getVars, i, c, head>>

\* Mutant: the head is stored after the interrupt has been enabled.
MutPutHead ==
  /\ pc = "put_head"
  /\ txHead' = i /\ accepted' = Append(accepted, c)
  /\ Return
  /\ UNCHANGED <<txBuffer, txTail, udrie, lineVars, rxVars, fifoVars, getVars>>

PutHead ==
  /\ pc = "put_head"
  /\ txHead' = i /\ accepted' = Append(accepted, c)
  /\ pc' = "put_enable"
  /\ UNCHANGED <<txBuffer, txTail, udrie, lineVars, rxVars, fifoVars, getVars,
                 i, c, head>>

\* Mutant: the interrupt is left as the handler set it.
MutPutEnable ==
  /\ pc = "put_enable" /\ Return
  /\ UNCHANGED <<txVars, lineVars, rxVars, fifoVars, getVars>>

PutEnable ==
  /\ pc = "put_enable"
  /\ udrie' = TRUE /\ Return
  /\ UNCHANGED <<txBuffer, txHead, txTail, accepted, lineVars, rxVars,
                 fifoVars, getVars>>

(***************************************************************************)
(* uart_getchar                                                            *)
(***************************************************************************)
GetCall ==
  /\ pc = "idle"
  /\ pc' = "get_wait"
  /\ UNCHANGED <<txVars, lineVars, rxVars, fifoVars, getVars, i, c, head>>

GetWait ==
  /\ pc = "get_wait" /\ rxHead /= rxTail
  /\ i' = Advance(rxTail, RxSize) /\ pc' = "get_read"
  /\ UNCHANGED <<txVars, lineVars, rxVars, fifoVars, getVars, c, head>>

\* Mutant: the byte is read at the tail, not after it.
MutGetRead ==
  /\ pc = "get_read"
  /\ c' = rxBuffer[rxTail] /\ pc' = "get_tail"
  /\ UNCHANGED <<txVars, lineVars, rxVars, fifoVars, getVars, i, head>>

GetRead ==
  /\ pc = "get_read"
  /\ c' = rxBuffer[i] /\ pc' = "get_tail"
  /\ UNCHANGED <<txVars, lineVars, rxVars, fifoVars, getVars, i, head>>

GetTail ==
  /\ pc = "get_tail"
  /\ rxTail' = i /\ returned' = Append(returned, c)
  /\ credit' = IF credit > 0 THEN credit - 1 ELSE 0
  /\ Return
  /\ UNCHANGED <<txVars, lineVars, rxVars, fifoVars>>

(***************************************************************************)
(* uart_available reads the head and then the tail.                        *)
(***************************************************************************)
AvailCall ==
  /\ pc = "idle"
  /\ pc' = "avail_head"
  /\ UNCHANGED <<txVars, lineVars, rxVars, fifoVars, getVars, i, c, head>>

AvailHead ==
  /\ pc = "avail_head"
  /\ head' = rxHead /\ pc' = "avail_tail"
  /\ UNCHANGED <<txVars, lineVars, rxVars, fifoVars, getVars, i, c>>

AvailTail ==
  /\ pc = "avail_tail"
  /\ credit' = Available(head, rxTail) /\ Return
  /\ UNCHANGED <<txVars, lineVars, rxVars, fifoVars, rxTail, returned>>

(***************************************************************************)
(* ISR(USART1_UDRE_vect) and ISR(USART1_RX_vect), each atomic.             *)
(***************************************************************************)
UdreEmpty ==
  /\ udrie /\ udre /\ txHead = txTail
  /\ udrie' = FALSE
  /\ UNCHANGED <<txBuffer, txHead, txTail, accepted, lineVars, rxVars,
                 fifoVars, getVars, mainVars>>

\* Mutant: the handler disarms itself after every byte.
MutUdreSend ==
  /\ udrie /\ udre /\ txHead /= txTail
  /\ LET k == Advance(txTail, TxSize)
     IN sent' = Append(sent, txBuffer[k]) /\ txTail' = k
  /\ udre' = FALSE /\ udrie' = FALSE
  /\ UNCHANGED <<txBuffer, txHead, accepted, rxVars, fifoVars, getVars,
                 mainVars>>

UdreSend ==
  /\ udrie /\ udre /\ txHead /= txTail
  /\ LET k == Advance(txTail, TxSize)
     IN sent' = Append(sent, txBuffer[k]) /\ txTail' = k
  /\ udre' = FALSE
  /\ UNCHANGED <<txBuffer, txHead, udrie, accepted, rxVars, fifoVars, getVars,
                 mainVars>>

\* Mutant: the ring counts as full one byte early.
MutRxFull == Advance(Advance(rxHead, RxSize), RxSize) = rxTail

RxFull == Advance(rxHead, RxSize) = rxTail

RxStore ==
  /\ rxFifo /= <<>> /\ ~RxFull
  /\ LET k == Advance(rxHead, RxSize)
     IN rxBuffer' = [rxBuffer EXCEPT ![k] = Head(rxFifo)] /\ rxHead' = k
  /\ stored' = Append(stored, Head(rxFifo))
  /\ rxFifo' = Tail(rxFifo)
  /\ UNCHANGED <<txVars, lineVars, arrived, getVars, mainVars>>

RxDrop ==
  /\ rxFifo /= <<>> /\ RxFull
  /\ rxFifo' = Tail(rxFifo)
  /\ UNCHANGED <<txVars, lineVars, rxVars, arrived, getVars, mainVars>>

(***************************************************************************)
(* The USART: the data register empties, a byte arrives (and is lost when  *)
(* the FIFO is full: no handler looks at the overrun flag).                *)
(***************************************************************************)
Shift ==
  /\ ~udre /\ udre' = TRUE
  /\ UNCHANGED <<txVars, sent, rxVars, fifoVars, getVars, mainVars>>

Arrive ==
  /\ arrived < MaxRx /\ arrived' = arrived + 1
  /\ \E b \in Bytes :
       rxFifo' = IF Len(rxFifo) < 2 THEN Append(rxFifo, b) ELSE rxFifo
  /\ UNCHANGED <<txVars, lineVars, rxVars, getVars, mainVars>>

Put == PutWait \/ PutStore \/ PutHead \/ PutEnable
Get == GetWait \/ GetRead \/ GetTail
Avail == AvailHead \/ AvailTail
Call == PutCall \/ GetCall \/ AvailCall
UdreHandler == UdreEmpty \/ UdreSend
RxHandler == RxStore \/ RxDrop

Next == Call \/ Put \/ Get \/ Avail \/ UdreHandler \/ RxHandler \/ Shift \/ Arrive

\* The main thread finishes a call whose loop condition lets it; a pending
\* interrupt is taken; the data register empties.  Calls and arrivals are free.
Fairness == /\ WF_vars(Put) /\ WF_vars(Get) /\ WF_vars(Avail)
            /\ WF_vars(UdreHandler) /\ WF_vars(RxHandler) /\ WF_vars(Shift)

Spec == Init /\ [][Next]_vars
FairSpec == Spec /\ Fairness

-----------------------------------------------------------------------------
\* Every variable keeps its C type and its place in the rings.
TypeOK ==
  /\ txBuffer \in [0..TxSize - 1 -> Bytes] /\ txHead \in 0..TxSize - 1 /\ txTail \in 0..TxSize - 1
  /\ rxBuffer \in [0..RxSize - 1 -> Bytes] /\ rxHead \in 0..RxSize - 1 /\ rxTail \in 0..RxSize - 1
  /\ udrie \in BOOLEAN /\ udre \in BOOLEAN /\ rxFifo \in Seq(Bytes)
  /\ pc \in Pc /\ i \in Nat /\ c \in Bytes /\ head \in 0..RxSize - 1 /\ credit \in 0..255
  /\ accepted \in Seq(Bytes) /\ sent \in Seq(Bytes) /\ arrived \in 0..MaxRx
  /\ stored \in Seq(Bytes) /\ returned \in Seq(Bytes)

TxUsed == Used(txHead, txTail, TxSize)
RxUsed == Used(rxHead, rxTail, RxSize)

\* A waiting byte always has the transmit interrupt armed, except for the
\* instant between the store of tx_buffer_head and the write of UCSR1B: the
\* handler that found the buffer empty and disarmed itself is always re-armed.
TxArmed == txHead /= txTail /\ pc /= "put_enable" => udrie

\* What uart_available returned can be read by that many calls of uart_getchar
\* without waiting, whatever arrives or is dropped in between.
PromiseKept == credit <= RxUsed

\* The receive handler throws a byte away only when RxSize - 1 bytes wait.
DropOnlyWhenFull ==
  [][Len(rxFifo') < Len(rxFifo) /\ stored' = stored => RxUsed = RxSize - 1]_vars

\* Each direction is a first-in first-out queue of SIZE - 1 bytes: nothing the
\* two sides of a ring do in any order reorders, loses or repeats a byte.
TxFifo == INSTANCE ByteFifo
            WITH in <- accepted, out <- sent, Capacity <- TxSize - 1
RxQueue == INSTANCE ByteFifo
            WITH in <- stored, out <- returned, Capacity <- RxSize - 1
TxIsFifo == TxFifo!Spec
RxIsFifo == RxQueue!Spec

\* Every byte uart_putchar stored reaches the line.
TxDelivers ==
  \A n \in 1..MaxTx : Len(accepted) >= n ~> (Len(sent) >= n /\ udre)

\* uart_putchar does not wait for ever on a full buffer.
PutReturns == pc = "put_wait" ~> pc = "idle"
=============================================================================
