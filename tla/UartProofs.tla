----------------------------- MODULE UartProofs -----------------------------
(***************************************************************************)
(* Proofs about Uart for every pair of ring sizes from 2 to 256, which is  *)
(* what the comment over the size macros claims.                           *)
(***************************************************************************)
EXTENDS Uart, SequenceTheorems, TLAPS

-----------------------------------------------------------------------------
(* Ring arithmetic.                                                        *)

\* The uint8_t increment with its compare is the successor in the ring, at
\* size 256 too, where the byte itself wraps and the compare is never true.
LEMMA AdvanceIsSuccessor ==
  ASSUME NEW size \in 2..256, NEW k \in 0..size - 1
  PROVE  /\ Advance(k, size) = IF k + 1 = size THEN 0 ELSE k + 1
         /\ Advance(k, size) \in 0..size - 1
<1>1. CASE k = 255
  <2>1. size = 256 /\ (k + 1) % 256 = 0 BY <1>1, SMT
  <2> QED BY <2>1, <1>1, SMT DEF Advance
<1>2. CASE k < 255
  <2>1. (k + 1) % 256 = k + 1 BY <1>2, SMT
  <2> QED BY <2>1, <1>2, SMT DEF Advance
<1> QED BY <1>1, <1>2, SMT

LEMMA AdvanceIsInjective ==
  ASSUME NEW size \in 2..256, NEW j \in 0..size - 1, NEW k \in 0..size - 1,
         Advance(j, size) = Advance(k, size)
  PROVE  j = k
<1>1. Advance(j, size) = IF j + 1 = size THEN 0 ELSE j + 1
  BY AdvanceIsSuccessor
<1>2. Advance(k, size) = IF k + 1 = size THEN 0 ELSE k + 1
  BY AdvanceIsSuccessor
<1>3. (IF j + 1 = size THEN 0 ELSE j + 1) = (IF k + 1 = size THEN 0 ELSE k + 1)
  BY <1>1, <1>2, Zenon
<1> QED BY ONLY <1>3, size \in 2..256, j \in 0..size - 1, k \in 0..size - 1, SMT

\* What uart_available computes is the number of used slots.
LEMMA AvailableIsUsed ==
  ASSUME NEW h \in 0..RxSize - 1, NEW t \in 0..RxSize - 1
  PROVE  /\ Available(h, t) = Used(h, t, RxSize)
         /\ Available(h, t) \in 0..RxSize - 1
         /\ Available(h, t) \in 0..255
<1>0. RxSize \in 2..256 BY SizeAssumption
<1>1. CASE h >= t
  <2>1. (h - t) \in 0..255 BY <1>0, <1>1, SMT
  <2>2. (h - t) % 256 = h - t BY <2>1, SMT
  <2> QED BY <1>0, <1>1, <2>2, SMT DEF Available, Used
<1>2. CASE ~(h >= t)
  <2>1. ((RxSize + h) - t) \in 0..255 BY <1>0, <1>2, SMT
  <2>2. ((RxSize + h) - t) % 256 = (RxSize + h) - t BY <2>1, SMT
  <2> QED BY <1>0, <1>2, <2>2, SMT DEF Available, Used
<1> QED BY <1>1, <1>2

LEMMA UsedRange ==
  ASSUME NEW size \in 2..256, NEW h \in 0..size - 1, NEW t \in 0..size - 1
  PROVE  Used(h, t, size) \in 0..size - 1 /\ (Used(h, t, size) = 0 <=> h = t)
BY SMT DEF Used

\* Moving the head of a ring that is not full uses one more slot, the one
\* after the used ones, which is none of them.
LEMMA HeadMoves ==
  ASSUME NEW size \in 2..256, NEW h \in 0..size - 1, NEW t \in 0..size - 1,
         Advance(h, size) /= t
  PROVE  /\ Used(Advance(h, size), t, size) = Used(h, t, size) + 1
         /\ Used(h, t, size) < size - 1
         /\ Slot(t, Used(h, t, size) + 1, size) = Advance(h, size)
         /\ \A d \in 1..Used(h, t, size) : /\ Slot(t, d, size) \in 0..size - 1
                                           /\ Slot(t, d, size) /= Advance(h, size)
<1>1. Advance(h, size) = IF h + 1 = size THEN 0 ELSE h + 1
  BY AdvanceIsSuccessor
<1>2. CASE h >= t BY <1>1, <1>2, SMT DEF Used, Slot
<1>3. CASE h < t BY <1>1, <1>3, SMT DEF Used, Slot
<1> QED BY <1>2, <1>3, SMT

\* Moving the tail of a ring that is not empty frees the first used slot.
LEMMA TailMoves ==
  ASSUME NEW size \in 2..256, NEW h \in 0..size - 1, NEW t \in 0..size - 1,
         h /= t
  PROVE  /\ Used(h, Advance(t, size), size) = Used(h, t, size) - 1
         /\ Slot(t, 1, size) = Advance(t, size)
         /\ \A d \in 1..Used(h, t, size) - 1 :
               Slot(Advance(t, size), d, size) = Slot(t, d + 1, size)
<1>1. Advance(t, size) = IF t + 1 = size THEN 0 ELSE t + 1
  BY AdvanceIsSuccessor
<1>2. CASE h > t BY <1>1, <1>2, SMT DEF Used, Slot
<1>3. CASE h < t BY <1>1, <1>3, SMT DEF Used, Slot
<1> QED BY <1>2, <1>3, SMT

-----------------------------------------------------------------------------
(* A ring that holds the part of a queue that has come in and not gone out. *)

Holds(buf, h, t, size, in, out) ==
  /\ Len(in) - Len(out) = Used(h, t, size)
  /\ \A d \in 1..Used(h, t, size) : buf[Slot(t, d, size)] = in[Len(out) + d]

LEMMA AppendFacts ==
  ASSUME NEW S, NEW s \in Seq(S), NEW b \in S
  PROVE  /\ Append(s, b) \in Seq(S)
         /\ Len(Append(s, b)) = Len(s) + 1
         /\ Len(s) \in Nat
         /\ \A k \in 1..Len(s) : Append(s, b)[k] = s[k]
         /\ Append(s, b)[Len(s) + 1] = b
BY SMT

LEMMA RingStore ==
  ASSUME NEW size \in 2..256, NEW h \in 0..size - 1, NEW t \in 0..size - 1,
         NEW S, NEW buf \in [0..size - 1 -> S], NEW b \in S, NEW in, NEW out,
         Advance(h, size) /= t, Holds(buf, h, t, size, in, out)
  PROVE  Holds([buf EXCEPT ![Advance(h, size)] = b], h, t, size, in, out)
<1>1. \A d \in 1..Used(h, t, size) :
         /\ Slot(t, d, size) \in 0..size - 1
         /\ Slot(t, d, size) /= Advance(h, size)
  BY HeadMoves
<1> QED BY <1>1 DEF Holds

LEMMA RingPush ==
  ASSUME NEW size \in 2..256, NEW h \in 0..size - 1, NEW t \in 0..size - 1,
         NEW S, NEW buf \in [0..size - 1 -> S], NEW b \in S,
         NEW in \in Seq(S), NEW out \in Seq(S),
         Advance(h, size) /= t, Holds(buf, h, t, size, in, out),
         buf[Advance(h, size)] = b
  PROVE  Holds(buf, Advance(h, size), t, size, Append(in, b), out)
<1> DEFINE n == Used(h, t, size)
<1>1. /\ Used(Advance(h, size), t, size) = n + 1
      /\ Slot(t, n + 1, size) = Advance(h, size)
  BY HeadMoves
<1>2. n \in 0..size - 1 BY UsedRange
<1>3. Len(in) - Len(out) = n /\ Len(in) \in Nat /\ Len(out) \in Nat
  BY LenProperties DEF Holds
<1>4. Len(Append(in, b)) = Len(in) + 1 BY AppendFacts
<1>5. ASSUME NEW d \in 1..n + 1
      PROVE  buf[Slot(t, d, size)] = Append(in, b)[Len(out) + d]
  <2>1. CASE d = n + 1
    <3>1. Len(out) + d = Len(in) + 1 BY <1>2, <1>3, <2>1, SMT
    <3> QED BY <3>1, <2>1, <1>1, AppendFacts
  <2>2. CASE d /= n + 1
    <3>1. d \in 1..n /\ Len(out) + d \in 1..Len(in) BY <1>2, <1>3, <2>2, SMT
    <3>2. Append(in, b)[Len(out) + d] = in[Len(out) + d] BY <3>1, AppendFacts
    <3> QED BY <3>1, <3>2 DEF Holds
  <2> QED BY <2>1, <2>2
<1>6. Len(Append(in, b)) - Len(out) = n + 1 BY <1>2, <1>3, <1>4, SMT
<1> HIDE DEF n
<1> QED BY <1>1, <1>5, <1>6 DEF Holds

LEMMA RingPop ==
  ASSUME NEW size \in 2..256, NEW h \in 0..size - 1, NEW t \in 0..size - 1,
         NEW S, NEW buf \in [0..size - 1 -> S],
         NEW in \in Seq(S), NEW out \in Seq(S),
         h /= t, Holds(buf, h, t, size, in, out)
  PROVE  Holds(buf, h, Advance(t, size), size, in,
               Append(out, buf[Advance(t, size)]))
<1> DEFINE n == Used(h, t, size)
           b == buf[Advance(t, size)]
<1>1. /\ Used(h, Advance(t, size), size) = n - 1
      /\ Slot(t, 1, size) = Advance(t, size)
      /\ \A d \in 1..n - 1 : Slot(Advance(t, size), d, size) = Slot(t, d + 1, size)
  BY TailMoves
<1>2. n \in 1..size - 1
  <2>1. n \in 0..size - 1 /\ n /= 0 BY UsedRange
  <2> QED BY <2>1, SMT
<1>3. Len(in) - Len(out) = n /\ Len(in) \in Nat /\ Len(out) \in Nat
  BY LenProperties DEF Holds
<1>4. b \in S BY AdvanceIsSuccessor
<1>5. Len(Append(out, b)) = Len(out) + 1 BY <1>4, AppendFacts
<1>7. ASSUME NEW d \in 1..n - 1
      PROVE  buf[Slot(Advance(t, size), d, size)] = in[Len(Append(out, b)) + d]
  <2>1. d + 1 \in 1..n BY <1>2, SMT
  <2>2. buf[Slot(t, d + 1, size)] = in[Len(out) + (d + 1)] BY <2>1 DEF Holds
  <2>3. Len(Append(out, b)) + d = Len(out) + (d + 1) BY <1>3, <1>5, SMT
  <2> QED BY <1>1, <2>2, <2>3
<1>8. Len(in) - Len(Append(out, b)) = n - 1 BY <1>2, <1>3, <1>5, SMT
<1>9. Holds(buf, h, Advance(t, size), size, in, Append(out, b))
  <2> HIDE DEF n, b
  <2> QED BY <1>1, <1>7, <1>8 DEF Holds
<1> QED BY <1>9

-----------------------------------------------------------------------------
(* The inductive invariant.                                                *)

\* What the main thread's locals mean while it is inside a call.
PutOK ==
  /\ pc \in {"put_wait", "put_store", "put_head"} => i = Advance(txHead, TxSize)
  /\ pc \in {"put_store", "put_head"} => txTail /= i
  /\ pc = "put_head" => txBuffer[i] = c
GetOK ==
  /\ pc \in {"get_read", "get_tail"} => i = Advance(rxTail, RxSize) /\ rxHead /= rxTail
  /\ pc = "get_tail" => c = rxBuffer[i]
AvailOK == pc = "avail_tail" => Used(head, rxTail, RxSize) <= RxUsed
MainOK == PutOK /\ GetOK /\ AvailOK

TxHolds == Holds(txBuffer, txHead, txTail, TxSize, accepted, sent)
RxHolds == Holds(rxBuffer, rxHead, rxTail, RxSize, stored, returned)

IInv == TypeOK /\ MainOK /\ TxHolds /\ RxHolds /\ TxArmed /\ PromiseKept

LEMMA InitIInv == Init => IInv
<1> SUFFICES ASSUME Init PROVE IInv OBVIOUS
<1> USE SizeAssumption, BytesAssumption, BoundAssumption
<1>1. TypeOK
  <2>1. /\ 0 \in 0..TxSize - 1 /\ 0 \in 0..RxSize - 1 /\ 0 \in 0..MaxRx
        /\ 0 \in 0..255 /\ 0 \in Nat
    BY SMT
  <2>2. <<>> \in Seq(Bytes) OBVIOUS
  <2> QED BY <2>1, <2>2 DEF Init, TypeOK, Pc
<1>2. MainOK /\ TxArmed BY DEF Init, MainOK, PutOK, GetOK, AvailOK, TxArmed
<1>3. TxHolds BY SMT DEF Init, TxHolds, Holds, Used
<1>4. RxHolds BY SMT DEF Init, RxHolds, Holds, Used
<1>5. PromiseKept BY SMT DEF Init, PromiseKept, RxUsed, Used
<1> QED BY <1>1, <1>2, <1>3, <1>4, <1>5 DEF IInv

LEMMA NextTypeOK == IInv /\ [Next]_vars => TypeOK'
<1> SUFFICES ASSUME IInv, [Next]_vars PROVE TypeOK' OBVIOUS
<1> USE SizeAssumption, BytesAssumption, BoundAssumption
<1>0. /\ TypeOK
      /\ TxSize \in 2..256 /\ RxSize \in 2..256
      /\ Advance(txHead, TxSize) \in 0..TxSize - 1
      /\ Advance(txTail, TxSize) \in 0..TxSize - 1
      /\ Advance(rxHead, RxSize) \in 0..RxSize - 1
      /\ Advance(rxTail, RxSize) \in 0..RxSize - 1
  BY AdvanceIsSuccessor DEF IInv, TypeOK
<1> USE <1>0 DEF TypeOK, txVars, lineVars, rxVars, fifoVars, getVars, mainVars, Pc
<1>1. CASE PutCall
  <2>1. i' \in Nat
    <3>1. i' = Advance(txHead, TxSize) BY <1>1, Zenon DEF PutCall
    <3> QED BY ONLY <3>1, <1>0, SMT
  <2> QED BY <2>1, <1>1, Zenon DEF PutCall
<1>2. CASE PutWait BY <1>2, Zenon DEF PutWait
<1>3. CASE PutStore
  <2>1. i \in 0..TxSize - 1 BY <1>3, Zenon DEF PutStore, IInv, MainOK, PutOK
  <2>2. txBuffer' \in [0..TxSize - 1 -> Bytes] BY <2>1, <1>3, Zenon DEF PutStore
  <2> QED BY <2>2, <1>3, Zenon DEF PutStore
<1>4. CASE PutHead
  <2>1. i \in 0..TxSize - 1 BY <1>4, Zenon DEF PutHead, IInv, MainOK, PutOK
  <2>2. accepted' \in Seq(Bytes) BY <1>4, AppendFacts DEF PutHead
  <2> QED BY <2>1, <2>2, <1>4, Zenon DEF PutHead
<1>5. CASE PutEnable
  <2>1. 0 \in Nat /\ 0 \in 0..RxSize - 1 BY ONLY <1>0, SMT
  <2> QED BY <2>1, <1>5, Zenon DEF PutEnable, Return
<1>6. CASE GetCall BY <1>6, Zenon DEF GetCall
<1>7. CASE GetWait
  <2>1. i' \in Nat
    <3>1. i' = Advance(rxTail, RxSize) BY <1>7, Zenon DEF GetWait
    <3> QED BY ONLY <3>1, <1>0, SMT
  <2> QED BY <2>1, <1>7, Zenon DEF GetWait
<1>8. CASE GetRead
  <2>1. i \in 0..RxSize - 1 BY <1>8, Zenon DEF GetRead, IInv, MainOK, GetOK
  <2>2. c' \in Bytes BY <2>1, <1>8, Zenon DEF GetRead
  <2> QED BY <2>2, <1>8, Zenon DEF GetRead
<1>9. CASE GetTail
  <2>1. i \in 0..RxSize - 1 BY <1>9, Zenon DEF GetTail, IInv, MainOK, GetOK
  <2>2. returned' \in Seq(Bytes) BY <1>9, AppendFacts DEF GetTail
  <2>3. credit' \in 0..255
    <3>1. credit \in 0..255 /\ credit' = IF credit > 0 THEN credit - 1 ELSE 0
      BY <1>9, Zenon DEF GetTail
    <3> QED BY ONLY <3>1, SMT
  <2>4. 0 \in Nat /\ 0 \in 0..RxSize - 1 BY ONLY <1>0, SMT
  <2> QED BY <2>1, <2>2, <2>3, <2>4, <1>9, Zenon DEF GetTail, Return
<1>10. CASE AvailCall BY <1>10, Zenon DEF AvailCall
<1>11. CASE AvailHead BY <1>11, Zenon DEF AvailHead
<1>12. CASE AvailTail
  <2>2. Available(head, rxTail) \in 0..255 BY AvailableIsUsed
  <2>3. 0 \in Nat /\ 0 \in 0..RxSize - 1 BY ONLY <1>0, SMT
  <2> QED BY <2>2, <2>3, <1>12, Zenon DEF AvailTail, Return
<1>13. CASE UdreEmpty BY <1>13, Zenon DEF UdreEmpty
<1>14. CASE UdreSend
  <2>1. sent' \in Seq(Bytes) BY <1>14, AppendFacts DEF UdreSend
  <2> QED BY <2>1, <1>14, Zenon DEF UdreSend
<1>15. CASE RxStore
  <2>1. Head(rxFifo) \in Bytes /\ Tail(rxFifo) \in Seq(Bytes)
    BY <1>15, HeadTailProperties DEF RxStore
  <2>2. stored' \in Seq(Bytes) /\ rxFifo' \in Seq(Bytes)
    BY <2>1, <1>15, AppendFacts DEF RxStore
  <2>3. rxBuffer' \in [0..RxSize - 1 -> Bytes] /\ rxHead' \in 0..RxSize - 1
    BY <2>1, <1>15, Zenon DEF RxStore
  <2> QED BY <2>2, <2>3, <1>15, Zenon DEF RxStore
<1>16. CASE RxDrop
  <2>1. Tail(rxFifo) \in Seq(Bytes) BY <1>16, HeadTailProperties DEF RxDrop
  <2> QED BY <2>1, <1>16, Zenon DEF RxDrop
<1>17. CASE Shift BY <1>17, Zenon DEF Shift
<1>18. CASE Arrive
  <2>1. rxFifo' \in Seq(Bytes) BY <1>18, AppendFacts DEF Arrive
  <2>2. arrived' \in 0..MaxRx
    <3>1. arrived \in 0..MaxRx /\ arrived < MaxRx /\ arrived' = arrived + 1
      BY <1>18, Zenon DEF Arrive
    <3> QED BY ONLY <3>1, BoundAssumption, SMT
  <2> QED BY <2>1, <2>2, <1>18, Zenon DEF Arrive
<1>19. CASE UNCHANGED vars BY <1>19, Zenon DEF vars
<1> QED BY <1>1, <1>2, <1>3, <1>4, <1>5, <1>6, <1>7, <1>8, <1>9, <1>10, <1>11,
           <1>12, <1>13, <1>14, <1>15, <1>16, <1>17, <1>18, <1>19
        DEF Next, Call, Put, Get, Avail, UdreHandler, RxHandler

\* The transmit ring: the main thread owns the head, the handler the tail.
LEMMA NextTx ==
  IInv /\ [Next]_vars => TxHolds' /\ TxArmed'
<1> SUFFICES ASSUME IInv, [Next]_vars PROVE TxHolds' /\ TxArmed' OBVIOUS
<1>0. /\ TypeOK /\ MainOK /\ TxHolds /\ TxArmed
      /\ TxSize \in 2..256
      /\ txHead \in 0..TxSize - 1 /\ txTail \in 0..TxSize - 1
      /\ txBuffer \in [0..TxSize - 1 -> Bytes]
      /\ accepted \in Seq(Bytes) /\ sent \in Seq(Bytes)
      /\ c \in Bytes
  BY SizeAssumption DEF IInv, TypeOK
<1> USE <1>0
<1>1. CASE PutStore
  <2>1. i = Advance(txHead, TxSize) /\ i /= txTail BY <1>1 DEF PutStore, MainOK, PutOK
  <2>2. TxHolds' BY <2>1, <1>1, RingStore DEF PutStore, TxHolds, lineVars
  <2>3. TxArmed' BY <1>1 DEF PutStore, TxArmed
  <2> QED BY <2>2, <2>3
<1>2. CASE PutHead
  <2>1. i = Advance(txHead, TxSize) /\ i /= txTail /\ txBuffer[i] = c
    BY <1>2 DEF PutHead, MainOK, PutOK
  <2>2. TxHolds' BY <2>1, <1>2, RingPush DEF PutHead, TxHolds, lineVars
  <2>3. TxArmed' BY <1>2 DEF PutHead, TxArmed
  <2> QED BY <2>2, <2>3
<1>3. CASE PutEnable
  BY <1>3 DEF PutEnable, Return, TxHolds, TxArmed, lineVars
<1>4. CASE UdreEmpty
  BY <1>4 DEF UdreEmpty, TxHolds, TxArmed, lineVars, mainVars
<1>5. CASE UdreSend
  <2>1. TxHolds' BY <1>5, RingPop DEF UdreSend, TxHolds
  <2>2. TxArmed' BY <1>5 DEF UdreSend, TxArmed
  <2> QED BY <2>1, <2>2
<1>6. ASSUME UNCHANGED <<txVars, sent>>, pc /= "put_enable" \/ pc' = "put_enable"
      PROVE  TxHolds' /\ TxArmed'
  BY <1>6 DEF TxHolds, TxArmed, txVars
<1>7. CASE \/ PutCall \/ PutWait \/ GetCall \/ GetWait \/ GetRead \/ GetTail
           \/ AvailCall \/ AvailHead \/ AvailTail \/ RxStore \/ RxDrop
           \/ Shift \/ Arrive \/ UNCHANGED vars
  BY <1>6, <1>7 DEF PutCall, PutWait, GetCall, GetWait, GetRead, GetTail,
     AvailCall, AvailHead, AvailTail, RxStore, RxDrop, Shift, Arrive, Return,
     vars, lineVars, mainVars
<1> QED BY <1>1, <1>2, <1>3, <1>4, <1>5, <1>7
        DEF Next, Call, Put, Get, Avail, UdreHandler, RxHandler

\* The receive ring: the handler owns the head, the main thread the tail.
LEMMA NextRx == IInv /\ [Next]_vars => RxHolds'
<1> SUFFICES ASSUME IInv, [Next]_vars PROVE RxHolds' OBVIOUS
<1>0. /\ TypeOK /\ MainOK /\ RxHolds
      /\ RxSize \in 2..256
      /\ rxHead \in 0..RxSize - 1 /\ rxTail \in 0..RxSize - 1
      /\ rxBuffer \in [0..RxSize - 1 -> Bytes]
      /\ stored \in Seq(Bytes) /\ returned \in Seq(Bytes)
      /\ Advance(rxHead, RxSize) \in 0..RxSize - 1
  BY SizeAssumption, AdvanceIsSuccessor DEF IInv, TypeOK
<1> USE <1>0
<1>1. CASE RxStore
  <2> DEFINE k == Advance(rxHead, RxSize)
             buf == [rxBuffer EXCEPT ![k] = Head(rxFifo)]
  <2>1. k /= rxTail /\ Head(rxFifo) \in Bytes
    BY <1>1, HeadTailProperties DEF RxStore, RxFull, TypeOK
  <2>2. Holds(buf, rxHead, rxTail, RxSize, stored, returned)
    BY <2>1, RingStore DEF RxHolds
  <2>3. buf \in [0..RxSize - 1 -> Bytes] /\ buf[k] = Head(rxFifo) BY <2>1
  <2>4. Holds(buf, k, rxTail, RxSize, Append(stored, Head(rxFifo)), returned)
    <3> HIDE DEF buf
    <3> QED BY <2>1, <2>2, <2>3, RingPush
  <2> QED BY <2>4, <1>1 DEF RxStore, RxHolds, getVars
<1>2. CASE GetTail
  <2>1. /\ i = Advance(rxTail, RxSize) /\ rxHead /= rxTail /\ c = rxBuffer[i]
    BY <1>2 DEF GetTail, MainOK, GetOK
  <2> QED BY <2>1, <1>2, RingPop DEF GetTail, RxHolds, rxVars
<1>3. ASSUME UNCHANGED <<rxVars, rxTail, returned>> PROVE RxHolds'
  BY <1>3 DEF RxHolds, rxVars
<1>4. CASE \/ PutCall \/ PutWait \/ PutStore \/ PutHead \/ PutEnable \/ GetCall
           \/ GetWait \/ GetRead \/ AvailCall \/ AvailHead \/ AvailTail
           \/ UdreEmpty \/ UdreSend \/ RxDrop \/ Shift \/ Arrive
           \/ UNCHANGED vars
  BY <1>3, <1>4 DEF PutCall, PutWait, PutStore, PutHead, PutEnable, GetCall,
     GetWait, GetRead, AvailCall, AvailHead, AvailTail, UdreEmpty, UdreSend,
     RxDrop, Shift, Arrive, vars, getVars
<1> QED BY <1>1, <1>2, <1>4
        DEF Next, Call, Put, Get, Avail, UdreHandler, RxHandler

\* What uart_putchar knows stays true while the handler moves the tail.
LEMMA NextPut == IInv /\ [Next]_vars => PutOK'
<1> SUFFICES ASSUME IInv, [Next]_vars PROVE PutOK' OBVIOUS
<1>0. /\ PutOK
      /\ TxSize \in 2..256
      /\ txHead \in 0..TxSize - 1 /\ txTail \in 0..TxSize - 1
      /\ txBuffer \in [0..TxSize - 1 -> Bytes]
      /\ Advance(txHead, TxSize) \in 0..TxSize - 1
  BY SizeAssumption, AdvanceIsSuccessor DEF IInv, MainOK, TypeOK
<1> USE <1>0
<1>1. CASE PutCall BY <1>1 DEF PutCall, PutOK, txVars
<1>2. CASE PutWait BY <1>2 DEF PutWait, PutOK, txVars
<1>3. CASE PutStore BY <1>3 DEF PutStore, PutOK
<1>4. CASE UdreSend
  <2>1. ASSUME pc \in {"put_store", "put_head"} PROVE txTail' /= i
    <3>1. i = Advance(txHead, TxSize) /\ txTail' = Advance(txTail, TxSize)
          /\ txHead /= txTail
      BY <1>4, <2>1 DEF UdreSend, PutOK
    <3> QED BY <3>1, AdvanceIsInjective
  <2> QED BY <1>4, <2>1 DEF UdreSend, PutOK, mainVars
<1>5. ASSUME pc' \notin {"put_wait", "put_store", "put_head"} PROVE PutOK'
  BY <1>5 DEF PutOK
<1>6. CASE \/ PutHead \/ PutEnable \/ GetCall \/ GetWait \/ GetRead \/ GetTail
           \/ AvailCall \/ AvailHead \/ AvailTail
  <2>1. pc' \notin {"put_wait", "put_store", "put_head"}
    BY <1>6 DEF PutHead, PutEnable, GetCall, GetWait, GetRead, GetTail,
       AvailCall, AvailHead, AvailTail, Return
  <2> QED BY <1>5, <2>1
<1>7. CASE UdreEmpty \/ RxStore \/ RxDrop \/ Shift \/ Arrive \/ UNCHANGED vars
  BY <1>7 DEF UdreEmpty, RxStore, RxDrop, Shift, Arrive, vars, txVars,
     mainVars, PutOK
<1> QED BY <1>1, <1>2, <1>3, <1>4, <1>6, <1>7
        DEF Next, Call, Put, Get, Avail, UdreHandler, RxHandler

\* What uart_getchar and uart_available know stays true while the handler
\* moves the head, and what uart_available promised is still there.
LEMMA NextGet == IInv /\ [Next]_vars => GetOK' /\ AvailOK' /\ PromiseKept'
<1> SUFFICES ASSUME IInv, [Next]_vars
             PROVE  GetOK' /\ AvailOK' /\ PromiseKept'
  OBVIOUS
<1>0. /\ GetOK /\ AvailOK /\ PromiseKept
      /\ RxSize \in 2..256
      /\ rxHead \in 0..RxSize - 1 /\ rxTail \in 0..RxSize - 1
      /\ head \in 0..RxSize - 1
      /\ rxBuffer \in [0..RxSize - 1 -> Bytes]
      /\ Advance(rxHead, RxSize) \in 0..RxSize - 1
      /\ Advance(rxTail, RxSize) \in 0..RxSize - 1
  BY SizeAssumption, AdvanceIsSuccessor DEF IInv, MainOK, TypeOK
<1>u. RxUsed \in Int /\ credit \in Int
  <2>1. RxUsed \in 0..RxSize - 1 BY <1>0, UsedRange DEF RxUsed
  <2>2. credit \in 0..255 BY DEF IInv, TypeOK
  <2> QED BY ONLY <2>1, <2>2, SMT
<1> USE <1>0
<1>1. CASE GetWait BY <1>1 DEF GetWait, GetOK, AvailOK, PromiseKept, RxUsed, rxVars, getVars
<1>2. CASE GetRead BY <1>2 DEF GetRead, GetOK, AvailOK, PromiseKept, RxUsed, rxVars, getVars
<1>3. CASE GetTail
  <2>1. rxHead /= rxTail /\ rxTail' = Advance(rxTail, RxSize) /\ rxHead' = rxHead
        /\ pc' = "idle"
    BY <1>3 DEF GetTail, GetOK, Return, rxVars
  <2>2. RxUsed' = RxUsed - 1 BY <2>1, TailMoves DEF RxUsed
  <2>3. RxUsed \in 0..RxSize - 1 /\ RxUsed /= 0 BY <2>1, UsedRange DEF RxUsed
  <2>4. credit' = IF credit > 0 THEN credit - 1 ELSE 0 BY <1>3 DEF GetTail
  <2>5. PromiseKept' BY <2>2, <2>3, <2>4, <1>u, SMT DEF PromiseKept
  <2> QED BY <2>1, <2>5 DEF GetOK, AvailOK
<1>4. CASE AvailHead
  <2>1. Used(head', rxTail', RxSize) = RxUsed' /\ pc' = "avail_tail"
        /\ RxUsed' = RxUsed /\ credit' = credit
    BY <1>4 DEF AvailHead, RxUsed, rxVars, getVars
  <2> QED BY <2>1, <1>u, SMT DEF GetOK, AvailOK, PromiseKept
<1>5. CASE AvailTail
  <2>1. credit' = Available(head, rxTail) /\ pc = "avail_tail" /\ pc' = "idle"
        /\ rxHead' = rxHead /\ rxTail' = rxTail
    BY <1>5 DEF AvailTail, Return, rxVars
  <2>2. credit' = Used(head, rxTail, RxSize) BY <2>1, AvailableIsUsed
  <2> QED BY <2>1, <2>2 DEF GetOK, AvailOK, PromiseKept, RxUsed
<1>6. CASE RxStore
  <2>1. /\ rxHead' = Advance(rxHead, RxSize) /\ rxHead' /= rxTail
        /\ rxBuffer' = [rxBuffer EXCEPT ![rxHead'] = Head(rxFifo)]
        /\ UNCHANGED <<pc, i, c, head, rxTail, credit>>
    BY <1>6 DEF RxStore, RxFull, mainVars, getVars
  <2>2. RxUsed' = RxUsed + 1 BY <2>1, HeadMoves DEF RxUsed
  <2>3. Used(head, rxTail, RxSize) \in 0..RxSize - 1 BY UsedRange
  <2>4. AvailOK' /\ PromiseKept'
    <3>1. Used(head, rxTail, RxSize)' = Used(head, rxTail, RxSize) BY <2>1
    <3> QED BY <3>1, <2>1, <2>2, <2>3, <1>u, SMT DEF AvailOK, PromiseKept
  <2>5. GetOK'
    <3>1. ASSUME pc \in {"get_read", "get_tail"}
          PROVE  i = Advance(rxTail, RxSize) /\ i /= rxHead'
      BY <3>1, <2>1, AdvanceIsInjective DEF GetOK
    <3> QED BY <3>1, <2>1 DEF GetOK
  <2> QED BY <2>4, <2>5
<1>7. ASSUME UNCHANGED <<rxBuffer, rxHead, rxTail, credit>>,
             pc' \notin {"get_read", "get_tail", "avail_tail"}
      PROVE  GetOK' /\ AvailOK' /\ PromiseKept'
  BY <1>7 DEF GetOK, AvailOK, PromiseKept, RxUsed
<1>8. CASE \/ PutCall \/ PutWait \/ PutStore \/ PutHead \/ PutEnable \/ GetCall
           \/ AvailCall
  BY <1>7, <1>8 DEF PutCall, PutWait, PutStore, PutHead, PutEnable, GetCall,
     AvailCall, Return, rxVars, getVars
<1>9. CASE UdreEmpty \/ UdreSend \/ RxDrop \/ Shift \/ Arrive \/ UNCHANGED vars
  BY <1>9 DEF UdreEmpty, UdreSend, RxDrop, Shift, Arrive, vars, rxVars, getVars,
     mainVars, GetOK, AvailOK, PromiseKept, RxUsed
<1> QED BY <1>1, <1>2, <1>3, <1>4, <1>5, <1>6, <1>8, <1>9
        DEF Next, Call, Put, Get, Avail, UdreHandler, RxHandler

LEMMA NextIInv == IInv /\ [Next]_vars => IInv'
BY NextTypeOK, NextTx, NextRx, NextPut, NextGet DEF IInv, MainOK

-----------------------------------------------------------------------------
\* The inductive invariant holds in every reachable state.
THEOREM Invariance == Spec => []IInv
BY InitIInv, NextIInv, PTL DEF Spec

\* Every variable keeps its C type and its index inside its ring.
THEOREM TypeCorrect == Spec => []TypeOK
<1>1. IInv => TypeOK BY DEF IInv
<1> QED BY <1>1, Invariance, PTL

\* No byte is ever left waiting with the transmit interrupt disarmed.
THEOREM NeverDisarmed == Spec => []TxArmed
<1>1. IInv => TxArmed BY DEF IInv
<1> QED BY <1>1, Invariance, PTL

\* What uart_available counted can be read without waiting.
THEOREM PromisesAreKept == Spec => []PromiseKept
<1>1. IInv => PromiseKept BY DEF IInv
<1> QED BY <1>1, Invariance, PTL

\* The receive handler drops a byte only when RxSize - 1 bytes wait.
THEOREM DropsOnlyWhenFull == Spec => DropOnlyWhenFull
<1>1. ASSUME IInv, [Next]_vars, Len(rxFifo') < Len(rxFifo), stored' = stored
      PROVE  RxUsed = RxSize - 1
  <2>0. /\ RxSize \in 2..256
        /\ rxHead \in 0..RxSize - 1 /\ rxTail \in 0..RxSize - 1
        /\ rxFifo \in Seq(Bytes) /\ stored \in Seq(Bytes)
    BY <1>1, SizeAssumption DEF IInv, TypeOK
  <2>1. CASE RxDrop
    <3>1. Advance(rxHead, RxSize) = rxTail BY <2>1 DEF RxDrop, RxFull
    <3>2. rxTail = IF rxHead + 1 = RxSize THEN 0 ELSE rxHead + 1
      BY <2>0, <3>1, AdvanceIsSuccessor
    <3> QED BY <2>0, <3>2, SMT DEF RxUsed, Used
  <2>2. CASE RxStore
    <3>1. Head(rxFifo) \in Bytes BY <2>0, <2>2, HeadTailProperties DEF RxStore
    <3>2. Len(stored') = Len(stored) + 1 BY <2>0, <3>1, <2>2, AppendFacts DEF RxStore
    <3>3. Len(stored) \in Nat BY <2>0, LenProperties
    <3> QED BY <3>2, <3>3, <1>1, SMT
  <2>3. CASE Arrive
    <3>1. PICK b \in Bytes :
             rxFifo' = IF Len(rxFifo) < 2 THEN Append(rxFifo, b) ELSE rxFifo
      BY <2>3 DEF Arrive
    <3>2. Len(Append(rxFifo, b)) = Len(rxFifo) + 1 /\ Len(rxFifo) \in Nat
      BY <2>0, AppendFacts
    <3> QED BY <3>1, <3>2, <1>1, SMT
  <2>4. CASE UNCHANGED rxFifo
    <3>1. Len(rxFifo) \in Nat BY <2>0, LenProperties
    <3> QED BY <2>4, <3>1, <1>1, SMT
  <2>5. CASE \/ Call \/ Put \/ Get \/ Avail \/ UdreHandler \/ Shift \/ UNCHANGED vars
    BY <2>4, <2>5 DEF Call, Put, Get, Avail, UdreHandler, PutCall, PutWait,
       PutStore, PutHead, PutEnable, GetCall, GetWait, GetRead, GetTail,
       AvailCall, AvailHead, AvailTail, UdreEmpty, UdreSend, Shift, vars,
       fifoVars
  <2> QED BY <1>1, <2>1, <2>2, <2>3, <2>5 DEF Next, RxHandler
<1>2. IInv /\ [Next]_vars =>
        [Len(rxFifo') < Len(rxFifo) /\ stored' = stored => RxUsed = RxSize - 1]_vars
  BY <1>1
<1> QED BY <1>2, Invariance, PTL DEF Spec, DropOnlyWhenFull

-----------------------------------------------------------------------------
(* Each direction implements ByteFifo.                                     *)

\* Bytes reach the data register in the order uart_putchar stored them, each
\* once, and never more than TxSize - 1 of them wait.
THEOREM TxRefinesFifo == Spec => TxIsFifo
<1>1. Init => TxFifo!Init BY DEF Init, TxFifo!Init
<1>2. ASSUME IInv, [Next]_vars PROVE [TxFifo!Next]_<<accepted, sent>>
  <2>0. /\ MainOK /\ TxHolds
        /\ TxSize \in 2..256
        /\ txHead \in 0..TxSize - 1 /\ txTail \in 0..TxSize - 1
        /\ txBuffer \in [0..TxSize - 1 -> Bytes]
        /\ accepted \in Seq(Bytes) /\ sent \in Seq(Bytes) /\ c \in Bytes
        /\ Len(accepted) - Len(sent) = Used(txHead, txTail, TxSize)
    BY <1>2, SizeAssumption DEF IInv, TypeOK, TxHolds, Holds
  <2>1. CASE PutHead
    <3>1. Advance(txHead, TxSize) /= txTail
      BY <2>0, <2>1 DEF PutHead, MainOK, PutOK
    <3>2. TxFifo!Waiting < TxSize - 1 BY <2>0, <3>1, HeadMoves DEF TxFifo!Waiting
    <3>3. TxFifo!Accept(c) BY <3>2, <2>1 DEF PutHead, TxFifo!Accept, lineVars
    <3> QED BY <2>0, <3>3 DEF TxFifo!Next
  <2>2. CASE UdreSend
    <3>1. txHead /= txTail BY <2>2 DEF UdreSend
    <3>2. Used(txHead, txTail, TxSize) \in 0..TxSize - 1
          /\ Used(txHead, txTail, TxSize) /= 0
      BY <2>0, <3>1, UsedRange
    <3>3. TxFifo!Waiting > 0 BY <2>0, <3>2, SMT DEF TxFifo!Waiting
    <3>4. txBuffer[Advance(txTail, TxSize)] = accepted[Len(sent) + 1]
      <4>1. Slot(txTail, 1, TxSize) = Advance(txTail, TxSize)
        BY <2>0, <3>1, TailMoves
      <4>2. 1 \in 1..Used(txHead, txTail, TxSize) BY <2>0, <3>2, SMT
      <4>3. txBuffer[Slot(txTail, 1, TxSize)] = accepted[Len(sent) + 1]
        BY <2>0, <4>2 DEF TxHolds, Holds
      <4> QED BY <4>1, <4>3
    <3>5. TxFifo!HandOn BY <3>3, <3>4, <2>2 DEF UdreSend, TxFifo!HandOn
    <3> QED BY <3>5 DEF TxFifo!Next
  <2>3. CASE \/ PutCall \/ PutWait \/ PutStore \/ PutEnable \/ Get \/ Avail
             \/ GetCall \/ AvailCall \/ UdreEmpty \/ RxHandler \/ Shift
             \/ Arrive \/ UNCHANGED vars
    <3>1. UNCHANGED <<accepted, sent>>
      BY <2>3 DEF Get, Avail, RxHandler, PutCall, PutWait, PutStore, PutEnable,
         GetCall, GetWait, GetRead, GetTail, AvailCall, AvailHead, AvailTail,
         UdreEmpty, RxStore, RxDrop, Shift, Arrive, vars, txVars, lineVars
    <3> QED BY <3>1
  <2> QED BY <1>2, <2>1, <2>2, <2>3 DEF Next, Call, Put, UdreHandler
<1> QED BY <1>1, <1>2, Invariance, PTL DEF Spec, TxIsFifo, TxFifo!Spec

\* uart_getchar returns the stored bytes in the order the receive handler
\* stored them, each once, and never more than RxSize - 1 of them wait.
THEOREM RxRefinesFifo == Spec => RxIsFifo
<1>1. Init => RxQueue!Init BY DEF Init, RxQueue!Init
<1>2. ASSUME IInv, [Next]_vars PROVE [RxQueue!Next]_<<stored, returned>>
  <2>0. /\ MainOK /\ RxHolds
        /\ RxSize \in 2..256
        /\ rxHead \in 0..RxSize - 1 /\ rxTail \in 0..RxSize - 1
        /\ rxBuffer \in [0..RxSize - 1 -> Bytes] /\ rxFifo \in Seq(Bytes)
        /\ stored \in Seq(Bytes) /\ returned \in Seq(Bytes)
        /\ Len(stored) - Len(returned) = Used(rxHead, rxTail, RxSize)
    BY <1>2, SizeAssumption DEF IInv, TypeOK, RxHolds, Holds
  <2>1. CASE RxStore
    <3>1. Advance(rxHead, RxSize) /= rxTail BY <2>1 DEF RxStore, RxFull
    <3>2. RxQueue!Waiting < RxSize - 1
      BY <2>0, <3>1, HeadMoves DEF RxQueue!Waiting
    <3>3. Head(rxFifo) \in Bytes BY <2>0, <2>1, HeadTailProperties DEF RxStore
    <3>4. RxQueue!Accept(Head(rxFifo))
      BY <3>2, <2>1 DEF RxStore, RxQueue!Accept, getVars
    <3> QED BY <3>3, <3>4 DEF RxQueue!Next
  <2>2. CASE GetTail
    <3>1. /\ rxHead /= rxTail /\ c = rxBuffer[Advance(rxTail, RxSize)]
      BY <2>0, <2>2 DEF GetTail, MainOK, GetOK
    <3>2. Used(rxHead, rxTail, RxSize) \in 0..RxSize - 1
          /\ Used(rxHead, rxTail, RxSize) /= 0
      BY <2>0, <3>1, UsedRange
    <3>3. RxQueue!Waiting > 0 BY <2>0, <3>2, SMT DEF RxQueue!Waiting
    <3>4. c = stored[Len(returned) + 1]
      <4>1. Slot(rxTail, 1, RxSize) = Advance(rxTail, RxSize)
        BY <2>0, <3>1, TailMoves
      <4>2. 1 \in 1..Used(rxHead, rxTail, RxSize) BY <2>0, <3>2, SMT
      <4>3. rxBuffer[Slot(rxTail, 1, RxSize)] = stored[Len(returned) + 1]
        BY <2>0, <4>2 DEF RxHolds, Holds
      <4> QED BY <3>1, <4>1, <4>3
    <3>5. RxQueue!HandOn BY <3>3, <3>4, <2>2 DEF GetTail, RxQueue!HandOn, rxVars
    <3> QED BY <3>5 DEF RxQueue!Next
  <2>3. CASE \/ Call \/ Put \/ GetWait \/ GetRead \/ Avail \/ UdreHandler \/ RxDrop
             \/ Shift \/ Arrive \/ UNCHANGED vars
    <3>1. UNCHANGED <<stored, returned>>
      BY <2>3 DEF Call, Put, Avail, UdreHandler, PutCall, PutWait, PutStore,
         PutHead, PutEnable, GetCall, GetWait, GetRead, AvailCall, AvailHead,
         AvailTail, UdreEmpty, UdreSend, RxDrop, Shift, Arrive, vars, rxVars,
         getVars
    <3> QED BY <3>1
  <2> QED BY <1>2, <2>1, <2>2, <2>3 DEF Next, Get, RxHandler
<1> QED BY <1>1, <1>2, Invariance, PTL DEF Spec, RxIsFifo, RxQueue!Spec
=============================================================================
