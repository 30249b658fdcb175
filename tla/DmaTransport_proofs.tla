------------------------ MODULE DmaTransport_proofs ------------------------
(***************************************************************************)
(* Theorems about DmaTransport for every size of the ring, every bound on  *)
(* the unread bytes below it and every number of bytes.                    *)
(***************************************************************************)
EXTENDS DmaTransport, TLAPS

USE DEF Slots

(* Where the DMA writes next, without the remainder.                       *)
LEMMA TailPosition ==
  ASSUME counter \in 1 .. UART_DMA_RX_BUFFER_SIZE
  PROVE  RxTail = UART_DMA_RX_BUFFER_SIZE - counter /\ RxTail \in Slots
BY TransportAssumption DEF RxTail

(* The remainder that moves the read position, without the remainder.      *)
LEMMA NextHead ==
  ASSUME NEW h \in Slots
  PROVE  (h + 1) % UART_DMA_RX_BUFFER_SIZE
           = IF h + 1 = UART_DMA_RX_BUFFER_SIZE THEN 0 ELSE h + 1
<1> USE TransportAssumption
<1>1. CASE h + 1 = UART_DMA_RX_BUFFER_SIZE
  BY <1>1
<1>2. CASE h + 1 < UART_DMA_RX_BUFFER_SIZE
  BY <1>2
<1>3. h + 1 = UART_DMA_RX_BUFFER_SIZE \/ h + 1 < UART_DMA_RX_BUFFER_SIZE
  OBVIOUS
<1> QED
  BY <1>1, <1>2, <1>3

-----------------------------------------------------------------------------
LEMMA TypeInit == Init => TypeOK
<1> SUFFICES ASSUME Init PROVE TypeOK
  OBVIOUS
<1>1. /\ 0 \in Slots /\ 0 \in 0 .. MaxLength /\ 0 \in 0 .. 0
      /\ UART_DMA_RX_BUFFER_SIZE \in 1 .. UART_DMA_RX_BUFFER_SIZE
  BY TransportAssumption
<1>2. s_dma_rx_buffer \in [Slots -> Nat]
  BY DEF Init
<1> QED
  BY <1>1, <1>2 DEF Init, TypeOK

LEMMA TypeNext == TypeOK /\ [Next]_vars => TypeOK'
<1> SUFFICES ASSUME TypeOK, [Next]_vars PROVE TypeOK'
  OBVIOUS
<1> USE TransportAssumption DEF TypeOK, rxVars, txVars, readVars
<1>0. RxTail \in Slots
  BY TailPosition
<1>1. CASE ReceiveByte
  BY <1>0, <1>1 DEF ReceiveByte
<1>2. CASE LineError
  BY <1>2 DEF LineError
<1>3. CASE TransmitComplete
  BY <1>3 DEF TransmitComplete
<1>4. CASE TransmitDmaError
  BY <1>4 DEF TransmitDmaError
<1>5. CASE Open
  BY <1>5 DEF Open
<1>6. CASE OpenRefused
  BY <1>6 DEF OpenRefused, HAL_UART_DMAStop
<1>7. CASE Close
  BY <1>7 DEF Close, HAL_UART_DMAStop
<1>8. CASE ReadStart
  BY <1>0, <1>8 DEF ReadStart
<1>9. CASE WaitTurn
  BY <1>0, <1>9 DEF WaitTurn
<1>10. CASE WaitEnds
  BY <1>10 DEF WaitEnds
<1>11. CASE CopyByte
  BY <1>11, NextHead DEF CopyByte
<1>12. CASE ReadReturns
  BY <1>12 DEF ReadReturns
<1>13. CASE WriteStart
  BY <1>13 DEF WriteStart
<1>14. CASE WriteReturns
  BY <1>14 DEF WriteReturns
<1>15. CASE WriteTimesOut
  BY <1>15 DEF WriteTimesOut
<1>16. CASE AbortTransmit
  BY <1>16 DEF AbortTransmit
<1>17. CASE UNCHANGED vars
  BY <1>17 DEF vars
<1> QED
  BY <1>1, <1>2, <1>3, <1>4, <1>5, <1>6, <1>7, <1>8, <1>9, <1>10, <1>11, <1>12,
     <1>13, <1>14, <1>15, <1>16, <1>17 DEF Next, Hardware, Client

(* Type correctness: positions stay inside the ring and a read inside the  *)
(* client's buffer, for every ring size.                                   *)
THEOREM TypeCorrect == Spec => []TypeOK
BY TypeInit, TypeNext, PTL DEF Spec

-----------------------------------------------------------------------------
LEMMA ReleasedNext == BufferReleased /\ [Next]_vars => BufferReleased'
<1> SUFFICES ASSUME BufferReleased, [Next]_vars PROVE BufferReleased'
  OBVIOUS
<1> USE DEF BufferReleased, rxVars, txVars, readVars
<1>1. CASE Hardware
  BY <1>1 DEF Hardware, ReceiveByte, LineError, TransmitComplete, TransmitDmaError
<1>2. CASE Open \/ OpenRefused \/ Close
  BY <1>2 DEF Open, OpenRefused, Close, HAL_UART_DMAStop
<1>3. CASE ReadStart \/ WaitTurn \/ WaitEnds \/ CopyByte \/ ReadReturns
  BY <1>3 DEF ReadStart, WaitTurn, WaitEnds, CopyByte, ReadReturns
<1>4. CASE WriteStart \/ WriteReturns \/ WriteTimesOut \/ AbortTransmit
  BY <1>4 DEF WriteStart, WriteReturns, WriteTimesOut, AbortTransmit
<1>5. CASE UNCHANGED vars
  BY <1>5 DEF vars
<1> QED
  BY <1>1, <1>2, <1>3, <1>4, <1>5 DEF Next, Client

(* No transmission goes on after its write has returned.                   *)
THEOREM BufferSafe == Spec => []BufferReleased
<1>1. Init => BufferReleased
  BY DEF Init, BufferReleased
<1> QED
  BY <1>1, ReleasedNext, PTL DEF Spec

-----------------------------------------------------------------------------
(* The slot n places after slot a, and the places from slot a to slot b.   *)
Forward(a, n) ==
  IF a + n < UART_DMA_RX_BUFFER_SIZE THEN a + n ELSE a + n - UART_DMA_RX_BUFFER_SIZE
Distance(a, b) ==
  IF a <= b THEN b - a ELSE b - a + UART_DMA_RX_BUFFER_SIZE

Unread == arrived - taken
Position == UART_DMA_RX_BUFFER_SIZE - counter

(* While the transport is open the unread bytes, and only they, lie        *)
(* between the read position and the DMA's; the tail a read has seen is    *)
(* among them.                                                             *)
RingInv ==
  /\ taken <= arrived /\ Unread < UART_DMA_RX_BUFFER_SIZE
  /\ pc # "closed" =>
       /\ Distance(s_dma_rx_head, Position) = Unread
       /\ \A i \in Slots : i < Unread =>
            s_dma_rx_buffer[Forward(s_dma_rx_head, i)] = taken + 1 + i
  /\ pc \in {"wait", "copy"} => Distance(s_dma_rx_head, dma_tail) <= Unread

LEMMA RingInit == Init => RingInv
BY TransportAssumption DEF Init, RingInv, Unread, Position, Distance

(* A byte that arrives is stored behind the unread ones.                   *)
LEMMA RingReceive == TypeOK /\ RingInv /\ ReceiveByte => RingInv'
<1> SUFFICES ASSUME TypeOK, RingInv, ReceiveByte PROVE RingInv'
  OBVIOUS
<1> USE TransportAssumption
<1>1. RxTail = Position /\ Position \in Slots
  BY TailPosition DEF TypeOK, Position
<1>2. /\ arrived \in Nat /\ taken \in Nat /\ s_dma_rx_head \in Slots
      /\ counter \in 1 .. UART_DMA_RX_BUFFER_SIZE /\ dma_tail \in Slots
      /\ s_dma_rx_buffer \in [Slots -> Nat]
  BY DEF TypeOK
<1>3. /\ arrived' = arrived + 1 /\ taken' = taken /\ arrived - taken < MaxUnread
      /\ s_dma_rx_buffer' = [s_dma_rx_buffer EXCEPT ![Position] = arrived + 1]
      /\ counter' = IF counter = 1 THEN UART_DMA_RX_BUFFER_SIZE ELSE counter - 1
      /\ UNCHANGED <<s_dma_rx_head, dma_tail, pc>>
  BY <1>1 DEF ReceiveByte, rxVars, txVars, readVars
<1>4. taken' <= arrived' /\ Unread' < UART_DMA_RX_BUFFER_SIZE /\ Unread' = Unread + 1
  BY <1>2, <1>3 DEF RingInv, Unread
<1>5. ASSUME pc' # "closed"
      PROVE  /\ Distance(s_dma_rx_head, Position)' = Unread'
             /\ \A i \in Slots : i < Unread' =>
                  s_dma_rx_buffer'[Forward(s_dma_rx_head', i)] = taken' + 1 + i
  <2>1. Distance(s_dma_rx_head, Position) = Unread /\ Unread + 1 < UART_DMA_RX_BUFFER_SIZE
    BY <1>2, <1>3, <1>4, <1>5 DEF RingInv, Unread
  <2>2. Distance(s_dma_rx_head, Position)' = Unread'
    <3>1. Position' = IF counter = 1 THEN 0 ELSE Position + 1
      BY <1>2, <1>3 DEF Position
    <3>2. Position + 1 = UART_DMA_RX_BUFFER_SIZE <=> counter = 1
      BY <1>2 DEF Position
    <3>3. Distance(s_dma_rx_head, Position') = Unread + 1
      BY <1>1, <1>2, <2>1, <3>1, <3>2 DEF Distance
    <3> QED
      BY <1>3, <1>4, <3>3 DEF Distance
  <2>3. ASSUME NEW i \in Slots, i < Unread'
        PROVE  s_dma_rx_buffer'[Forward(s_dma_rx_head', i)] = taken' + 1 + i
    <3>1. Unread \in Nat /\ Forward(s_dma_rx_head, i) \in Slots
      BY <1>2, <1>4, <2>3 DEF Forward, Unread, RingInv
    <3>2. CASE i = Unread
      <4>1. Forward(s_dma_rx_head, i) = Position
        BY <1>1, <1>2, <2>1, <3>1, <3>2 DEF Forward, Distance
      <4> QED
        BY <1>1, <1>2, <1>3, <3>2, <4>1 DEF Unread
    <3>3. CASE i < Unread
      <4>1. Forward(s_dma_rx_head, i) # Position
        BY <1>1, <1>2, <2>1, <2>3, <3>1, <3>3 DEF Forward, Distance
      <4>2. s_dma_rx_buffer[Forward(s_dma_rx_head, i)] = taken + 1 + i
        BY <1>3, <1>5, <2>3, <3>3 DEF RingInv
      <4> QED
        BY <1>2, <1>3, <3>1, <4>1, <4>2
    <3>4. i = Unread \/ i < Unread
      <4>1. i \in Nat /\ i < Unread + 1
        BY <1>4, <2>3
      <4> HIDE DEF Unread
      <4> QED
        BY <3>1, <4>1
    <3> QED
      BY <3>2, <3>3, <3>4
  <2> QED
    BY <2>2, <2>3
<1>6. pc' \in {"wait", "copy"} => Distance(s_dma_rx_head', dma_tail') <= Unread'
  BY <1>2, <1>3, <1>4 DEF RingInv, Distance, Unread
<1> QED
  BY <1>4, <1>5, <1>6 DEF RingInv

(* A copy hands over the first unread byte.                                *)
LEMMA RingCopy ==
  TypeOK /\ RingInv /\ CopyByte => RingInv' /\ taken < arrived /\ taken' = taken + 1
<1> SUFFICES ASSUME TypeOK, RingInv, CopyByte
             PROVE  RingInv' /\ taken < arrived /\ taken' = taken + 1
  OBVIOUS
<1> USE TransportAssumption
<1>1. /\ arrived \in Nat /\ taken \in Nat /\ s_dma_rx_head \in Slots
      /\ counter \in 1 .. UART_DMA_RX_BUFFER_SIZE /\ dma_tail \in Slots
  BY DEF TypeOK
<1>2. /\ pc = "copy" /\ s_dma_rx_head # dma_tail
      /\ taken' = s_dma_rx_buffer[s_dma_rx_head]
      /\ UNCHANGED <<s_dma_rx_buffer, counter, dma_tail, pc, arrived>>
  BY DEF CopyByte, txVars
<1>3. s_dma_rx_head' = IF s_dma_rx_head + 1 = UART_DMA_RX_BUFFER_SIZE
                       THEN 0 ELSE s_dma_rx_head + 1
  BY <1>1, NextHead DEF CopyByte
<1>4. /\ Distance(s_dma_rx_head, dma_tail) <= Unread
      /\ Distance(s_dma_rx_head, Position) = Unread
      /\ Unread < UART_DMA_RX_BUFFER_SIZE
      /\ \A i \in Slots : i < Unread =>
           s_dma_rx_buffer[Forward(s_dma_rx_head, i)] = taken + 1 + i
  BY <1>2 DEF RingInv
<1>5. Unread \in Nat /\ Unread >= 1 /\ taken < arrived
  BY <1>1, <1>2, <1>4 DEF Unread, Distance
<1>6. taken' = taken + 1
  <2>1. 0 \in Slots /\ Forward(s_dma_rx_head, 0) = s_dma_rx_head
    BY <1>1 DEF Forward
  <2>2. s_dma_rx_buffer[Forward(s_dma_rx_head, 0)] = taken + 1 + 0
    BY <1>4, <1>5, <2>1
  <2> QED
    BY <1>1, <1>2, <2>1, <2>2
<1>7. Unread' = Unread - 1 /\ taken' <= arrived'
  BY <1>1, <1>2, <1>5, <1>6 DEF Unread
<1>8. Distance(s_dma_rx_head, Position)' = Unread'
  BY <1>1, <1>2, <1>3, <1>4, <1>5, <1>7 DEF Distance, Position
<1>9. Distance(s_dma_rx_head', dma_tail') <= Unread'
  BY <1>1, <1>2, <1>3, <1>4, <1>5, <1>7 DEF Distance
<1>10. ASSUME NEW i \in Slots, i < Unread'
       PROVE  s_dma_rx_buffer'[Forward(s_dma_rx_head', i)] = taken' + 1 + i
  <2>1. i + 1 \in Slots /\ i + 1 < Unread
    BY <1>4, <1>5, <1>7, <1>10
  <2>2. Forward(s_dma_rx_head', i) = Forward(s_dma_rx_head, i + 1)
    BY <1>1, <1>3, <2>1 DEF Forward
  <2>3. s_dma_rx_buffer[Forward(s_dma_rx_head, i + 1)] = taken + 1 + (i + 1)
    BY <1>4, <2>1
  <2> QED
    BY <1>1, <1>2, <1>6, <2>2, <2>3
<1> QED
  BY <1>4, <1>5, <1>6, <1>7, <1>8, <1>9, <1>10 DEF RingInv

(* The other steps leave the ring and the counts as they are, or start     *)
(* afresh.                                                                 *)
LEMMA RingOther ==
  /\ TypeOK /\ RingInv
  /\ \/ LineError \/ TransmitComplete \/ TransmitDmaError
     \/ Open \/ OpenRefused \/ Close
     \/ ReadStart \/ WaitTurn \/ WaitEnds \/ ReadReturns
     \/ WriteStart \/ WriteReturns \/ WriteTimesOut \/ AbortTransmit
     \/ UNCHANGED vars
  => RingInv' /\ arrived' = arrived /\ taken' \in {taken, arrived}
<1> SUFFICES ASSUME TypeOK, RingInv,
                    \/ LineError \/ TransmitComplete \/ TransmitDmaError
                    \/ Open \/ OpenRefused \/ Close
                    \/ ReadStart \/ WaitTurn \/ WaitEnds \/ ReadReturns
                    \/ WriteStart \/ WriteReturns \/ WriteTimesOut \/ AbortTransmit
                    \/ UNCHANGED vars
             PROVE  RingInv' /\ arrived' = arrived /\ taken' \in {taken, arrived}
  OBVIOUS
<1> USE TransportAssumption
    DEF RingInv, Unread, Position, vars, rxVars, txVars, readVars
<1>0. /\ RxTail = Position /\ Position \in Slots
      /\ arrived \in Nat /\ taken \in Nat /\ s_dma_rx_head \in Slots
  BY TailPosition DEF TypeOK
<1>1. CASE LineError \/ TransmitComplete \/ TransmitDmaError \/ UNCHANGED vars
  BY <1>1 DEF LineError, TransmitComplete, TransmitDmaError
<1>2. CASE Open
  BY <1>0, <1>2 DEF Open, Distance
<1>3. CASE OpenRefused \/ Close
  BY <1>3 DEF OpenRefused, Close, HAL_UART_DMAStop
<1>4. CASE ReadStart
  BY <1>0, <1>4 DEF ReadStart
<1>5. CASE WaitTurn
  BY <1>0, <1>5 DEF WaitTurn
<1>6. CASE WaitEnds \/ ReadReturns
  BY <1>6 DEF WaitEnds, ReadReturns
<1>7. CASE WriteStart \/ WriteReturns \/ WriteTimesOut \/ AbortTransmit
  BY <1>7 DEF WriteStart, WriteReturns, WriteTimesOut, AbortTransmit
<1> QED
  BY <1>1, <1>2, <1>3, <1>4, <1>5, <1>6, <1>7

LEMMA RingInvAlways == Spec => [](TypeOK /\ RingInv)
<1>1. TypeOK /\ RingInv /\ [Next]_vars => RingInv'
  BY RingReceive, RingCopy, RingOther DEF Next, Hardware, Client
<1> QED
  BY <1>1, RingInit, TypeInit, TypeNext, PTL DEF Spec

(* The transport hands over the bytes that arrived, in order and each      *)
(* once, for every ring size and any timing of the DMA that stays less     *)
(* than a turn ahead.                                                      *)
THEOREM FifoImplemented == Spec => ImplementsFifo
<1>1. Init => Fifo!Init
  BY DEF Init, Fifo!Init
<1>2. TypeOK /\ RingInv /\ [Next]_vars => [Fifo!Next]_<<arrived, taken>>
  <2> SUFFICES ASSUME TypeOK, RingInv, [Next]_vars
               PROVE  [Fifo!Next]_<<arrived, taken>>
    OBVIOUS
  <2>1. CASE ReceiveByte
    BY <2>1 DEF ReceiveByte, Fifo!Next, Fifo!Arrive
  <2>2. CASE CopyByte
    <3>1. taken < arrived /\ taken' = taken + 1 /\ arrived' = arrived
      BY <2>2, RingCopy DEF CopyByte
    <3> QED
      BY <3>1 DEF Fifo!Next, Fifo!Take
  <2>3. CASE ~ReceiveByte /\ ~CopyByte
    <3>1. arrived' = arrived /\ taken' \in {taken, arrived}
      BY <2>3, RingOther DEF Next, Hardware, Client
    <3> QED
      BY <3>1 DEF Fifo!Next, Fifo!Forget
  <2> QED
    BY <2>1, <2>2, <2>3
<1> QED
  BY <1>1, <1>2, RingInvAlways, PTL DEF Spec, ImplementsFifo, Fifo!Spec
=============================================================================
