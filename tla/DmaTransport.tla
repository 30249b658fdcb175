---------------------------- MODULE DmaTransport ----------------------------
(***************************************************************************)
(* The custom transport of micro-ROS over USART2 (extra_sources/           *)
(* microros_transports/dma_transport.c) with the part of the HAL's UART    *)
(* driver it relies on: a receive ring that circular DMA fills while the   *)
(* client reads it, and transmissions by DMA with a timeout.               *)
(*                                                                         *)
(* The client is the micro-ROS task.  Its calls are broken into steps at   *)
(* every read of something an interrupt or the DMA changes.  Timeouts may  *)
(* expire at any time.  Received bytes are numbered as they arrive.        *)
(*                                                                         *)
(* Assumption on the environment: the client reads often enough that no    *)
(* more than MaxUnread bytes wait in the ring, which must be less than a   *)
(* turn since the code has no means to notice that it was overtaken.       *)
(***************************************************************************)
EXTENDS Integers

CONSTANTS
  UART_DMA_RX_BUFFER_SIZE,   (* 2048 in the code                           *)
  MaxUnread,                 (* bytes that wait in the ring at most        *)
  MaxLength,                 (* bound: size of a read                      *)
  MaxBytes                   (* bound: bytes of a behaviour                *)

ASSUME TransportAssumption ==
  /\ UART_DMA_RX_BUFFER_SIZE \in Nat \ {0}
  /\ MaxUnread \in 0 .. UART_DMA_RX_BUFFER_SIZE - 1
  /\ MaxLength \in Nat /\ MaxBytes \in Nat

VARIABLES
  s_dma_rx_buffer, s_dma_rx_head,
  counter,                (* what the RX DMA has left of its present turn   *)
  receiving,              (* the RX DMA runs (DMAR is set)                  *)
  RxState, gState,        (* the UART handle                                *)
  pc,                     (* where the client is                            *)
  dma_tail, length, read_length,
  result, sent,           (* of the last write: what it reported, and       *)
                          (* whether all of it has gone out                 *)
  arrived, taken          (* the last byte received; handed to the client   *)

rxVars == <<s_dma_rx_buffer, s_dma_rx_head, counter, receiving, RxState>>
txVars == <<gState, result, sent>>
readVars == <<dma_tail, length, read_length>>
vars == <<rxVars, txVars, readVars, pc, arrived, taken>>

Slots == 0 .. UART_DMA_RX_BUFFER_SIZE - 1

(* dma_transport_rx_tail: where the DMA writes next.                       *)
RxTail == (UART_DMA_RX_BUFFER_SIZE - counter) % UART_DMA_RX_BUFFER_SIZE

Init ==
  /\ s_dma_rx_buffer = [i \in Slots |-> 0] /\ s_dma_rx_head = 0
  /\ counter = UART_DMA_RX_BUFFER_SIZE /\ receiving = FALSE
  /\ RxState = "READY" /\ gState = "READY"
  /\ pc = "closed"
  /\ dma_tail = 0 /\ length = 0 /\ read_length = 0
  /\ result = "none" /\ sent = TRUE
  /\ arrived = 0 /\ taken = 0

-----------------------------------------------------------------------------
(* The hardware and the HAL's interrupt handlers.                          *)

(* One byte is stored; the counter is reloaded at the end of a turn.       *)
ReceiveByte ==
  /\ receiving
  /\ arrived < MaxBytes /\ arrived - taken < MaxUnread
  /\ s_dma_rx_buffer' = [s_dma_rx_buffer EXCEPT ![RxTail] = arrived + 1]
  /\ counter' = IF counter = 1 THEN UART_DMA_RX_BUFFER_SIZE ELSE counter - 1
  /\ arrived' = arrived + 1
  /\ UNCHANGED <<s_dma_rx_head, receiving, RxState, txVars, readVars, pc, taken>>

(* A framing, noise or overrun error: the handler ends the reception, and  *)
(* no callback of the application starts it again.                         *)
LineError ==
  /\ receiving /\ RxState = "BUSY_RX"
  /\ receiving' = FALSE /\ RxState' = "READY"
  /\ UNCHANGED <<s_dma_rx_buffer, s_dma_rx_head, counter, txVars, readVars, pc,
                 arrived, taken>>

TransmitComplete ==
  /\ gState = "BUSY_TX"
  /\ gState' = "READY" /\ sent' = TRUE
  /\ UNCHANGED <<rxVars, readVars, result, pc, arrived, taken>>

(* UART_DMAError of the transmit channel: both directions are declared     *)
(* READY, and the receive channel goes on unnoticed.                       *)
TransmitDmaError ==
  /\ gState = "BUSY_TX"
  /\ gState' = "READY" /\ RxState' = "READY"
  /\ UNCHANGED <<s_dma_rx_buffer, s_dma_rx_head, counter, receiving, readVars,
                 result, sent, pc, arrived, taken>>

-----------------------------------------------------------------------------
(* Open and close.                                                         *)

(* HAL_UART_DMAStop looks at the handle's states, not at the channel.      *)
HAL_UART_DMAStop ==
  /\ gState' = "READY" /\ RxState' = "READY"
  /\ receiving' = (receiving /\ RxState = "READY")

(* Mutation check: the read position is kept.                              *)
OpenKeepsHead ==
  /\ pc = "closed" /\ ~(receiving /\ RxState = "READY")
  /\ gState' = "READY" /\ receiving' = TRUE /\ RxState' = "BUSY_RX"
  /\ counter' = UART_DMA_RX_BUFFER_SIZE
  /\ taken' = arrived /\ pc' = "open"
  /\ UNCHANGED <<s_dma_rx_buffer, s_dma_rx_head, readVars, result, sent, arrived>>

(* The reception starts at the beginning of the ring; bytes that were not  *)
(* read before are forgotten.                                              *)
Open ==
  /\ pc = "closed" /\ ~(receiving /\ RxState = "READY")
  /\ gState' = "READY"
  /\ s_dma_rx_head' = 0
  /\ counter' = UART_DMA_RX_BUFFER_SIZE
  /\ receiving' = TRUE /\ RxState' = "BUSY_RX"
  /\ taken' = arrived
  /\ pc' = "open"
  /\ UNCHANGED <<s_dma_rx_buffer, readVars, result, sent, arrived>>

(* A receive channel that still runs is not stopped and not started again. *)
OpenRefused ==
  /\ pc = "closed" /\ receiving /\ RxState = "READY"
  /\ HAL_UART_DMAStop
  /\ s_dma_rx_head' = 0
  /\ UNCHANGED <<s_dma_rx_buffer, counter, readVars, result, sent, pc, arrived,
                 taken>>

Close ==
  /\ pc = "open"
  /\ HAL_UART_DMAStop
  /\ pc' = "closed"
  /\ UNCHANGED <<s_dma_rx_buffer, s_dma_rx_head, counter, readVars, result, sent,
                 arrived, taken>>

-----------------------------------------------------------------------------
(* cubemx_transport_read.                                                  *)

ReadStart == \E n \in 1 .. MaxLength :
  /\ pc = "open" /\ pc' = "wait"
  /\ dma_tail' = RxTail /\ length' = n /\ read_length' = 0
  /\ UNCHANGED <<rxVars, txVars, arrived, taken>>

(* Nothing has arrived and there is time left: look again 1 ms later.      *)
WaitTurn ==
  /\ pc = "wait" /\ s_dma_rx_head = dma_tail
  /\ dma_tail' = RxTail
  /\ UNCHANGED <<rxVars, txVars, length, read_length, pc, arrived, taken>>

WaitEnds ==
  /\ pc = "wait" /\ pc' = "copy"
  /\ UNCHANGED <<rxVars, txVars, readVars, arrived, taken>>

(* The loop that copies goes as far as the tail seen last.                 *)
CopyByte ==
  /\ pc = "copy"
  /\ s_dma_rx_head # dma_tail /\ read_length < length
  /\ taken' = s_dma_rx_buffer[s_dma_rx_head]
  /\ s_dma_rx_head' = (s_dma_rx_head + 1) % UART_DMA_RX_BUFFER_SIZE
  /\ read_length' = read_length + 1
  /\ UNCHANGED <<s_dma_rx_buffer, counter, receiving, RxState, txVars, dma_tail,
                 length, pc, arrived>>

ReadReturns ==
  /\ pc = "copy" /\ pc' = "open"
  /\ s_dma_rx_head = dma_tail \/ read_length >= length
  /\ UNCHANGED <<rxVars, txVars, readVars, arrived, taken>>

-----------------------------------------------------------------------------
(* cubemx_transport_write.  With the transmitter READY and the buffer      *)
(* valid the HAL accepts the transfer.                                     *)

WriteStart ==
  /\ pc = "open" /\ gState = "READY"
  /\ gState' = "BUSY_TX" /\ sent' = FALSE
  /\ pc' = "write"
  /\ UNCHANGED <<rxVars, readVars, result, arrived, taken>>

WriteReturns ==
  /\ pc = "write" /\ gState = "READY"
  /\ result' = "sent"
  /\ pc' = "open"
  /\ UNCHANGED <<rxVars, gState, sent, readVars, arrived, taken>>

WriteTimesOut ==
  /\ pc = "write" /\ gState = "BUSY_TX"
  /\ pc' = "abort"
  /\ UNCHANGED <<rxVars, txVars, readVars, arrived, taken>>

(* Mutation check: the transmission is given up but not aborted.           *)
GiveUpWithoutAbort ==
  /\ pc = "abort" /\ pc' = "open"
  /\ result' = "failed"
  /\ UNCHANGED <<rxVars, gState, sent, readVars, arrived, taken>>

AbortTransmit ==
  /\ pc = "abort" /\ pc' = "open"
  /\ gState' = "READY"
  /\ result' = "failed"
  /\ UNCHANGED <<rxVars, sent, readVars, arrived, taken>>

-----------------------------------------------------------------------------
Hardware == ReceiveByte \/ LineError \/ TransmitComplete \/ TransmitDmaError

Client ==
  \/ Open \/ OpenRefused \/ Close
  \/ ReadStart \/ WaitTurn \/ WaitEnds \/ CopyByte \/ ReadReturns
  \/ WriteStart \/ WriteReturns \/ WriteTimesOut \/ AbortTransmit

Next == Hardware \/ Client

Spec == Init /\ [][Next]_vars

-----------------------------------------------------------------------------
TypeOK ==
  /\ s_dma_rx_buffer \in [Slots -> Nat] /\ s_dma_rx_head \in Slots
  /\ counter \in 1 .. UART_DMA_RX_BUFFER_SIZE /\ receiving \in BOOLEAN
  /\ RxState \in {"READY", "BUSY_RX"} /\ gState \in {"READY", "BUSY_TX"}
  /\ pc \in {"closed", "open", "wait", "copy", "write", "abort"}
  /\ dma_tail \in Slots /\ length \in 0 .. MaxLength
  /\ read_length \in 0 .. length
  /\ result \in {"none", "sent", "failed"} /\ sent \in BOOLEAN
  /\ arrived \in Nat /\ taken \in Nat

(* The bytes the client reads are the bytes that arrived, in order, none   *)
(* twice and none left out, whenever the DMA writes and wraps, and nothing *)
(* of an earlier opening is read after the next.                           *)
Fifo == INSTANCE RxFifo
ImplementsFifo == Fifo!Spec

(* The DMA reads no buffer of a write that has returned, whether it went   *)
(* out, timed out or completed while it was being aborted.                 *)
BufferReleased == gState = "BUSY_TX" => pc \in {"write", "abort"}

(* Docs/02:221, "TX uses DMA ... handles BUSY, ERROR and disconnection     *)
(* correctly": a write that reports its length has sent it.                *)
WriteTrue == (pc = "open" /\ result = "sent") => sent
=============================================================================
