CONSTANTS
  UART_DMA_RX_BUFFER_SIZE = 3
  MaxUnread = 2
  MaxLength = 3
  MaxBytes = 8
SPECIFICATION Spec
INVARIANTS
  BufferReleased
PROPERTIES
  ImplementsFifo
