CONSTANTS
  pxEnd = 16
  xHeapStructSize = 1
  portBYTE_ALIGNMENT = 2
  SizeMod = 32
  Requests = {0, 1, 3, 11, 16}
SPECIFICATION Spec
INVARIANTS
  HeapOK
  WholeWhenReleased
  ReallocKeeps
  Accounted
PROPERTY
  ImplementsAllocator
