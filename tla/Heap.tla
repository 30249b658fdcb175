-------------------------------- MODULE Heap --------------------------------
(***************************************************************************)
(* The heap of the micro-ROS client library:                               *)
(* extra_sources/custom_memory_manager.c behind microros_allocators.c.     *)
(*                                                                         *)
(* Addresses and block sizes count units of portBYTE_ALIGNMENT bytes from  *)
(* the start of the (aligned) heap; what a caller asks for is in bytes.    *)
(* The free list is the function next, which is defined on xStart and on   *)
(* the free blocks; a block without a successor is one whose allocated bit *)
(* is set.  size is defined on every block and on pxEnd; free and          *)
(* minimumEver are the counters xFreeBytesRemaining and                    *)
(* xMinimumEverFreeBytesRemaining.  Each call is one step: the scheduler   *)
(* is suspended meanwhile, and only the micro-ROS task calls.              *)
(***************************************************************************)
EXTENDS Integers, FiniteSets

CONSTANTS
  pxEnd,              (* the end marker's address: the usable units        *)
  xHeapStructSize,    (* units of a block's header; 1 on the target        *)
  portBYTE_ALIGNMENT, (* bytes of a unit; 8 on the target                  *)
  SizeMod,            (* SIZE_MAX + 1                                      *)
  Requests            (* the byte counts and factors a caller asks for     *)

ASSUME HeapAssumption ==
  /\ pxEnd \in Nat \ {0}
  /\ xHeapStructSize \in Nat \ {0}
  /\ portBYTE_ALIGNMENT \in Nat \ {0}
  /\ SizeMod \in Nat
  /\ Requests \subseteq 0 .. SizeMod - 1

VARIABLES
  heap,   (* the list, the sizes, and the two counters                     *)
  held    (* pointer -> bytes asked for, of what the library holds         *)

vars == <<heap, held>>

xStart == -1     (* a list head outside of the heap                        *)
NULL == 0
heapMINIMUM_BLOCK_SIZE == 2 * xHeapStructSize
xBlockAllocatedBit == SizeMod \div 2

FreeBlocks(h) == DOMAIN h.next \ {xStart}
Blocks(h) == DOMAIN h.size \ {pxEnd}
Lowest(S) == CHOOSE x \in S : \A y \in S : x <= y
Smaller(x, y) == IF x < y THEN x ELSE y

prvHeapInit ==
  [next |-> [n \in {xStart, 0} |-> IF n = xStart THEN 0 ELSE pxEnd],
   size |-> [b \in {0, pxEnd} |-> IF b = 0 THEN pxEnd ELSE 0],
   free |-> pxEnd, minimumEver |-> pxEnd]

(* The list element a block at address p is linked behind.                 *)
Iterator(h, p) == CHOOSE n \in DOMAIN h.next : n < p /\ p <= h.next[n]

(* Slip for the mutation check: neighbours that are not joined.            *)
JoinsNever(h, p) == FALSE

JoinsBefore(h, p) == LET n == Iterator(h, p)
                     IN n # xStart /\ n + h.size[n] = p
JoinsAfter(h, p) == LET n == h.next[Iterator(h, p)]
                    IN n # pxEnd /\ p + h.size[p] = n

(* Block p joins the free list, and its free neighbours.                   *)
prvInsertBlockIntoFreeList(h, p) ==
  LET before == Iterator(h, p)
      after == h.next[before]
      block == IF JoinsBefore(h, p) THEN before ELSE p
      absorbed == (IF JoinsBefore(h, p) THEN {p} ELSE {})
                    \union (IF JoinsAfter(h, p) THEN {after} ELSE {})
      joined == h.size[p] + (IF JoinsBefore(h, p) THEN h.size[before] ELSE 0)
                          + (IF JoinsAfter(h, p) THEN h.size[after] ELSE 0)
  IN [next |-> [n \in (DOMAIN h.next \union {block}) \ absorbed |->
                  IF n = block
                  THEN IF JoinsAfter(h, p) THEN h.next[after] ELSE after
                  ELSE IF n = before THEN block ELSE h.next[n]],
      size |-> [b \in DOMAIN h.size \ absorbed |->
                  IF b = block THEN joined ELSE h.size[b]],
      free |-> h.free, minimumEver |-> h.minimumEver]

(* The header, and the request rounded up to whole units.                  *)
Wanted(bytes) ==
  xHeapStructSize + (bytes + portBYTE_ALIGNMENT - 1) \div portBYTE_ALIGNMENT

(* Takes block off the list.                                               *)
Unlink(h, block) ==
  [next |-> [n \in DOMAIN h.next \ {block} |->
               IF h.next[n] = block THEN h.next[block] ELSE h.next[n]],
   size |-> h.size,
   free |-> h.free, minimumEver |-> h.minimumEver]

(* Makes what exceeds the wanted units of block a block of its own.        *)
Divide(h, block, wanted) ==
  [next |-> h.next,
   size |-> [b \in DOMAIN h.size \union {block + wanted} |->
               IF b = block THEN wanted
               ELSE IF b = block + wanted THEN h.size[block] - wanted
               ELSE h.size[b]],
   free |-> h.free, minimumEver |-> h.minimumEver]

(* A remainder of more than a minimum block becomes a free block.          *)
Carve(h, block, wanted) ==
  IF h.size[block] - wanted > heapMINIMUM_BLOCK_SIZE
  THEN prvInsertBlockIntoFreeList(Divide(Unlink(h, block), block, wanted),
                                  block + wanted)
  ELSE Unlink(h, block)

(* Slip for the mutation check: a block given away whole counts only as    *)
(* what was asked for.                                                     *)
TakeWanted(h, block, wanted) ==
  LET carved == Carve(h, block, wanted)
      left == h.free - wanted
  IN [next |-> carved.next, size |-> carved.size,
      free |-> left, minimumEver |-> Smaller(h.minimumEver, left)]

Take(h, block, wanted) ==
  LET carved == Carve(h, block, wanted)
      left == h.free - carved.size[block]
  IN [next |-> carved.next, size |-> carved.size,
      free |-> left, minimumEver |-> Smaller(h.minimumEver, left)]

(* First fit: the lowest free block that is large enough.                  *)
Fitting(h, bytes) == {b \in FreeBlocks(h) : Wanted(bytes) <= h.size[b]}

Refused(h, bytes) ==
  \/ bytes >= xBlockAllocatedBit
  \/ bytes = 0
  \/ Wanted(bytes) > h.free
  \/ Fitting(h, bytes) = {}

pvPortMallocMicroROS(h, bytes) ==
  IF Refused(h, bytes) THEN [pointer |-> NULL, heap |-> h]
  ELSE LET block == Lowest(Fitting(h, bytes))
       IN [pointer |-> block + xHeapStructSize,
           heap |-> Take(h, block, Wanted(bytes))]

vPortFreeMicroROS(h, pv) ==
  LET block == pv - xHeapStructSize
      freed == prvInsertBlockIntoFreeList(h, block)
  IN [next |-> freed.next, size |-> freed.size,
      free |-> h.free + h.size[block], minimumEver |-> h.minimumEver]

(* getBlockSize less the header, in bytes.                                 *)
Payload(h, pv) ==
  (h.size[pv - xHeapStructSize] - xHeapStructSize) * portBYTE_ALIGNMENT

(* Slip for the mutation check: the header counted as payload.             *)
CopiedWithHeader(h, pv, bytes) ==
  Smaller(bytes, h.size[pv - xHeapStructSize] * portBYTE_ALIGNMENT)

(* The bytes a reallocation moves.                                         *)
Copied(h, pv, bytes) == Smaller(bytes, Payload(h, pv))
-----------------------------------------------------------------------------
Init ==
  /\ heap = prvHeapInit
  /\ held = [p \in {} |-> 0]

Holds(p, bytes) ==
  [q \in DOMAIN held \union {p} |-> IF q = p THEN bytes ELSE held[q]]
Released(p) == [q \in DOMAIN held \ {p} |-> held[q]]

(* A pointer is handed out, or NULL.                                       *)
Obtain(bytes) ==
  LET got == pvPortMallocMicroROS(heap, bytes)
  IN /\ heap' = got.heap
     /\ held' = IF got.pointer = NULL THEN held ELSE Holds(got.pointer, bytes)

microros_allocate == \E bytes \in Requests : Obtain(bytes)

(* Slip for the mutation check: the product is not checked for overflow.   *)
ZeroAllocateUnchecked ==
  \E n, size \in Requests :
    LET got == pvPortMallocMicroROS(heap, (n * size) % SizeMod)
    IN /\ heap' = got.heap
       /\ held' = IF got.pointer = NULL THEN held
                  ELSE Holds(got.pointer, n * size)

(* A product beyond SIZE_MAX is refused before it wraps.                   *)
microros_zero_allocate ==
  \E n, size \in Requests :
    IF size # 0 /\ n > (SizeMod - 1) \div size THEN UNCHANGED vars
    ELSE Obtain(n * size)

(* The old block is given back once its bytes are in the new one; it is    *)
(* kept when there is no room for the new one.                             *)
microros_reallocate ==
  \E pv \in DOMAIN held \union {NULL}, bytes \in Requests :
    LET got == pvPortMallocMicroROS(heap, bytes)
    IN IF pv = NULL \/ got.pointer = NULL THEN Obtain(bytes)
       ELSE /\ heap' = vPortFreeMicroROS(got.heap, pv)
            /\ held' = [q \in (DOMAIN held \ {pv}) \union {got.pointer} |->
                          IF q = got.pointer THEN bytes ELSE held[q]]

(* microros_deallocate passes NULL over.                                   *)
microros_deallocate ==
  \E pv \in DOMAIN held :
    /\ heap' = vPortFreeMicroROS(heap, pv)
    /\ held' = Released(pv)

Next ==
  \/ microros_allocate \/ microros_zero_allocate
  \/ microros_reallocate \/ microros_deallocate

Spec == Init /\ [][Next]_vars
-----------------------------------------------------------------------------
(* The blocks lie end to end between the start of the heap and pxEnd.      *)
Tiled(h) ==
  /\ 0 \in Blocks(h) /\ pxEnd \in DOMAIN h.size
  /\ \A b \in Blocks(h) :
       /\ b \in 0 .. pxEnd - 1
       /\ h.size[b] \in Nat \ {0}
       /\ b + h.size[b] \in DOMAIN h.size
       /\ \A c \in Blocks(h) : b < c => b + h.size[b] <= c

(* The list goes through the free blocks in the order of their addresses   *)
(* and ends at pxEnd.                                                      *)
Listed(h) ==
  /\ xStart \in DOMAIN h.next
  /\ FreeBlocks(h) \subseteq Blocks(h)
  /\ \A n \in DOMAIN h.next :
       /\ h.next[n] \in FreeBlocks(h) \union {pxEnd}
       /\ n < h.next[n]
       /\ \A m \in FreeBlocks(h) : n < m => h.next[n] <= m

(* No two free blocks are neighbours.                                      *)
Coalesced(h) == \A b \in FreeBlocks(h) : b + h.size[b] \notin FreeBlocks(h)

(* The blocks that are not free are those the library holds a pointer to,  *)
(* and each is large enough for what was asked for.                        *)
Backed(h, f) ==
  /\ {p - xHeapStructSize : p \in DOMAIN f} = Blocks(h) \ FreeBlocks(h)
  /\ \A p \in DOMAIN f : /\ p \in Nat /\ f[p] \in Nat \ {0}
                         /\ f[p] <= Payload(h, p)

(* The free list and the block sizes stay what the code walks and adds up, *)
(* and every pointer the library holds has its block.                      *)
HeapOK == Tiled(heap) /\ Listed(heap) /\ Coalesced(heap) /\ Backed(heap, held)

(* Whatever was split, joined, moved and refused before: once the library  *)
(* has released everything (it does on each loss of the agent), the heap   *)
(* is the one block it started as.  Fragments do not add up over sessions. *)
WholeWhenReleased ==
  DOMAIN held = {} =>
    FreeBlocks(heap) = {0} /\ heap.size[0] = pxEnd /\ heap.next[xStart] = 0

(* Whichever block the library may reallocate to whatever size, the bytes  *)
(* it asked for before are kept up to the new size, none is read beyond    *)
(* the old block and none written beyond the new size.                     *)
ReallocKeeps ==
  \A pv \in DOMAIN held, bytes \in Requests :
    /\ Smaller(held[pv], bytes) <= Copied(heap, pv, bytes)
    /\ Copied(heap, pv, bytes) <= bytes
    /\ pv * portBYTE_ALIGNMENT + Copied(heap, pv, bytes)
         <= (pv - xHeapStructSize + heap.size[pv - xHeapStructSize])
              * portBYTE_ALIGNMENT

(* The units that lie in the free blocks.                                  *)
FreeUnits(h) ==
  {u \in 0 .. pxEnd - 1 : \E b \in FreeBlocks(h) : b <= u /\ u < b + h.size[b]}

(* The free units that are counted are the free units there are: no call   *)
(* loses or invents memory, and the lowest count ever seen is no higher    *)
(* than the present one.                                                   *)
Accounted ==
  /\ heap.free = Cardinality(FreeUnits(heap))
  /\ 0 <= heap.minimumEver /\ heap.minimumEver <= heap.free

Promise == INSTANCE Allocator WITH
  Arena <- pxEnd * portBYTE_ALIGNMENT,
  live <- {[start |-> p * portBYTE_ALIGNMENT, length |-> held[p]] :
             p \in DOMAIN held}

(* The heap gives the library what an allocator promises: regions inside   *)
(* the heap that never overlap.                                            *)
ImplementsAllocator == Promise!Spec
=============================================================================
