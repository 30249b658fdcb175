---------------------------- MODULE Heap_proofs ----------------------------
(***************************************************************************)
(* Proofs about the micro-ROS heap, for every size of heap, header, unit   *)
(* and requests.                                                           *)
(***************************************************************************)
EXTENDS Heap, WellFoundedInduction, FiniteSetTheorems, TLAPS

USE DEF xStart

Taken(h) == Blocks(h) \ FreeBlocks(h)
Sound(h) == Tiled(h) /\ Listed(h) /\ Coalesced(h)

Less == {pair \in Nat \X Nat : pair[1] < pair[2]}

(* Every non-empty set of naturals has a lowest element.                   *)
LEMMA LowestExists ==
  ASSUME NEW S \in SUBSET Nat, S # {}
  PROVE  Lowest(S) \in S /\ \A y \in S : Lowest(S) <= y
<1>1. IsWellFoundedOn(Less, Nat)
  BY NatLessThanWellFounded, Zenon DEF OpToRel, Less
<1>2. \E x \in S : \A y \in S : ~ (<<y, x>> \in Less)
  BY <1>1, WFMin, Zenon
<1>3. \A x, y \in Nat : <<y, x>> \in Less <=> y < x
  BY DEF Less
<1>4. \E x \in S : \A y \in S : x <= y
  <2>1. PICK x \in S : \A y \in S : ~ (<<y, x>> \in Less)
    BY <1>2
  <2>2. ASSUME NEW y \in S PROVE x <= y
    <3>1. x \in Nat /\ y \in Nat
      OBVIOUS
    <3>2. ~ (<<y, x>> \in Less)
      BY <2>1
    <3>3. ~ (y < x)
      BY <3>1, <3>2, <1>3, Zenon
    <3> QED
      BY <3>1, <3>3
  <2> QED
    BY <2>2
<1> QED
  BY <1>4, Zenon DEF Lowest

(* The size of a list element's block, and where it ends.                  *)
LEMMA Ends ==
  ASSUME NEW h, Tiled(h), NEW b \in Blocks(h)
  PROVE  /\ b \in Nat /\ b < pxEnd /\ h.size[b] \in Nat /\ 0 < h.size[b]
         /\ b + h.size[b] \in Blocks(h) \union {pxEnd}
         /\ b + h.size[b] <= pxEnd
BY HeapAssumption DEF Tiled, Blocks

(* Around a block that is not on the list: the list element before it and  *)
(* the one after it, with no free block between.                           *)
LEMMA IteratorFound ==
  ASSUME NEW h, Tiled(h), Listed(h), NEW p \in Taken(h)
  PROVE  LET n == Iterator(h, p)
         IN /\ n \in DOMAIN h.next /\ n \in Int /\ n < p
            /\ h.next[n] \in FreeBlocks(h) \union {pxEnd} /\ p < h.next[n]
            /\ \A m \in FreeBlocks(h) : m <= n \/ h.next[n] <= m
            /\ n \in FreeBlocks(h) => n + h.size[n] <= p
            /\ p + h.size[p] <= h.next[n]
<1>1. /\ p \in Nat /\ p < pxEnd /\ p \in Blocks(h) /\ p \notin FreeBlocks(h)
      /\ pxEnd \in Nat
  BY Ends, HeapAssumption DEF Taken
<1>2. \A m \in DOMAIN h.next : m \in Int /\ -1 <= m /\ m < pxEnd
  <2>1. ASSUME NEW m \in FreeBlocks(h) PROVE m \in Nat /\ m < pxEnd
    BY Ends DEF Listed
  <2> QED
    BY <2>1, <1>1 DEF FreeBlocks
<1> DEFINE S == {pxEnd - m : m \in {k \in DOMAIN h.next : k < p}}
<1>3. S \in SUBSET Nat
  BY <1>1, <1>2
<1>4. S # {}
  BY <1>1 DEF Listed
<1>5. PICK m \in DOMAIN h.next :
        m < p /\ \A k \in DOMAIN h.next : k < p => k <= m
  <2>1. Lowest(S) \in S /\ \A y \in S : Lowest(S) <= y
    BY <1>3, <1>4, LowestExists
  <2>2. PICK m \in DOMAIN h.next : m < p /\ Lowest(S) = pxEnd - m
    BY <2>1
  <2>3. ASSUME NEW k \in DOMAIN h.next, k < p PROVE k <= m
    <3>1. pxEnd - m <= pxEnd - k
      BY <2>1, <2>2, <2>3
    <3> QED
      BY <3>1, <1>1, <1>2
  <2> QED
    BY <2>2, <2>3
<1>6. p <= h.next[m]
  <2>1. h.next[m] \in FreeBlocks(h) \union {pxEnd} /\ m < h.next[m]
    BY DEF Listed
  <2>2. CASE h.next[m] = pxEnd
    BY <2>2, <1>1
  <2>3. CASE h.next[m] \in FreeBlocks(h)
    <3>1. h.next[m] \in DOMAIN h.next /\ h.next[m] \in Int /\ m \in Int
      BY <2>3, <1>2 DEF FreeBlocks
    <3> QED
      BY <3>1, <2>1, <1>1, <1>5
  <2> QED
    BY <2>1, <2>2, <2>3
<1> DEFINE n == Iterator(h, p)
<1>7. n \in DOMAIN h.next /\ n < p /\ p <= h.next[n]
  BY <1>5, <1>6 DEF Iterator
<1> HIDE DEF n
<1>8. n \in Int /\ h.next[n] \in FreeBlocks(h) \union {pxEnd}
  BY <1>7, <1>2 DEF Listed
<1>9. p < h.next[n]
  <2>1. h.next[n] # p
    BY <1>1, <1>8
  <2>2. h.next[n] \in Int
    BY <1>8, <1>1, <1>2 DEF FreeBlocks
  <2> QED
    BY <2>1, <2>2, <1>1, <1>7
<1>10. \A k \in FreeBlocks(h) : k <= n \/ h.next[n] <= k
  BY <1>7, <1>8, <1>2 DEF Listed, FreeBlocks
<1>11. n \in FreeBlocks(h) => n + h.size[n] <= p
  BY <1>1, <1>7 DEF Tiled, Listed
<1>12. p + h.size[p] <= h.next[n]
  <2>1. CASE h.next[n] = pxEnd
    BY <2>1, <1>1, Ends
  <2>2. CASE h.next[n] \in Blocks(h)
    BY <2>2, <1>1, <1>9 DEF Tiled
  <2> QED
    BY <2>1, <2>2, <1>8 DEF Listed
<1> QED
  BY <1>7, <1>8, <1>9, <1>10, <1>11, <1>12 DEF n

(* A block that joins the free list keeps the heap sound and is the only   *)
(* one that is no longer taken; the other taken blocks keep their sizes.   *)
LEMMA InsertKeeps ==
  ASSUME NEW h, Sound(h), NEW p \in Taken(h)
  PROVE  LET g == prvInsertBlockIntoFreeList(h, p)
         IN /\ Sound(g)
            /\ Taken(g) = Taken(h) \ {p}
            /\ \A b \in Taken(g) : g.size[b] = h.size[b]
<1> DEFINE g == prvInsertBlockIntoFreeList(h, p)
           n == Iterator(h, p)
           a == h.next[n]
           jb == JoinsBefore(h, p)
           ja == JoinsAfter(h, p)
           lo == IF jb THEN n ELSE p
           hi == IF ja THEN a + h.size[a] ELSE p + h.size[p]
           s == IF ja THEN h.next[a] ELSE a
           absorbed == (IF jb THEN {p} ELSE {}) \union (IF ja THEN {a} ELSE {})
           joined == h.size[p] + (IF jb THEN h.size[n] ELSE 0)
                               + (IF ja THEN h.size[a] ELSE 0)
<1>1. /\ DOMAIN g.next = (DOMAIN h.next \union {lo}) \ absorbed
      /\ \A m \in DOMAIN g.next :
           g.next[m] = IF m = lo THEN s ELSE IF m = n THEN lo ELSE h.next[m]
      /\ DOMAIN g.size = DOMAIN h.size \ absorbed
      /\ \A b \in DOMAIN g.size : g.size[b] = IF b = lo THEN joined ELSE h.size[b]
  BY DEF prvInsertBlockIntoFreeList
<1>2. /\ n \in DOMAIN h.next /\ n \in Int /\ n < p
      /\ a \in FreeBlocks(h) \union {pxEnd} /\ p < a
      /\ \A m \in FreeBlocks(h) : m <= n \/ a <= m
      /\ p + h.size[p] <= a
  BY IteratorFound DEF Sound
<1>3. /\ jb <=> n # -1 /\ n + h.size[n] = p
      /\ ja <=> a # pxEnd /\ p + h.size[p] = a
  BY DEF JoinsBefore, JoinsAfter
<1>4. /\ lo = IF jb THEN n ELSE p
      /\ hi = IF ja THEN a + h.size[a] ELSE p + h.size[p]
      /\ s = IF ja THEN h.next[a] ELSE a
      /\ absorbed = (IF jb THEN {p} ELSE {}) \union (IF ja THEN {a} ELSE {})
      /\ joined = h.size[p] + (IF jb THEN h.size[n] ELSE 0)
                            + (IF ja THEN h.size[a] ELSE 0)
      /\ a = h.next[n]
      /\ jb \in BOOLEAN /\ ja \in BOOLEAN
  BY DEF JoinsBefore, JoinsAfter
<1> HIDE DEF g, n, a, jb, ja, lo, hi, s, absorbed, joined
<1>5. /\ p \in Blocks(h) /\ p \notin FreeBlocks(h) /\ pxEnd \in Nat
      /\ p \in Nat /\ p < pxEnd /\ h.size[p] \in Nat /\ 0 < h.size[p]
      /\ p + h.size[p] \in Blocks(h) \union {pxEnd}
  BY Ends, HeapAssumption DEF Taken, Sound
<1>6. \A b \in FreeBlocks(h) :
        b \in Blocks(h) /\ b \in DOMAIN h.next /\ b \in Nat /\ b < pxEnd
  <2>1. \A b \in FreeBlocks(h) : b \in Blocks(h) /\ b \in DOMAIN h.next
    BY DEF Sound, Listed, FreeBlocks
  <2> QED BY <2>1, Ends DEF Sound
<1>7. ja => /\ a \in FreeBlocks(h) /\ a \in Blocks(h) /\ a \in Nat /\ h.size[a] \in Nat
            /\ 0 < h.size[a] /\ a + h.size[a] \in Blocks(h) \union {pxEnd}
            /\ p + h.size[p] = a
  BY <1>2, <1>3, <1>6, Ends DEF Sound
<1>8. jb => /\ n \in FreeBlocks(h) /\ n \in Blocks(h) /\ n \in Nat /\ h.size[n] \in Nat
            /\ 0 < h.size[n] /\ n + h.size[n] = p
  <2>1. jb => n \in FreeBlocks(h)
    BY <1>2, <1>3 DEF FreeBlocks
  <2> QED
    BY <2>1, <1>3, <1>6, Ends DEF Sound
<1>9. a \in Nat
  <2>1. \A b \in FreeBlocks(h) : b \in Nat
    BY <1>6, Ends DEF Sound
  <2> QED
    BY <2>1, <1>2, <1>5
<1>10. /\ lo \in Blocks(h) /\ lo \in Nat /\ n <= lo /\ lo <= p
       /\ joined \in Nat /\ 0 < joined /\ lo + joined = hi
       /\ hi \in Blocks(h) \union {pxEnd} /\ p < hi
       /\ absorbed \subseteq {p, a}
       /\ lo \notin absorbed /\ hi \notin absorbed
  <2>1. CASE jb /\ ja BY <2>1, <1>2, <1>4, <1>5, <1>7, <1>8, <1>9
  <2>2. CASE jb /\ ~ja BY <2>2, <1>2, <1>4, <1>5, <1>8, <1>9
  <2>3. CASE ~jb /\ ja BY <2>3, <1>2, <1>4, <1>5, <1>7, <1>9
  <2>4. CASE ~jb /\ ~ja BY <2>4, <1>2, <1>4, <1>5, <1>9
  <2> QED BY <2>1, <2>2, <2>3, <2>4
<1>11. /\ Blocks(g) = Blocks(h) \ absorbed
       /\ FreeBlocks(g) = (FreeBlocks(h) \union {lo}) \ absorbed
       /\ lo # -1
  BY <1>1, <1>10 DEF Blocks, FreeBlocks
(* The remaining blocks other than the joined one keep size and end.       *)
<1>12. ASSUME NEW b \in Blocks(g), b # lo
       PROVE  /\ b \in Blocks(h) /\ b \in Nat /\ h.size[b] \in Nat /\ 0 < h.size[b]
              /\ g.size[b] = h.size[b] /\ b # p
              /\ b + h.size[b] \in DOMAIN h.size
              /\ b + h.size[b] \notin absorbed
  <2>1. b \in Blocks(h) /\ b \notin absorbed
    BY <1>11
  <2>2. b \in Nat /\ h.size[b] \in Nat /\ 0 < h.size[b] /\ b + h.size[b] \in DOMAIN h.size
    BY <2>1 DEF Sound, Tiled
  <2>3. g.size[b] = h.size[b]
    BY <1>1, <1>12 DEF Blocks
  <2>4. b # p
    BY <1>4, <1>12, <2>1
  <2>5. \A c \in Blocks(h) :
          /\ b < c => b + h.size[b] <= c
          /\ c < b => c + h.size[c] <= b
    BY <2>1 DEF Sound, Tiled
  <2>6. jb => b + h.size[b] # p
    <3>1. jb => b # n
      BY <1>4, <1>12
    <3> QED
      BY <3>1, <2>2, <2>5, <1>5, <1>8
  <2>7. ja => b + h.size[b] # a
    BY <2>2, <2>4, <2>5, <1>5, <1>7
  <2> QED
    BY <2>1, <2>2, <2>3, <2>4, <2>6, <2>7, <1>4
<1>13. lo \in Blocks(g) /\ g.size[lo] = joined
  BY <1>1, <1>10, <1>11 DEF Blocks
<1>14. ASSUME NEW c \in Blocks(g), lo < c PROVE hi <= c
  <2>1. c \in Blocks(h) /\ c \notin absorbed /\ c \in Nat
    BY <1>11, Ends DEF Sound
  <2>2. \A b \in Blocks(h) : b < c => b + h.size[b] <= c
    BY <2>1 DEF Sound, Tiled
  <2>3. p < c
    <3>1. CASE jb
      <4>1. p <= c BY <3>1, <2>2, <1>4, <1>8, <1>14
      <4>2. c # p BY <3>1, <2>1, <1>4
      <4> QED BY <4>1, <4>2, <2>1, <1>5
    <3>2. CASE ~jb BY <3>2, <1>4, <1>14
    <3> QED BY <3>1, <3>2
  <2>4. p + h.size[p] <= c
    BY <2>2, <2>3, <1>5
  <2>5. CASE ja
    <3>1. a < c BY <2>1, <2>4, <2>5, <1>4, <1>7
    <3> QED BY <3>1, <2>2, <2>5, <1>4, <1>7
  <2>6. CASE ~ja
    BY <2>4, <2>6, <1>4
  <2> QED BY <2>5, <2>6
<1>15. Tiled(g)
  <2>1. 0 \in Blocks(g)
    BY <1>2, <1>4, <1>5, <1>8, <1>9, <1>11 DEF Sound, Tiled
  <2>2. pxEnd \in DOMAIN g.size
    <3>1. pxEnd \in DOMAIN h.size BY DEF Sound, Tiled
    <3>2. pxEnd \notin absorbed
      BY <1>3, <1>4, <1>5
    <3> QED BY <3>1, <3>2, <1>1
  <2>3. ASSUME NEW b \in Blocks(g)
        PROVE  /\ b \in 0 .. pxEnd - 1
               /\ g.size[b] \in Nat \ {0}
               /\ b + g.size[b] \in DOMAIN g.size
               /\ \A c \in Blocks(g) : b < c => b + g.size[b] <= c
    <3>1. b \in Blocks(h) /\ b \in 0 .. pxEnd - 1
      BY <1>11 DEF Sound, Tiled
    <3>2. CASE b = lo
      <4>1. hi \in DOMAIN g.size
        BY <1>1, <1>10, <2>2 DEF Blocks
      <4> QED
        BY <3>1, <3>2, <4>1, <1>10, <1>13, <1>14
    <3>3. CASE b # lo
      <4>1. \A c \in Blocks(g) : b < c => b + h.size[b] <= c
        BY <3>1, <1>11 DEF Sound, Tiled
      <4> QED
        BY <3>1, <3>3, <4>1, <1>1, <1>12
    <3> QED BY <3>2, <3>3
  <2> QED
    BY <2>1, <2>2, <2>3 DEF Tiled
<1>16. \A m \in DOMAIN h.next :
         /\ h.next[m] \in FreeBlocks(h) \union {pxEnd}
         /\ m \in Int /\ -1 <= m /\ h.next[m] \in Int /\ m < h.next[m]
         /\ \A k \in FreeBlocks(h) : m < k => h.next[m] <= k
  <2>1. \A b \in FreeBlocks(h) : b \in Nat
    BY <1>6, Ends DEF Sound
  <2>2. \A m \in DOMAIN h.next : m \in Int /\ -1 <= m
    BY <2>1 DEF FreeBlocks
  <2> QED
    BY <2>1, <2>2, <1>5 DEF Sound, Listed
<1>17. Listed(g)
  <2>1. -1 \in DOMAIN g.next
    <3>1. -1 \in DOMAIN h.next BY DEF Sound, Listed
    <3> QED BY <3>1, <1>1, <1>5, <1>9, <1>10
  <2>2. FreeBlocks(g) \subseteq Blocks(g)
    BY <1>6, <1>10, <1>11
  <2>3. ASSUME NEW m \in DOMAIN g.next
        PROVE  /\ g.next[m] \in FreeBlocks(g) \union {pxEnd}
               /\ m < g.next[m]
               /\ \A k \in FreeBlocks(g) : m < k => g.next[m] <= k
    <3>1. CASE m = lo
      <4>1. g.next[m] = s
        BY <3>1, <1>1
      <4>2. s \in FreeBlocks(h) \union {pxEnd} /\ s \in Int /\ a <= s /\ (ja => a < s)
        BY <1>2, <1>4, <1>6, <1>7, <1>9, <1>16
      <4>3. s \in FreeBlocks(g) \union {pxEnd}
        <5>1. s \notin absorbed
          BY <4>2, <1>2, <1>4, <1>5, <1>9
        <5> QED BY <5>1, <4>2, <1>11
      <4>4. lo < s
        BY <4>2, <1>2, <1>5, <1>9, <1>10
      <4>5. ASSUME NEW k \in FreeBlocks(g), lo < k PROVE s <= k
        <5>1. k \in FreeBlocks(h) /\ k \notin absorbed /\ k \in Nat
          <6>1. k # lo BY <4>5, <1>10
          <6> QED BY <6>1, <1>6, <1>11
        <5>2. a <= k
          BY <5>1, <4>5, <1>2, <1>9, <1>10
        <5>3. CASE ja
          <6>1. a < k BY <5>1, <5>2, <5>3, <1>4, <1>9
          <6> QED BY <6>1, <5>1, <5>3, <1>4, <1>6, <1>7, <1>16
        <5>4. CASE ~ja
          BY <5>2, <5>4, <1>4
        <5> QED BY <5>3, <5>4
      <4> QED BY <3>1, <4>1, <4>3, <4>4, <4>5
    <3>2. CASE m # lo /\ m = n
      <4>1. g.next[m] = lo /\ lo = p
        BY <3>2, <1>1, <1>4
      <4>2. p \in FreeBlocks(g)
        BY <4>1, <1>10, <1>11
      <4>3. ASSUME NEW k \in FreeBlocks(g), n < k PROVE p <= k
        <5>1. CASE k = p BY <5>1, <1>5
        <5>2. CASE k # p
          <6>1. k \in FreeBlocks(h) /\ k \in Nat
            BY <5>2, <4>1, <1>6, <1>11
          <6> QED BY <6>1, <4>3, <1>2, <1>5, <1>9
        <5> QED BY <5>1, <5>2
      <4> QED BY <3>2, <4>1, <4>2, <4>3, <1>2
    <3>3. CASE m # lo /\ m # n
      <4>1. g.next[m] = h.next[m] /\ m \in DOMAIN h.next
        BY <3>3, <1>1
      <4>2. m \in Int /\ -1 <= m /\ h.next[m] \in Int /\ m < h.next[m]
            /\ h.next[m] \in FreeBlocks(h) \union {pxEnd}
        BY <4>1, <1>16
      <4>3. m < n => h.next[m] <= n
        <5>1. m < n => n \in FreeBlocks(h)
          BY <4>2, <1>2 DEF FreeBlocks
        <5> QED BY <5>1, <4>1, <1>16
      <4>4. n < m => a <= m
        <5>1. n < m => m \in FreeBlocks(h)
          BY <4>1, <4>2, <1>2, <1>16 DEF FreeBlocks
        <5> QED BY <5>1, <1>2, <1>4, <1>16
      <4>5. h.next[m] \notin absorbed
        <5>1. h.next[m] # a
          BY <3>3, <4>2, <4>3, <4>4, <1>2, <1>5, <1>9
        <5>2. h.next[m] # p
          BY <4>2, <1>5
        <5> QED BY <5>1, <5>2, <1>10
      <4>6. ASSUME NEW k \in FreeBlocks(g), m < k PROVE h.next[m] <= k
        <5>1. CASE k \in FreeBlocks(h)
          BY <5>1, <4>1, <4>6, <1>16
        <5>2. CASE k \notin FreeBlocks(h)
          <6>1. k = p
            BY <5>2, <1>4, <1>8, <1>11
          <6>2. m < n
            BY <6>1, <3>3, <4>2, <4>4, <4>6, <1>2, <1>5, <1>9
          <6> QED BY <6>1, <6>2, <4>2, <4>3, <1>2, <1>5
        <5> QED BY <5>1, <5>2
      <4> QED BY <4>1, <4>2, <4>5, <4>6, <1>11
    <3> QED BY <3>1, <3>2, <3>3
  <2> QED
    BY <2>1, <2>2, <2>3 DEF Listed
<1>18. Coalesced(g)
  <2> SUFFICES ASSUME NEW b \in FreeBlocks(g) PROVE b + g.size[b] \notin FreeBlocks(g)
    BY DEF Coalesced
  <2>1. CASE b = lo
    <3>1. b + g.size[b] = hi /\ hi # lo
      BY <2>1, <1>5, <1>10, <1>13
    <3>2. hi \notin FreeBlocks(h)
      <4>1. CASE ja
        BY <4>1, <1>4, <1>7 DEF Sound, Coalesced
      <4>2. CASE ~ja
        <5>1. ASSUME hi \in FreeBlocks(h) PROVE FALSE
          <6>1. hi \in Nat /\ hi # pxEnd
            BY <5>1, <1>5, <1>6
          <6>2. a <= hi
            BY <5>1, <6>1, <1>2, <1>5, <1>9, <1>10
          <6>3. hi = p + h.size[p] /\ hi = a
            BY <4>2, <6>1, <6>2, <1>2, <1>4, <1>5, <1>9
          <6> QED BY <4>2, <6>1, <6>3, <1>3
        <5> QED BY <5>1
      <4> QED BY <4>1, <4>2
    <3> QED BY <3>1, <3>2, <1>11
  <2>2. CASE b # lo
    <3>1. b \in FreeBlocks(h) /\ b \in Blocks(g)
      BY <2>2, <1>6, <1>11
    <3>2. b + h.size[b] \notin FreeBlocks(h)
      BY <3>1 DEF Sound, Coalesced
    <3>3. g.size[b] = h.size[b] /\ b \in Nat /\ h.size[b] \in Nat /\ 0 < h.size[b]
      BY <2>2, <3>1, <1>12
    <3>4. CASE jb
      BY <3>2, <3>3, <3>4, <1>4, <1>8, <1>11
    <3>5. CASE ~jb
      <4>1. ASSUME b + h.size[b] = p PROVE FALSE
        <5>1. b <= n
          BY <3>1, <3>3, <4>1, <1>2, <1>5, <1>9
        <5>2. b # n
          BY <3>3, <3>5, <4>1, <1>3
        <5>3. n \in FreeBlocks(h)
          BY <5>1, <5>2, <3>3, <1>2 DEF FreeBlocks
        <5>4. b + h.size[b] <= n
          BY <5>1, <5>2, <5>3, <3>1, <3>3, <1>2, <1>6 DEF Sound, Tiled
        <5> QED BY <5>4, <4>1, <1>2, <1>5
      <4> QED BY <3>2, <3>3, <3>5, <4>1, <1>4, <1>11
    <3> QED BY <3>4, <3>5
  <2> QED BY <2>1, <2>2
<1>19. Taken(g) = Taken(h) \ {p}
  BY <1>4, <1>5, <1>7, <1>8, <1>11 DEF Taken
<1>20. \A b \in Taken(g) : g.size[b] = h.size[b]
  BY <1>10, <1>11, <1>12 DEF Taken
<1> QED
  BY <1>15, <1>17, <1>18, <1>19, <1>20 DEF Sound, g

(* A block that leaves the list is one more taken block.                   *)
LEMMA UnlinkKeeps ==
  ASSUME NEW h, Sound(h), NEW block \in FreeBlocks(h)
  PROVE  LET g == Unlink(h, block)
         IN Sound(g) /\ Taken(g) = Taken(h) \union {block} /\ g.size = h.size
<1> DEFINE g == Unlink(h, block)
<1>1. /\ DOMAIN g.next = DOMAIN h.next \ {block}
      /\ \A m \in DOMAIN g.next :
           g.next[m] = IF h.next[m] = block THEN h.next[block] ELSE h.next[m]
      /\ g.size = h.size
  BY DEF Unlink
<1> HIDE DEF g
<1>2. \A b \in FreeBlocks(h) :
        b \in Blocks(h) /\ b \in DOMAIN h.next /\ b \in Nat /\ b < pxEnd
  <2>1. \A b \in FreeBlocks(h) : b \in Blocks(h) /\ b \in DOMAIN h.next
    BY DEF Sound, Listed, FreeBlocks
  <2> QED BY <2>1, Ends DEF Sound
<1>3. Blocks(g) = Blocks(h) /\ FreeBlocks(g) = FreeBlocks(h) \ {block}
  BY <1>1 DEF Blocks, FreeBlocks
<1>4. \A m \in DOMAIN h.next :
         /\ h.next[m] \in FreeBlocks(h) \union {pxEnd}
         /\ m \in Int /\ h.next[m] \in Int /\ m < h.next[m]
         /\ \A k \in FreeBlocks(h) : m < k => h.next[m] <= k
  <2>1. \A m \in DOMAIN h.next : m \in Int
    BY <1>2 DEF FreeBlocks
  <2> QED
    BY <2>1, <1>2, HeapAssumption DEF Sound, Listed
<1>5. Tiled(g)
  BY <1>1, <1>3 DEF Sound, Tiled
<1>6. Listed(g)
  <2>1. -1 \in DOMAIN g.next
    BY <1>1, <1>2 DEF Sound, Listed
  <2>2. ASSUME NEW m \in DOMAIN g.next
        PROVE  /\ g.next[m] \in FreeBlocks(g) \union {pxEnd}
               /\ m < g.next[m]
               /\ \A k \in FreeBlocks(g) : m < k => g.next[m] <= k
    <3>1. m \in DOMAIN h.next /\ block \in DOMAIN h.next /\ block \in Int
      BY <1>1, <1>2
    <3>2. CASE h.next[m] = block
      <4>1. g.next[m] = h.next[block]
        BY <1>1, <3>2
      <4>2. h.next[block] \in FreeBlocks(g) \union {pxEnd}
        BY <3>1, <1>3, <1>4
      <4>3. m < h.next[block]
        BY <3>1, <3>2, <1>4
      <4>4. ASSUME NEW k \in FreeBlocks(g), m < k PROVE h.next[block] <= k
        <5>1. k \in FreeBlocks(h) /\ k # block /\ k \in Int
          BY <1>2, <1>3
        <5>2. block < k
          BY <5>1, <4>4, <3>1, <3>2, <1>4
        <5> QED BY <5>1, <5>2, <3>1, <1>4
      <4> QED BY <4>1, <4>2, <4>3, <4>4
    <3>3. CASE h.next[m] # block
      BY <3>1, <3>3, <1>1, <1>3, <1>4
    <3> QED BY <3>2, <3>3
  <2> QED
    BY <2>1, <2>2, <1>2, <1>3 DEF Listed
<1>7. Coalesced(g)
  BY <1>1, <1>3 DEF Sound, Coalesced
<1>8. Taken(g) = Taken(h) \union {block}
  BY <1>2, <1>3 DEF Taken
<1> QED
  BY <1>1, <1>5, <1>6, <1>7, <1>8 DEF Sound, g

(* A taken block that is divided becomes two.                              *)
LEMMA DivideKeeps ==
  ASSUME NEW h, Sound(h), NEW block \in Taken(h),
         NEW wanted \in Nat \ {0}, wanted < h.size[block]
  PROVE  LET g == Divide(h, block, wanted)
         IN /\ Sound(g)
            /\ Taken(g) = Taken(h) \union {block + wanted}
            /\ block + wanted \notin Taken(h)
            /\ g.size[block] = wanted
            /\ \A b \in Taken(h) : b # block => g.size[b] = h.size[b]
<1> DEFINE g == Divide(h, block, wanted)
           rest == block + wanted
<1>1. /\ g.next = h.next
      /\ DOMAIN g.size = DOMAIN h.size \union {rest}
      /\ \A b \in DOMAIN g.size :
           g.size[b] = IF b = block THEN wanted
                       ELSE IF b = rest THEN h.size[block] - wanted ELSE h.size[b]
  BY DEF Divide
<1>2. /\ block \in Blocks(h) /\ block \notin FreeBlocks(h) /\ block \in Nat
      /\ h.size[block] \in Nat /\ block + h.size[block] <= pxEnd /\ pxEnd \in Nat
      /\ rest \in Nat /\ block < rest /\ rest < block + h.size[block]
      /\ block + h.size[block] \in DOMAIN h.size
  <2>1. block \in Blocks(h) /\ block \notin FreeBlocks(h)
    BY DEF Taken
  <2>2. block + h.size[block] \in DOMAIN h.size
    BY <2>1 DEF Sound, Tiled
  <2> QED
    BY <2>1, <2>2, Ends, HeapAssumption DEF Sound
<1> HIDE DEF g, rest
<1>3. \A b \in Blocks(h) :
        /\ b \in Nat /\ b < pxEnd /\ h.size[b] \in Nat /\ 0 < h.size[b]
        /\ b + h.size[b] \in DOMAIN h.size
        /\ \A c \in Blocks(h) : b < c => b + h.size[b] <= c
  BY HeapAssumption DEF Sound, Tiled
<1>4. rest \notin Blocks(h) /\ rest # pxEnd /\ rest # block
  BY <1>2, <1>3
<1>5. /\ Blocks(g) = Blocks(h) \union {rest}
      /\ FreeBlocks(g) = FreeBlocks(h)
      /\ g.size[block] = wanted /\ g.size[rest] = h.size[block] - wanted
      /\ \A b \in Blocks(h) : b # block => g.size[b] = h.size[b]
  BY <1>1, <1>2, <1>4 DEF Blocks, FreeBlocks
<1>6. Tiled(g)
  <2>1. 0 \in Blocks(g) /\ pxEnd \in DOMAIN g.size
    BY <1>1, <1>5 DEF Sound, Tiled
  <2>2. ASSUME NEW b \in Blocks(g)
        PROVE  /\ b \in 0 .. pxEnd - 1
               /\ g.size[b] \in Nat \ {0}
               /\ b + g.size[b] \in DOMAIN g.size
               /\ \A c \in Blocks(g) : b < c => b + g.size[b] <= c
    <3>1. CASE b = block
      <4>1. b + g.size[b] = rest
        BY <3>1, <1>5 DEF rest
      <4>2. \A c \in Blocks(g) : b < c => rest <= c
        BY <3>1, <1>2, <1>3, <1>5
      <4> QED
        BY <3>1, <4>1, <4>2, <1>1, <1>2, <1>5
    <3>2. CASE b = rest
      <4>1. b + g.size[b] = block + h.size[block]
        BY <3>2, <1>2, <1>5 DEF rest
      <4>2. \A c \in Blocks(g) : b < c => block + h.size[block] <= c
        BY <3>2, <1>2, <1>3, <1>5
      <4>3. g.size[b] \in Nat \ {0}
        BY <3>2, <1>2, <1>5
      <4> QED
        BY <3>2, <4>1, <4>2, <4>3, <1>1, <1>2, <1>5
    <3>3. CASE b \in Blocks(h) /\ b # block
      <4>1. g.size[b] = h.size[b]
        BY <3>3, <1>5
      <4>2. \A c \in Blocks(g) : b < c => b + h.size[b] <= c
        <5>1. /\ b \in Nat /\ h.size[b] \in Nat
              /\ b < block => b + h.size[b] <= block
              /\ block < b => block + h.size[block] <= b
          <6>1. b \in Blocks(h) /\ block \in Blocks(h)
            BY <3>3 DEF Taken
          <6> QED BY <6>1, <1>3, Zenon
        <5>2. block \in Nat /\ rest \in Nat /\ h.size[block] \in Nat
              /\ block < rest /\ rest < block + h.size[block]
          BY <1>2
        <5>3. b < block \/ block < b
          BY <3>3, <5>1, <5>2
        <5>4. b < rest => b + h.size[b] <= rest
          BY <5>1, <5>2, <5>3
        <5> QED BY <5>4, <3>3, <1>3, <1>5
      <4>3. b \in 0 .. pxEnd - 1 /\ h.size[b] \in Nat \ {0}
        BY <3>3 DEF Sound, Tiled
      <4>4. b + h.size[b] \in DOMAIN g.size
        BY <3>3, <1>1, <1>3
      <4> QED
        BY <4>1, <4>2, <4>3, <4>4
    <3> QED BY <3>1, <3>2, <3>3, <1>5
  <2> QED BY <2>1, <2>2 DEF Tiled
<1>7. Listed(g)
  BY <1>1, <1>5 DEF Sound, Listed
<1>8. Coalesced(g)
  <2>1. \A b \in FreeBlocks(h) : g.size[b] = h.size[b]
    BY <1>2, <1>5 DEF Sound, Listed
  <2> QED BY <2>1, <1>5 DEF Sound, Coalesced
<1>9. rest \notin FreeBlocks(h)
  BY <1>4 DEF Sound, Listed
<1> QED
  BY <1>4, <1>5, <1>6, <1>7, <1>8, <1>9 DEF Sound, Taken, g, rest

(* A free block that is carved: it is taken, holds what was wanted, and    *)
(* what exceeded that is free again.                                       *)
LEMMA CarveKeeps ==
  ASSUME NEW h, Sound(h), NEW block \in FreeBlocks(h),
         NEW wanted \in Nat \ {0}, wanted <= h.size[block]
  PROVE  LET g == Carve(h, block, wanted)
         IN /\ Sound(g)
            /\ Taken(g) = Taken(h) \union {block}
            /\ wanted <= g.size[block]
            /\ \A b \in Taken(h) : g.size[b] = h.size[b]
<1> DEFINE u == Unlink(h, block)
           d == Divide(u, block, wanted)
           rest == block + wanted
           g == prvInsertBlockIntoFreeList(d, rest)
<1>1. Sound(u) /\ Taken(u) = Taken(h) \union {block} /\ u.size = h.size
  BY UnlinkKeeps
<1>2. block \in Blocks(h) /\ block \notin Taken(h) /\ h.size[block] \in Nat
  <2>1. block \in Blocks(h) /\ block \notin Taken(h)
    BY DEF Sound, Listed, Taken
  <2> QED BY <2>1, Ends DEF Sound
<1>3. CASE h.size[block] - wanted > heapMINIMUM_BLOCK_SIZE
  <2>1. wanted < u.size[block]
    BY <1>1, <1>2, <1>3, HeapAssumption DEF heapMINIMUM_BLOCK_SIZE
  <2>2. /\ Sound(d) /\ Taken(d) = Taken(u) \union {rest} /\ rest \notin Taken(u)
        /\ d.size[block] = wanted
        /\ \A b \in Taken(u) : b # block => d.size[b] = u.size[b]
    BY <1>1, <2>1, DivideKeeps
  <2>3. /\ Sound(g) /\ Taken(g) = Taken(d) \ {rest}
        /\ \A b \in Taken(g) : g.size[b] = d.size[b]
    BY <2>2, InsertKeeps
  <2>4. Carve(h, block, wanted) = g
    BY <1>3 DEF Carve
  <2> HIDE DEF u, d, rest, g
  <2>5. Taken(g) = Taken(h) \union {block}
    BY <1>1, <2>2, <2>3
  <2>6. g.size[block] = wanted
    BY <2>2, <2>3, <2>5
  <2>7. \A b \in Taken(h) : g.size[b] = h.size[b]
    BY <1>1, <1>2, <2>2, <2>3, <2>5
  <2> QED
    BY <2>3, <2>4, <2>5, <2>6, <2>7
<1>4. CASE ~ (h.size[block] - wanted > heapMINIMUM_BLOCK_SIZE)
  <2>1. Carve(h, block, wanted) = u
    BY <1>4 DEF Carve
  <2> QED BY <2>1, <1>1
<1> QED BY <1>3, <1>4

-----------------------------------------------------------------------------
(* The blocks the library holds, through steps that change the two         *)
(* counters besides.                                                       *)

Same(g, h) == g.next = h.next /\ g.size = h.size

LEMMA SameKeeps ==
  ASSUME NEW g, NEW h, Same(g, h)
  PROVE  (Sound(g) <=> Sound(h)) /\ Taken(g) = Taken(h)
BY DEF Same, Sound, Tiled, Listed, Coalesced, Taken, Blocks, FreeBlocks

(* What is wanted for a request holds it.                                  *)
LEMMA WantedHolds ==
  ASSUME NEW bytes \in Nat
  PROVE  /\ Wanted(bytes) \in Nat \ {0}
         /\ bytes <= (Wanted(bytes) - xHeapStructSize) * portBYTE_ALIGNMENT
<1> DEFINE units == (bytes + portBYTE_ALIGNMENT - 1) \div portBYTE_ALIGNMENT
<1>1. units \in Nat
  BY HeapAssumption
<1>2. bytes <= units * portBYTE_ALIGNMENT
  BY HeapAssumption
<1> QED
  BY <1>1, <1>2, HeapAssumption DEF Wanted

(* An allocation that is not refused.                                      *)
LEMMA MallocKeeps ==
  ASSUME NEW h, Sound(h), NEW bytes \in Nat, ~Refused(h, bytes)
  PROVE  LET got == pvPortMallocMicroROS(h, bytes)
         IN \E block \in FreeBlocks(h) :
              /\ got.pointer = block + xHeapStructSize
              /\ Sound(got.heap)
              /\ Taken(got.heap) = Taken(h) \union {block}
              /\ Wanted(bytes) <= got.heap.size[block]
              /\ \A b \in Taken(h) : got.heap.size[b] = h.size[b]
<1> DEFINE block == Lowest(Fitting(h, bytes))
           carved == Carve(h, block, Wanted(bytes))
           got == pvPortMallocMicroROS(h, bytes)
<1>1. \A b \in FreeBlocks(h) : b \in Nat /\ h.size[b] \in Nat
  BY Ends DEF Sound, Listed
<1>2. block \in Fitting(h, bytes)
  <2>1. Fitting(h, bytes) \in SUBSET Nat /\ Fitting(h, bytes) # {}
    BY <1>1 DEF Fitting, Refused
  <2> QED BY <2>1, LowestExists
<1>3. got.pointer = block + xHeapStructSize /\ Same(got.heap, carved)
  BY DEF pvPortMallocMicroROS, Take, Same
<1> HIDE DEF block
<1>4. block \in FreeBlocks(h) /\ Wanted(bytes) <= h.size[block]
  BY <1>2 DEF Fitting
<1>5. /\ Sound(carved) /\ Taken(carved) = Taken(h) \union {block}
      /\ Wanted(bytes) <= carved.size[block]
      /\ \A b \in Taken(h) : carved.size[b] = h.size[b]
  BY <1>4, CarveKeeps, WantedHolds
<1> HIDE DEF carved, got
<1>6. Sound(got.heap) /\ Taken(got.heap) = Taken(carved) /\ got.heap.size = carved.size
  BY <1>3, <1>5, SameKeeps DEF Same
<1> QED
  BY <1>3, <1>4, <1>5, <1>6 DEF got

LEMMA FreeKeeps ==
  ASSUME NEW h, Sound(h), NEW pv, pv - xHeapStructSize \in Taken(h)
  PROVE  LET g == vPortFreeMicroROS(h, pv)
         IN /\ Sound(g)
            /\ Taken(g) = Taken(h) \ {pv - xHeapStructSize}
            /\ \A b \in Taken(g) : g.size[b] = h.size[b]
<1> DEFINE freed == prvInsertBlockIntoFreeList(h, pv - xHeapStructSize)
           g == vPortFreeMicroROS(h, pv)
<1>1. Same(g, freed)
  BY DEF vPortFreeMicroROS, Same
<1>2. /\ Sound(freed) /\ Taken(freed) = Taken(h) \ {pv - xHeapStructSize}
      /\ \A b \in Taken(freed) : freed.size[b] = h.size[b]
  BY InsertKeeps
<1> HIDE DEF freed, g
<1>3. Sound(g) /\ Taken(g) = Taken(freed) /\ g.size = freed.size
  BY <1>1, <1>2, SameKeeps DEF Same
<1> QED
  BY <1>2, <1>3 DEF g
-----------------------------------------------------------------------------
(* What the library holds.                                                 *)

Grown(f, p, bytes) == [q \in DOMAIN f \union {p} |-> IF q = p THEN bytes ELSE f[q]]
Without(f, p) == [q \in DOMAIN f \ {p} |-> f[q]]

LEMMA GrowBacked ==
  ASSUME NEW h, Sound(h), NEW f, Backed(h, f), NEW bytes \in Nat, ~Refused(h, bytes)
  PROVE  LET got == pvPortMallocMicroROS(h, bytes)
         IN /\ Sound(got.heap)
            /\ Backed(got.heap, Grown(f, got.pointer, bytes))
            /\ got.pointer \notin DOMAIN f
            /\ got.pointer # NULL
<1> DEFINE got == pvPortMallocMicroROS(h, bytes)
           f2 == Grown(f, got.pointer, bytes)
<1>1. PICK block \in FreeBlocks(h) :
        /\ got.pointer = block + xHeapStructSize
        /\ Sound(got.heap)
        /\ Taken(got.heap) = Taken(h) \union {block}
        /\ Wanted(bytes) <= got.heap.size[block]
        /\ \A b \in Taken(h) : got.heap.size[b] = h.size[b]
  BY MallocKeeps
<1> HIDE DEF got
<1>2. block \in Nat /\ block \notin Taken(h)
  BY Ends DEF Sound, Listed, Taken
<1>3. {p - xHeapStructSize : p \in DOMAIN f} = Taken(h) /\ \A p \in DOMAIN f : p \in Nat
  BY DEF Backed, Taken
<1>4. got.pointer \in Nat /\ got.pointer # 0 /\ got.pointer - xHeapStructSize = block
  BY <1>1, <1>2, HeapAssumption
<1>5. got.pointer \notin DOMAIN f
  BY <1>2, <1>3, <1>4
<1>6. /\ DOMAIN f2 = DOMAIN f \union {got.pointer}
      /\ f2[got.pointer] = bytes
      /\ \A p \in DOMAIN f : f2[p] = f[p]
  BY <1>5 DEF Grown
<1> HIDE DEF f2
<1>7. {p - xHeapStructSize : p \in DOMAIN f2} = Taken(got.heap)
  BY <1>1, <1>3, <1>4, <1>6
<1>8. ASSUME NEW p \in DOMAIN f2
      PROVE  p \in Nat /\ f2[p] \in Nat \ {0} /\ f2[p] <= Payload(got.heap, p)
  <2>1. CASE p = got.pointer
    <3>1. bytes \in Nat \ {0}
      BY DEF Refused
    <3>2. bytes <= (Wanted(bytes) - xHeapStructSize) * portBYTE_ALIGNMENT
          /\ Wanted(bytes) \in Nat
      BY WantedHolds
    <3>3. got.heap.size[block] \in Nat
      BY <1>1, Ends DEF Sound, Taken
    <3>4. (Wanted(bytes) - xHeapStructSize) * portBYTE_ALIGNMENT
            <= (got.heap.size[block] - xHeapStructSize) * portBYTE_ALIGNMENT
      BY <1>1, <3>2, <3>3, HeapAssumption
    <3>5. Payload(got.heap, p) = (got.heap.size[block] - xHeapStructSize) * portBYTE_ALIGNMENT
      BY <2>1, <1>4 DEF Payload
    <3>6. Payload(got.heap, p) \in Int
          /\ (Wanted(bytes) - xHeapStructSize) * portBYTE_ALIGNMENT \in Int
      BY <3>2, <3>3, <3>5, HeapAssumption
    <3>7. bytes <= Payload(got.heap, p)
      BY <3>2, <3>4, <3>5, <3>6
    <3> QED BY <2>1, <3>1, <3>7, <1>4, <1>6
  <2>2. CASE p \in DOMAIN f
    <3>1. p - xHeapStructSize \in Taken(h)
      BY <2>2, <1>3
    <3>2. Payload(got.heap, p) = Payload(h, p)
      BY <3>1, <1>1 DEF Payload
    <3> QED BY <2>2, <3>2, <1>6 DEF Backed
  <2> QED BY <2>1, <2>2, <1>6
<1> QED
  BY <1>1, <1>4, <1>5, <1>7, <1>8 DEF Backed, Taken, got, f2, NULL

LEMMA ShrinkBacked ==
  ASSUME NEW h, Sound(h), NEW f, Backed(h, f), NEW pv \in DOMAIN f
  PROVE  LET g == vPortFreeMicroROS(h, pv)
         IN Sound(g) /\ Backed(g, Without(f, pv))
<1> DEFINE g == vPortFreeMicroROS(h, pv)
           f2 == Without(f, pv)
<1>1. {p - xHeapStructSize : p \in DOMAIN f} = Taken(h) /\ \A p \in DOMAIN f : p \in Nat
  BY DEF Backed, Taken
<1>2. /\ Sound(g) /\ Taken(g) = Taken(h) \ {pv - xHeapStructSize}
      /\ \A b \in Taken(g) : g.size[b] = h.size[b]
  BY <1>1, FreeKeeps
<1>3. DOMAIN f2 = DOMAIN f \ {pv} /\ \A p \in DOMAIN f2 : f2[p] = f[p]
  BY DEF Without
<1> HIDE DEF g, f2
<1>4. \A p \in DOMAIN f2 : p - xHeapStructSize # pv - xHeapStructSize
  BY <1>1, <1>3, HeapAssumption
<1>5. {p - xHeapStructSize : p \in DOMAIN f2} = Taken(g)
  BY <1>1, <1>2, <1>3, <1>4
<1>6. \A p \in DOMAIN f2 : Payload(g, p) = Payload(h, p)
  BY <1>2, <1>5 DEF Payload
<1> QED
  BY <1>2, <1>3, <1>5, <1>6 DEF Backed, Taken, g, f2

LEMMA BackedSame ==
  ASSUME NEW h, NEW f, NEW g, Backed(h, f),
         DOMAIN g = DOMAIN f, \A p \in DOMAIN f : g[p] = f[p]
  PROVE  Backed(h, g)
BY DEF Backed

LEMMA InitOK == Init => HeapOK
<1> SUFFICES ASSUME Init PROVE HeapOK
  OBVIOUS
<1>1. /\ DOMAIN heap.next = {-1, 0} /\ heap.next[-1] = 0 /\ heap.next[0] = pxEnd
      /\ DOMAIN heap.size = {0, pxEnd} /\ heap.size[0] = pxEnd
      /\ DOMAIN held = {}
  BY HeapAssumption DEF Init, prvHeapInit
<1>2. Blocks(heap) = {0} /\ FreeBlocks(heap) = {0}
  BY <1>1, HeapAssumption DEF Blocks, FreeBlocks
<1>3. Tiled(heap)
  BY <1>1, <1>2, HeapAssumption DEF Tiled
<1>4. Listed(heap)
  BY <1>1, <1>2, HeapAssumption DEF Listed
<1>5. Coalesced(heap)
  BY <1>1, <1>2, HeapAssumption DEF Coalesced
<1>6. Backed(heap, held)
  BY <1>1, <1>2 DEF Backed
<1> QED
  BY <1>3, <1>4, <1>5, <1>6 DEF HeapOK

(* What a call that asks for memory does.                                  *)
LEMMA ObtainCases ==
  ASSUME HeapOK, NEW bytes \in Nat, Obtain(bytes)
  PROVE  \/ UNCHANGED vars
         \/ \E p \in Nat \ DOMAIN held :
              held' = Grown(held, p, bytes) /\ HeapOK'
<1> DEFINE got == pvPortMallocMicroROS(heap, bytes)
<1>1. CASE Refused(heap, bytes)
  BY <1>1 DEF Obtain, pvPortMallocMicroROS, vars
<1>2. CASE ~Refused(heap, bytes)
  <2>1. /\ Sound(got.heap) /\ Backed(got.heap, Grown(held, got.pointer, bytes))
        /\ got.pointer \notin DOMAIN held /\ got.pointer # NULL
    BY <1>2, GrowBacked DEF HeapOK, Sound
  <2>2. heap' = got.heap /\ held' = Grown(held, got.pointer, bytes)
    BY <2>1, Zenon DEF Obtain, Holds, Grown
  <2> HIDE DEF got
  <2>3. got.pointer \in Nat
    BY <2>1 DEF Backed, Grown
  <2> QED BY <2>1, <2>2, <2>3 DEF HeapOK, Sound
<1> QED BY <1>1, <1>2

LEMMA ReallocateCases ==
  ASSUME HeapOK, microros_reallocate
  PROVE  \/ UNCHANGED vars
         \/ \E p \in Nat \ DOMAIN held, bytes \in Nat :
              held' = Grown(held, p, bytes) /\ HeapOK'
         \/ \E pv \in DOMAIN held, p \in Nat \ DOMAIN held, bytes \in Nat :
              /\ Backed(pvPortMallocMicroROS(heap, bytes).heap, Grown(held, p, bytes))
              /\ Sound(pvPortMallocMicroROS(heap, bytes).heap)
              /\ DOMAIN held' = (DOMAIN held \ {pv}) \union {p}
              /\ \A q \in DOMAIN held' : held'[q] = Grown(held, p, bytes)[q]
              /\ HeapOK'
<1>1. PICK pv \in DOMAIN held \union {NULL}, bytes \in Requests :
        LET got == pvPortMallocMicroROS(heap, bytes)
        IN IF pv = NULL \/ got.pointer = NULL THEN Obtain(bytes)
           ELSE /\ heap' = vPortFreeMicroROS(got.heap, pv)
                /\ held' = [q \in (DOMAIN held \ {pv}) \union {got.pointer} |->
                              IF q = got.pointer THEN bytes ELSE held[q]]
  BY Zenon DEF microros_reallocate
<1>2. bytes \in Nat
  BY HeapAssumption
<1> DEFINE got == pvPortMallocMicroROS(heap, bytes)
           f == Grown(held, got.pointer, bytes)
<1>3. CASE pv = NULL \/ got.pointer = NULL
  <2>1. Obtain(bytes) BY <1>1, <1>3
  <2> QED BY <2>1, <1>2, ObtainCases
<1>4. CASE ~ (pv = NULL \/ got.pointer = NULL)
  <2>1. ~Refused(heap, bytes)
    BY <1>4 DEF pvPortMallocMicroROS
  <2>2. /\ Sound(got.heap) /\ Backed(got.heap, f)
        /\ got.pointer \notin DOMAIN held
    BY <1>2, <2>1, GrowBacked DEF HeapOK, Sound
  <2>3. /\ heap' = vPortFreeMicroROS(got.heap, pv)
        /\ held' = [q \in (DOMAIN held \ {pv}) \union {got.pointer} |->
                      IF q = got.pointer THEN bytes ELSE held[q]]
    BY <1>1, <1>4, Zenon
  <2> HIDE DEF got
  <2>4. DOMAIN f = DOMAIN held \union {got.pointer} /\ pv \in DOMAIN held
        /\ pv # got.pointer
    BY <1>4, <2>2 DEF Grown
  <2>5. Sound(heap') /\ Backed(heap', Without(f, pv))
    <3> HIDE DEF f
    <3> QED BY <2>2, <2>3, <2>4, ShrinkBacked
  <2>6. /\ DOMAIN held' = (DOMAIN held \ {pv}) \union {got.pointer}
        /\ \A q \in DOMAIN held' : held'[q] = f[q]
    BY <2>3 DEF Grown
  <2>7. Backed(heap', held')
    <3>1. DOMAIN held' = DOMAIN Without(f, pv)
      BY <2>4, <2>6 DEF Without
    <3>2. \A q \in DOMAIN held' : held'[q] = Without(f, pv)[q]
      BY <3>1, <2>6 DEF Without
    <3> HIDE DEF f
    <3> QED BY <3>1, <3>2, <2>5, BackedSame
  <2>8. got.pointer \in Nat
    BY <2>2, <2>4 DEF Backed
  <2> QED
    BY <1>2, <2>2, <2>4, <2>5, <2>6, <2>7, <2>8 DEF HeapOK, Sound, got
<1> QED BY <1>3, <1>4

LEMMA NextOK == HeapOK /\ [Next]_vars => HeapOK'
<1> SUFFICES ASSUME HeapOK, [Next]_vars PROVE HeapOK'
  OBVIOUS
<1>1. CASE UNCHANGED vars
  <2>1. heap' = heap /\ held' = held BY <1>1 DEF vars
  <2> QED BY <2>1, Zenon DEF HeapOK
<1>2. CASE microros_allocate
  <2>1. PICK bytes \in Requests : Obtain(bytes)
    BY <1>2 DEF microros_allocate
  <2>2. bytes \in Nat BY HeapAssumption
  <2> QED BY <1>1, <2>1, <2>2, ObtainCases
<1>3. CASE microros_zero_allocate
  <2>1. PICK n \in Requests, size \in Requests : UNCHANGED vars \/ Obtain(n * size)
    BY <1>3 DEF microros_zero_allocate
  <2>2. n \in Nat /\ size \in Nat BY HeapAssumption
  <2>3. n * size \in Nat BY <2>2
  <2> QED BY <1>1, <2>1, <2>3, ObtainCases
<1>4. CASE microros_reallocate
  BY <1>1, <1>4, ReallocateCases
<1>5. CASE microros_deallocate
  <2>1. PICK pv \in DOMAIN held :
          heap' = vPortFreeMicroROS(heap, pv) /\ held' = Without(held, pv)
    BY <1>5 DEF microros_deallocate, Released, Without
  <2> QED BY <2>1, ShrinkBacked DEF HeapOK, Sound
<1> QED
  BY <1>1, <1>2, <1>3, <1>4, <1>5 DEF Next

(* The free list stays sorted, coalesced and within the blocks, which tile *)
(* the heap; every pointer the library holds has a block that is large     *)
(* enough and not free (prvInsertBlockIntoFreeList, pvPortMallocMicroROS). *)
THEOREM HeapSound == Spec => []HeapOK
BY InitOK, NextOK, PTL DEF Spec

(* Fragments never add up: with nothing held the heap is one free block,   *)
(* as after prvHeapInit.                                                   *)
THEOREM WholeAgain == Spec => []WholeWhenReleased
<1>1. HeapOK => WholeWhenReleased
  <2> SUFFICES ASSUME HeapOK, DOMAIN held = {}
               PROVE  FreeBlocks(heap) = {0} /\ heap.size[0] = pxEnd /\ heap.next[-1] = 0
    BY DEF WholeWhenReleased
  <2>1. Blocks(heap) \subseteq FreeBlocks(heap) /\ FreeBlocks(heap) \subseteq Blocks(heap)
    BY DEF HeapOK, Backed, Listed
  <2>2. 0 \in Blocks(heap) /\ heap.size[0] \in Nat /\ heap.size[0] \in DOMAIN heap.size
    BY DEF HeapOK, Tiled
  <2>3. heap.size[0] = pxEnd
    BY <2>1, <2>2 DEF HeapOK, Coalesced, Blocks
  <2>4. ASSUME NEW b \in Blocks(heap) PROVE b = 0
    BY <2>2, <2>3, <2>4, HeapAssumption DEF HeapOK, Tiled
  <2>5. FreeBlocks(heap) = {0}
    BY <2>1, <2>2, <2>4
  <2>6. heap.next[-1] = 0
    BY <2>5, HeapAssumption DEF HeapOK, Listed
  <2> QED BY <2>3, <2>5, <2>6
<1> QED
  BY <1>1, HeapSound, PTL

(* microros_reallocate keeps what was asked for before up to the new size, *)
(* and stays inside both blocks.                                           *)
THEOREM ReallocSafe == Spec => []ReallocKeeps
<1>1. HeapOK => ReallocKeeps
  <2> SUFFICES ASSUME HeapOK, NEW pv \in DOMAIN held, NEW bytes \in Requests
               PROVE  /\ Smaller(held[pv], bytes) <= Copied(heap, pv, bytes)
                      /\ Copied(heap, pv, bytes) <= bytes
                      /\ pv * portBYTE_ALIGNMENT + Copied(heap, pv, bytes)
                           <= (pv - xHeapStructSize + heap.size[pv - xHeapStructSize])
                                * portBYTE_ALIGNMENT
    BY DEF ReallocKeeps
  <2> DEFINE size == heap.size[pv - xHeapStructSize]
             payload == (size - xHeapStructSize) * portBYTE_ALIGNMENT
  <2>1. pv - xHeapStructSize \in Blocks(heap)
    BY DEF HeapOK, Backed
  <2>2. size \in Nat /\ bytes \in Nat /\ pv \in Nat
    BY <2>1, HeapAssumption DEF HeapOK, Tiled, Backed
  <2>3. Payload(heap, pv) = payload /\ held[pv] \in Nat /\ held[pv] <= payload
    BY DEF HeapOK, Backed, Payload
  <2>4. payload \in Int
    BY <2>2, HeapAssumption
  <2>5. Copied(heap, pv, bytes) = IF bytes < payload THEN bytes ELSE payload
    BY <2>3 DEF Copied, Smaller
  <2>6. (pv - xHeapStructSize + size) * portBYTE_ALIGNMENT
          = pv * portBYTE_ALIGNMENT + payload
    BY <2>2, HeapAssumption
  <2>7. pv * portBYTE_ALIGNMENT \in Int
    BY <2>2, HeapAssumption
  <2> HIDE DEF size, payload
  <2>8. Smaller(held[pv], bytes) <= Copied(heap, pv, bytes)
    BY <2>2, <2>3, <2>4, <2>5 DEF Smaller
  <2>9. Copied(heap, pv, bytes) <= bytes /\ Copied(heap, pv, bytes) <= payload
        /\ Copied(heap, pv, bytes) \in Int
    BY <2>2, <2>4, <2>5
  <2>10. pv * portBYTE_ALIGNMENT + Copied(heap, pv, bytes)
           <= (pv - xHeapStructSize + size) * portBYTE_ALIGNMENT
    BY <2>4, <2>6, <2>7, <2>9
  <2> QED BY <2>8, <2>9, <2>10 DEF size
<1> QED
  BY <1>1, HeapSound, PTL
-----------------------------------------------------------------------------
(* The free counter.  Every unit of the heap lies in one block, so the     *)
(* free units are those that lie in no taken block; a call changes the     *)
(* taken blocks by one, and the free units by that block's.                *)

Within(h, b, u) == b <= u /\ u < b + h.size[b]

LEMMA OwnBlock ==
  ASSUME NEW h, Tiled(h), NEW u \in 0 .. pxEnd - 1
  PROVE  \E b \in Blocks(h) : Within(h, b, u)
<1> DEFINE S == {u - b : b \in {c \in Blocks(h) : c <= u}}
<1>1. \A b \in Blocks(h) : b \in Nat
  BY Ends
<1>2. u \in Nat /\ u < pxEnd /\ pxEnd \in Nat
  BY HeapAssumption
<1>3. S \in SUBSET Nat /\ S # {}
  <2>1. 0 \in Blocks(h) /\ 0 <= u
    BY <1>2 DEF Tiled
  <2> QED BY <2>1, <1>1, <1>2
<1>4. Lowest(S) \in S /\ \A d \in S : Lowest(S) <= d
  BY <1>3, LowestExists
<1>5. PICK b \in Blocks(h) : b <= u /\ Lowest(S) = u - b
  BY <1>4
<1>6. ASSUME NEW c \in Blocks(h), c <= u PROVE c <= b
  <2>1. u - b <= u - c
    BY <1>4, <1>5, <1>6
  <2> QED BY <2>1, <1>1, <1>2
<1>7. /\ b \in Nat /\ h.size[b] \in Nat /\ 0 < h.size[b]
      /\ b + h.size[b] \in Blocks(h) \union {pxEnd}
  BY Ends
<1>8. u < b + h.size[b]
  <2>1. CASE b + h.size[b] = pxEnd
    BY <2>1, <1>2
  <2>2. CASE b + h.size[b] \in Blocks(h)
    BY <2>2, <1>2, <1>6, <1>7
  <2> QED BY <2>1, <2>2, <1>7
<1> QED
  BY <1>5, <1>8 DEF Within

LEMMA OneBlock ==
  ASSUME NEW h, Tiled(h), NEW u \in Nat,
         NEW b \in Blocks(h), NEW c \in Blocks(h), Within(h, b, u), Within(h, c, u)
  PROVE  b = c
<1>1. /\ b \in Nat /\ h.size[b] \in Nat /\ c \in Nat /\ h.size[c] \in Nat
  BY Ends
<1>2. (b < c => b + h.size[b] <= c) /\ (c < b => c + h.size[c] <= b)
  BY DEF Tiled
<1> QED
  BY <1>1, <1>2 DEF Within

LEMMA FreeOrTaken ==
  ASSUME NEW h, Sound(h), NEW u \in 0 .. pxEnd - 1
  PROVE  u \in FreeUnits(h) <=> ~ \E b \in Taken(h) : Within(h, b, u)
<1>1. FreeBlocks(h) \subseteq Blocks(h)
  BY DEF Sound, Listed
<1>2. u \in FreeUnits(h) <=> \E b \in FreeBlocks(h) : Within(h, b, u)
  BY DEF FreeUnits, Within
<1>3. PICK own \in Blocks(h) : Within(h, own, u)
  BY OwnBlock DEF Sound
<1>4. u \in Nat
  BY HeapAssumption
<1>5. \A b \in Blocks(h) : Within(h, b, u) => b = own
  BY <1>3, <1>4, OneBlock DEF Sound
<1> QED
  BY <1>1, <1>2, <1>3, <1>5 DEF Taken

(* One more taken block is that many free units less.                      *)
LEMMA OneMoreTaken ==
  ASSUME NEW h, Sound(h), NEW g, Sound(g),
         NEW block \in Taken(g), block \notin Taken(h),
         Taken(g) = Taken(h) \union {block},
         \A b \in Taken(h) : g.size[b] = h.size[b]
  PROVE  /\ Cardinality(FreeUnits(h)) \in Nat
         /\ Cardinality(FreeUnits(g)) \in Nat
         /\ g.size[block] \in Nat
         /\ Cardinality(FreeUnits(g))
              = Cardinality(FreeUnits(h)) - g.size[block]
<1> DEFINE own == block .. (block + g.size[block] - 1)
<1>1. /\ block \in Nat /\ g.size[block] \in Nat /\ 0 < g.size[block]
      /\ block + g.size[block] <= pxEnd /\ pxEnd \in Nat /\ block \in Blocks(g)
  BY Ends, HeapAssumption DEF Sound, Taken
<1>2. own \subseteq 0 .. pxEnd - 1
  BY <1>1
<1>3. \A u \in 0 .. pxEnd - 1 : u \in own <=> Within(g, block, u)
  BY <1>1 DEF Within
<1> HIDE DEF own
<1>4. \A u \in 0 .. pxEnd - 1, b \in Taken(h) : Within(g, b, u) <=> Within(h, b, u)
  BY DEF Within
<1>5. own \subseteq FreeUnits(h)
  <2> SUFFICES ASSUME NEW u \in own PROVE u \in FreeUnits(h)
    OBVIOUS
  <2>1. u \in 0 .. pxEnd - 1 /\ Within(g, block, u) /\ u \in Nat
    BY <1>2, <1>3
  <2>2. ASSUME NEW b \in Taken(h), Within(h, b, u) PROVE FALSE
    <3>1. Within(g, b, u) /\ b \in Blocks(g)
      BY <2>1, <2>2, <1>4 DEF Taken
    <3>2. b = block
      BY <2>1, <3>1, <1>1, OneBlock DEF Sound
    <3> QED BY <3>2
  <2> QED
    BY <2>1, <2>2, FreeOrTaken
<1>6. FreeUnits(g) = FreeUnits(h) \ own
  <2>1. FreeUnits(g) \subseteq 0 .. pxEnd - 1 /\ FreeUnits(h) \subseteq 0 .. pxEnd - 1
    BY DEF FreeUnits
  <2>2. ASSUME NEW u \in 0 .. pxEnd - 1
        PROVE  u \in FreeUnits(g) <=> u \in FreeUnits(h) /\ u \notin own
    <3>1. u \in FreeUnits(g) <=> ~ \E b \in Taken(g) : Within(g, b, u)
      BY FreeOrTaken
    <3>2. u \in FreeUnits(h) <=> ~ \E b \in Taken(h) : Within(h, b, u)
      BY FreeOrTaken
    <3> QED BY <3>1, <3>2, <1>3, <1>4
  <2> QED BY <2>1, <2>2
<1>7. IsFiniteSet(FreeUnits(h))
  <2>1. IsFiniteSet(0 .. pxEnd - 1)
    BY <1>1, FS_Interval
  <2>2. FreeUnits(h) \in SUBSET (0 .. pxEnd - 1)
    BY DEF FreeUnits
  <2> QED BY <2>1, <2>2, FS_Subset
<1>8. Cardinality(own) = g.size[block]
  <2>1. block + g.size[block] - 1 \in Int /\ block <= block + g.size[block] - 1
        /\ (block + g.size[block] - 1) - block + 1 = g.size[block]
    BY <1>1
  <2> QED BY <1>1, <2>1, FS_Interval DEF own
<1>9. /\ IsFiniteSet(FreeUnits(g))
      /\ Cardinality(FreeUnits(g))
           = Cardinality(FreeUnits(h)) - Cardinality(FreeUnits(h) \intersect own)
  BY <1>6, <1>7, FS_Difference
<1>10. FreeUnits(h) \intersect own = own
  BY <1>5
<1> QED
  BY <1>1, <1>7, <1>8, <1>9, <1>10, FS_CardinalityType

Counted(h) ==
  /\ h.free = Cardinality(FreeUnits(h))
  /\ h.minimumEver \in Nat /\ h.minimumEver <= h.free

LEMMA MallocCounts ==
  ASSUME NEW h, Sound(h), Counted(h), NEW bytes \in Nat
  PROVE  Counted(pvPortMallocMicroROS(h, bytes).heap)
<1> DEFINE got == pvPortMallocMicroROS(h, bytes)
<1>1. CASE Refused(h, bytes)
  BY <1>1 DEF pvPortMallocMicroROS
<1>2. CASE ~Refused(h, bytes)
  <2>1. PICK block \in FreeBlocks(h) :
          /\ got.pointer = block + xHeapStructSize
          /\ Sound(got.heap)
          /\ Taken(got.heap) = Taken(h) \union {block}
          /\ \A b \in Taken(h) : got.heap.size[b] = h.size[b]
    BY <1>2, MallocKeeps
  <2>2. block \in Nat /\ block \notin Taken(h)
    BY Ends DEF Sound, Listed, Taken
  <2> DEFINE first == Lowest(Fitting(h, bytes))
  <2>3. first = block
    <3>1. got.pointer = first + xHeapStructSize
      BY <1>2 DEF pvPortMallocMicroROS
    <3>2. first \in Nat
      <4>1. Fitting(h, bytes) \in SUBSET Nat /\ Fitting(h, bytes) # {}
        BY <1>2, Ends DEF Fitting, Refused, Sound, Listed
      <4> QED BY <4>1, LowestExists
    <3> HIDE DEF first
    <3> QED BY <3>1, <3>2, <2>1, <2>2, HeapAssumption
  <2>4. /\ got.heap.free = h.free - got.heap.size[first]
        /\ got.heap.minimumEver = Smaller(h.minimumEver, got.heap.free)
    BY <1>2 DEF pvPortMallocMicroROS, Take
  <2> HIDE DEF first, got
  <2>5. /\ Cardinality(FreeUnits(got.heap)) \in Nat
        /\ Cardinality(FreeUnits(got.heap))
             = Cardinality(FreeUnits(h)) - got.heap.size[block]
    <3>1. block \in Taken(got.heap)
      BY <2>1
    <3> QED BY <3>1, <2>1, <2>2, OneMoreTaken
  <2>6. Counted(got.heap)
    BY <2>3, <2>4, <2>5 DEF Counted, Smaller
  <2> QED BY <2>6 DEF got
<1> QED BY <1>1, <1>2

LEMMA FreeCounts ==
  ASSUME NEW h, Sound(h), Counted(h), NEW pv, pv - xHeapStructSize \in Taken(h)
  PROVE  Counted(vPortFreeMicroROS(h, pv))
<1> DEFINE g == vPortFreeMicroROS(h, pv)
           block == pv - xHeapStructSize
<1>1. /\ Sound(g) /\ Taken(g) = Taken(h) \ {block}
      /\ \A b \in Taken(g) : g.size[b] = h.size[b]
  BY FreeKeeps
<1>2. g.free = h.free + h.size[block] /\ g.minimumEver = h.minimumEver
  BY DEF vPortFreeMicroROS
<1> HIDE DEF g, block
<1>3. block \in Taken(h) /\ block \notin Taken(g) /\ Taken(h) = Taken(g) \union {block}
  BY <1>1 DEF block
<1>4. \A b \in Taken(g) : h.size[b] = g.size[b]
  BY <1>1
<1>5. /\ Cardinality(FreeUnits(g)) \in Nat /\ Cardinality(FreeUnits(h)) \in Nat
      /\ h.size[block] \in Nat
      /\ Cardinality(FreeUnits(h)) = Cardinality(FreeUnits(g)) - h.size[block]
  <2>1. Sound(h) /\ Sound(g) BY <1>1
  <2>2. block \in Taken(h) BY <1>3
  <2>3. block \notin Taken(g) BY <1>3
  <2>4. Taken(h) = Taken(g) \union {block} BY <1>3
  <2> QED BY <2>1, <2>2, <2>3, <2>4, <1>4, OneMoreTaken
<1>6. Counted(g)
  BY <1>2, <1>5 DEF Counted
<1> QED BY <1>6 DEF g

LEMMA InitCounted == Init => Counted(heap)
<1> SUFFICES ASSUME Init PROVE Counted(heap)
  OBVIOUS
<1>1. /\ FreeBlocks(heap) = {0} /\ heap.size[0] = pxEnd
      /\ heap.free = pxEnd /\ heap.minimumEver = pxEnd
  BY HeapAssumption DEF Init, prvHeapInit, FreeBlocks
<1>2. FreeUnits(heap) = 0 .. pxEnd - 1
  BY <1>1, HeapAssumption DEF FreeUnits
<1>3. Cardinality(FreeUnits(heap)) = pxEnd
  BY <1>2, HeapAssumption, FS_Interval
<1> QED
  BY <1>1, <1>3, HeapAssumption DEF Counted

LEMMA NextCounted == HeapOK /\ Counted(heap) /\ [Next]_vars => Counted(heap')
<1> SUFFICES ASSUME HeapOK, Counted(heap), [Next]_vars PROVE Counted(heap')
  OBVIOUS
<1>1. Sound(heap) /\ Backed(heap, held)
  BY DEF HeapOK, Sound
<1>2. CASE UNCHANGED vars
  BY <1>2 DEF vars
<1>3. ASSUME NEW bytes \in Nat, Obtain(bytes) PROVE Counted(heap')
  <2>1. heap' = pvPortMallocMicroROS(heap, bytes).heap
    BY <1>3, Zenon DEF Obtain
  <2> QED BY <2>1, <1>1, MallocCounts
<1>4. CASE microros_allocate
  BY <1>3, <1>4, HeapAssumption DEF microros_allocate
<1>5. CASE microros_zero_allocate
  <2>1. PICK n \in Requests, size \in Requests : UNCHANGED vars \/ Obtain(n * size)
    BY <1>5 DEF microros_zero_allocate
  <2>2. n \in Nat /\ size \in Nat BY HeapAssumption
  <2>3. n * size \in Nat BY <2>2
  <2> QED BY <1>2, <1>3, <2>1, <2>3
<1>6. CASE microros_reallocate
  <2> DEFINE got(b) == pvPortMallocMicroROS(heap, b)
  <2>1. PICK pv \in DOMAIN held \union {NULL}, bytes \in Requests :
          IF pv = NULL \/ got(bytes).pointer = NULL THEN Obtain(bytes)
          ELSE heap' = vPortFreeMicroROS(got(bytes).heap, pv)
    BY <1>6, Zenon DEF microros_reallocate
  <2>2. bytes \in Nat BY HeapAssumption
  <2>3. CASE pv = NULL \/ got(bytes).pointer = NULL
    <3>1. Obtain(bytes) BY <2>1, <2>3
    <3> QED BY <3>1, <2>2, <1>3
  <2>4. CASE ~ (pv = NULL \/ got(bytes).pointer = NULL)
    <3>1. ~Refused(heap, bytes) /\ pv \in DOMAIN held
      BY <2>4 DEF pvPortMallocMicroROS
    <3>2. Sound(got(bytes).heap) /\ Taken(heap) \subseteq Taken(got(bytes).heap)
      BY <3>1, <2>2, <1>1, MallocKeeps
    <3>3. Counted(got(bytes).heap)
      BY <2>2, <1>1, MallocCounts
    <3>4. pv - xHeapStructSize \in Taken(got(bytes).heap)
      BY <3>1, <3>2, <1>1 DEF Backed, Taken
    <3>5. heap' = vPortFreeMicroROS(got(bytes).heap, pv)
      BY <2>1, <2>4
    <3> HIDE DEF got
    <3> QED BY <3>2, <3>3, <3>4, <3>5, FreeCounts
  <2> QED BY <2>3, <2>4
<1>7. CASE microros_deallocate
  <2>1. PICK pv \in DOMAIN held : heap' = vPortFreeMicroROS(heap, pv)
    BY <1>7 DEF microros_deallocate
  <2>2. pv - xHeapStructSize \in Taken(heap)
    BY <1>1 DEF Backed, Taken
  <2> QED BY <2>1, <2>2, <1>1, FreeCounts
<1> QED
  BY <1>2, <1>4, <1>5, <1>6, <1>7 DEF Next

(* The counter of the free bytes says what the free blocks add up to, and  *)
(* the lowest it ever was is no more than it is: no sequence of calls      *)
(* loses or invents a unit (xFreeBytesRemaining,                           *)
(* xMinimumEverFreeBytesRemaining).                                        *)
THEOREM MemoryAccounted == Spec => []Accounted
<1>1. Counted(heap) => Accounted
  BY DEF Counted, Accounted
<1>2. HeapOK /\ HeapOK' /\ Counted(heap) /\ [Next]_vars => Counted(heap)'
  BY NextCounted
<1> QED
  BY <1>1, <1>2, InitCounted, HeapSound, PTL DEF Spec
-----------------------------------------------------------------------------
(* The refinement.                                                         *)

Region(p, bytes) == [start |-> p * portBYTE_ALIGNMENT, length |-> bytes]
Live(f) == {Region(p, f[p]) : p \in DOMAIN f}

LEMMA Scale ==
  \A x, y \in Int : /\ x * portBYTE_ALIGNMENT \in Int
                    /\ x <= y => x * portBYTE_ALIGNMENT <= y * portBYTE_ALIGNMENT
                    /\ x < y => x * portBYTE_ALIGNMENT < y * portBYTE_ALIGNMENT
BY HeapAssumption

(* Where a region that is held lies.                                       *)
LEMMA Placement ==
  ASSUME NEW h, Sound(h), NEW f, Backed(h, f), NEW p \in DOMAIN f
  PROVE  /\ p \in Nat /\ p * portBYTE_ALIGNMENT \in Nat /\ f[p] \in Nat \ {0}
         /\ p * portBYTE_ALIGNMENT + f[p] <= pxEnd * portBYTE_ALIGNMENT
         /\ \A q \in DOMAIN f :
              p < q => p * portBYTE_ALIGNMENT + f[p] <= q * portBYTE_ALIGNMENT
<1> DEFINE block == p - xHeapStructSize
           size == h.size[block]
<1>1. /\ block \in Blocks(h) /\ size \in Nat /\ block + size <= pxEnd
      /\ p \in Nat /\ f[p] \in Nat \ {0} /\ pxEnd \in Nat /\ block \in Int
  BY Ends, HeapAssumption DEF Backed, Sound
<1>2. f[p] <= (size - xHeapStructSize) * portBYTE_ALIGNMENT
  BY DEF Backed, Payload
<1>3. (block + size) * portBYTE_ALIGNMENT
        = p * portBYTE_ALIGNMENT + (size - xHeapStructSize) * portBYTE_ALIGNMENT
  BY <1>1, HeapAssumption
<1>4. p * portBYTE_ALIGNMENT \in Nat
      /\ (size - xHeapStructSize) * portBYTE_ALIGNMENT \in Int
      /\ (block + size) * portBYTE_ALIGNMENT \in Int
      /\ pxEnd * portBYTE_ALIGNMENT \in Int
  BY <1>1, HeapAssumption
<1>5. p * portBYTE_ALIGNMENT + f[p] <= (block + size) * portBYTE_ALIGNMENT
  BY <1>1, <1>2, <1>3, <1>4
<1>6. (block + size) * portBYTE_ALIGNMENT <= pxEnd * portBYTE_ALIGNMENT
  <2>1. block + size \in Int BY <1>1
  <2> QED BY <1>1, <2>1, Scale
<1>7. ASSUME NEW q \in DOMAIN f, p < q
      PROVE  p * portBYTE_ALIGNMENT + f[p] <= q * portBYTE_ALIGNMENT
  <2>1. q \in Nat /\ q - xHeapStructSize \in Blocks(h)
    BY DEF Backed
  <2>2. block + size <= q - xHeapStructSize
    BY <2>1, <1>1, <1>7, HeapAssumption DEF Sound, Tiled
  <2>3. block + size <= q /\ block + size \in Int
    BY <2>1, <2>2, <1>1, HeapAssumption
  <2>4. (block + size) * portBYTE_ALIGNMENT <= q * portBYTE_ALIGNMENT
        /\ q * portBYTE_ALIGNMENT \in Int
    BY <2>1, <2>3, Scale
  <2> QED BY <2>4, <1>1, <1>4, <1>5
<1> HIDE DEF block, size
<1>8. p * portBYTE_ALIGNMENT + f[p] <= pxEnd * portBYTE_ALIGNMENT
  BY <1>1, <1>4, <1>5, <1>6
<1> QED BY <1>1, <1>4, <1>7, <1>8

(* A region that is new is where the abstract allocator may put one.       *)
LEMMA NewFits ==
  ASSUME NEW h, Sound(h), NEW p \in Nat \ DOMAIN held, NEW bytes \in Nat,
         Backed(h, Grown(held, p, bytes))
  PROVE  Promise!Fits(Region(p, bytes))
<1> DEFINE f == Grown(held, p, bytes)
           A == portBYTE_ALIGNMENT
<1>1. p \in DOMAIN f /\ f[p] = bytes
      /\ \A q \in DOMAIN held : q \in DOMAIN f /\ f[q] = held[q] /\ q # p
  BY DEF Grown
<1> HIDE DEF f
<1>2. /\ p * A \in Nat /\ bytes \in Nat \ {0} /\ p * A + bytes <= pxEnd * A
      /\ \A q \in DOMAIN f : p < q => p * A + bytes <= q * A
  BY <1>1, Placement DEF f
<1>3. \A q \in DOMAIN held :
        /\ q \in Nat
        /\ q < p => q * A + held[q] <= p * A
  BY <1>1, Placement DEF f
<1>4. pxEnd * A \in Nat
  BY HeapAssumption
<1>5. Region(p, bytes) \in Promise!Regions
      /\ Region(p, bytes).start + Region(p, bytes).length <= pxEnd * A
  BY <1>2, <1>4 DEF Region, Promise!Regions
<1>6. ASSUME NEW q \in DOMAIN held
      PROVE  p * A + bytes <= q * A \/ q * A + held[q] <= p * A
  <2>1. q \in Nat /\ q # p /\ q \in DOMAIN f
    BY <1>1, <1>3
  <2>2. p < q \/ q < p
    BY <2>1
  <2> QED BY <2>1, <2>2, <1>2, <1>3
<1>7. \A s \in Live(held) : Promise!Apart(Region(p, bytes), s)
  BY <1>6 DEF Live, Region, Promise!Apart
<1> QED
  BY <1>5, <1>7 DEF Promise!Fits, Live, Region

LEMMA RegionsDiffer ==
  ASSUME NEW p \in Nat, NEW q \in Nat, p # q, NEW x, NEW y
  PROVE  Region(p, x) # Region(q, y)
<1>1. p * portBYTE_ALIGNMENT # q * portBYTE_ALIGNMENT
  <2>1. p < q \/ q < p OBVIOUS
  <2> QED BY <2>1, Scale
<1>2. Region(p, x).start = p * portBYTE_ALIGNMENT
      /\ Region(q, y).start = q * portBYTE_ALIGNMENT
  BY DEF Region
<1> QED BY <1>1, <1>2

LEMMA StepImplements == HeapOK /\ [Next]_vars => [Promise!Next]_(Live(held))
<1> SUFFICES ASSUME HeapOK, [Next]_vars
             PROVE  Promise!Next \/ Live(held') = Live(held)
  BY DEF Live, Region
<1>1. \A p \in DOMAIN held : p \in Nat
  BY DEF HeapOK, Backed
<1>2. CASE UNCHANGED vars
  BY <1>2 DEF vars
<1>3. ASSUME NEW p \in Nat \ DOMAIN held, NEW bytes \in Nat,
             held' = Grown(held, p, bytes), HeapOK'
      PROVE  Promise!Next
  <2>1. Promise!Fits(Region(p, bytes))
    BY <1>3, NewFits DEF HeapOK, Sound
  <2>2. Live(held') = Live(held) \union {Region(p, bytes)}
    BY <1>3 DEF Live, Grown
  <2>3. \E r \in Live(held') : Promise!Fits(r) /\ Live(held') = Live(held) \union {r}
    BY <2>1, <2>2
  <2> QED
    BY <2>3 DEF Promise!Next, Promise!Allocate, Live, Region
<1>4. CASE microros_allocate
  <2>1. PICK bytes \in Requests : Obtain(bytes)
    BY <1>4 DEF microros_allocate
  <2>2. bytes \in Nat BY HeapAssumption
  <2> QED BY <1>2, <1>3, <2>1, <2>2, ObtainCases
<1>5. CASE microros_zero_allocate
  <2>1. PICK n \in Requests, size \in Requests : UNCHANGED vars \/ Obtain(n * size)
    BY <1>5 DEF microros_zero_allocate
  <2>2. n \in Nat /\ size \in Nat BY HeapAssumption
  <2>3. n * size \in Nat BY <2>2
  <2> QED BY <1>2, <1>3, <2>1, <2>3, ObtainCases
<1>6. CASE microros_reallocate
  <2>1. ASSUME NEW pv \in DOMAIN held, NEW p \in Nat \ DOMAIN held, NEW bytes \in Nat,
               Backed(pvPortMallocMicroROS(heap, bytes).heap, Grown(held, p, bytes)),
               Sound(pvPortMallocMicroROS(heap, bytes).heap),
               DOMAIN held' = (DOMAIN held \ {pv}) \union {p},
               \A q \in DOMAIN held' : held'[q] = Grown(held, p, bytes)[q]
        PROVE  Promise!Next
    <3> DEFINE r == Region(p, bytes)
               s == Region(pv, held[pv])
    <3>1. Promise!Fits(r)
      BY <2>1, NewFits
    <3>2. /\ \A q \in DOMAIN held \ {pv} : held'[q] = held[q]
          /\ held'[p] = bytes
      BY <2>1 DEF Grown
    <3>3. \A q \in DOMAIN held \ {pv} : Region(q, held[q]) # s
      BY <1>1, RegionsDiffer
    <3> HIDE DEF r, s
    <3>4. Live(held') = {Region(q, held[q]) : q \in DOMAIN held \ {pv}} \union {r}
      BY <2>1, <3>2 DEF Live, r
    <3>5. {Region(q, held[q]) : q \in DOMAIN held \ {pv}} = Live(held) \ {s}
      BY <3>3 DEF Live, s
    <3>6. s \in Live(held)
      BY DEF Live, s
    <3>7. \E x \in Live(held'), y \in Live(held) :
            Promise!Fits(x) /\ Live(held') = (Live(held) \ {y}) \union {x}
      BY <3>1, <3>4, <3>5, <3>6
    <3> QED
      BY <3>7 DEF Promise!Next, Promise!Reallocate, Live, Region
  <2> QED BY <1>2, <1>3, <1>6, <2>1, ReallocateCases
<1>7. CASE microros_deallocate
  <2>1. PICK pv \in DOMAIN held : held' = Released(pv)
    BY <1>7 DEF microros_deallocate
  <2> DEFINE s == Region(pv, held[pv])
  <2>2. \A q \in DOMAIN held \ {pv} : Region(q, held[q]) # s
    BY <1>1, RegionsDiffer
  <2> HIDE DEF s
  <2>3. Live(held') = {Region(q, held[q]) : q \in DOMAIN held \ {pv}}
    BY <2>1 DEF Live, Released
  <2>4. {Region(q, held[q]) : q \in DOMAIN held \ {pv}} = Live(held) \ {s}
    BY <2>2 DEF Live, s
  <2>5. \E y \in Live(held) : Live(held') = Live(held) \ {y}
    BY <2>3, <2>4 DEF Live, s
  <2> QED
    BY <2>5 DEF Promise!Next, Promise!Deallocate, Live, Region
<1> QED
  BY <1>2, <1>4, <1>5, <1>6, <1>7 DEF Next

(* The heap gives the client library what an allocator promises: regions   *)
(* inside the heap that never share a byte, through every allocation,      *)
(* reallocation and release.                                               *)
THEOREM AllocatorImplemented == Spec => ImplementsAllocator
<1>1. Init => Promise!Init
  BY DEF Init, Promise!Init
<1>2. HeapOK /\ [Next]_vars
        => [Promise!Next]_{[start |-> p * portBYTE_ALIGNMENT, length |-> held[p]] :
                             p \in DOMAIN held}
  BY StepImplements DEF Live, Region
<1> QED
  BY <1>1, <1>2, HeapSound, PTL DEF Spec, ImplementsAllocator, Promise!Spec
=============================================================================
