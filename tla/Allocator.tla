----------------------------- MODULE Allocator -----------------------------
(***************************************************************************)
(* What the micro-ROS client library is promised by its allocator: each    *)
(* region it holds lies inside the arena and shares no byte with another.  *)
(***************************************************************************)
EXTENDS Integers

CONSTANT Arena   (* bytes                                                  *)

VARIABLE live    (* the regions held: first byte and length                *)

Regions == [start : 0 .. Arena, length : 1 .. Arena]

Apart(r, s) == r.start + r.length <= s.start \/ s.start + s.length <= r.start

Fits(r) == /\ r \in Regions
           /\ r.start + r.length <= Arena
           /\ \A s \in live : Apart(r, s)

Init == live = {}

Allocate == \E r \in live' : Fits(r) /\ live' = live \union {r}

(* The new region is apart from the old one too, whose bytes move.         *)
Reallocate == \E r \in live', s \in live :
                Fits(r) /\ live' = (live \ {s}) \union {r}

Deallocate == \E s \in live : live' = live \ {s}

Next == Allocate \/ Reallocate \/ Deallocate

Spec == Init /\ [][Next]_live
=============================================================================
