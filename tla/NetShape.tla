------------------------------ MODULE NetShape ------------------------------
(***************************************************************************)
(* What a circuitS of meloop/arrow.c promises its user, free of pointers:  *)
(* a net is a chain of len elements, and back says where its last element  *)
(* leads: 0 for an open chain, p for a chain that loops back to its p-th   *)
(* element.  The drawings in the comments of arrow.c are of these shapes.  *)
(*                                                                         *)
(* Circuit.tla, where the same operations are walks over next pointers,    *)
(* implements this specification.                                          *)
(***************************************************************************)
EXTENDS Integers

CONSTANTS MaxElements  \* Bounds the number of elements of a net.

VARIABLES len,     \* The number of elements bound together.
          back,    \* Where the last one leads: 0 (nowhere) or 1..len.
          phase,   \* "none", "live", "freeing" or "gone".
          freed    \* The elements returned to the heap.

shape == <<len, back, phase, freed>>

(***************************************************************************)
(* An appended element comes last.  An open chain stays open and a ring    *)
(* (back = 1) stays a ring; a chain that loops back to a later element     *)
(* takes no more elements.                                                 *)
(***************************************************************************)
Append ==
  /\ phase = "live"
  /\ len < MaxElements
  /\ back \in {0, 1}
  /\ len' = len + 1
  /\ UNCHANGED <<back, phase, freed>>

\* Closing an open net makes its last element lead to element p.
Close(p) ==
  /\ phase = "live"
  /\ back = 0
  /\ back' = p
  /\ UNCHANGED <<len, phase, freed>>

Create ==
  /\ phase = "none"
  /\ phase' = "live"
  /\ UNCHANGED <<len, back, freed>>

StartRelease ==
  /\ phase = "live"
  /\ phase' = "freeing"
  /\ UNCHANGED <<len, back, freed>>

\* Elements are released one by one, in the order of the chain.
ReleaseElement(k) ==
  /\ phase = "freeing"
  /\ freed = 1..(k-1)
  /\ freed' = 1..k
  /\ UNCHANGED <<len, back, phase>>

\* The circuit itself goes when every element is gone.
Release ==
  /\ phase = "freeing"
  /\ freed = 1..len
  /\ phase' = "gone"
  /\ UNCHANGED <<len, back, freed>>

Init == len = 0 /\ back = 0 /\ phase = "none" /\ freed = {}

Next ==
  \/ Create
  \/ Append
  \/ \E p \in 1..len : Close(p) \/ ReleaseElement(p)
  \/ StartRelease
  \/ Release

Spec == Init /\ [][Next]_shape
=============================================================================
