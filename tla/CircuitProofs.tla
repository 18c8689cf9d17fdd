---------------------------- MODULE CircuitProofs ----------------------------
(***************************************************************************)
(* Proofs about Circuit, for circuits of any size that the program closes  *)
(* anywhere: the memory safety of its walks, that freeC leaks nothing, and *)
(* that the pointer structure implements NetShape.                         *)
(***************************************************************************)
EXTENDS Circuit, TLAPS

(***************************************************************************)
(* The inductive invariant.  The elements that are bound together are      *)
(* 1..BoundLen, each leads to the one malloc'ed after it, and only the     *)
(* last of them carries the mark and may lead back.  The other conjuncts   *)
(* say where each walk is.                                                 *)
(***************************************************************************)
ChainInv ==
  /\ nets = IF allocs = 0 THEN NULL ELSE 1
  /\ \A i \in 1..(BoundLen - 1) : next[i] = i + 1 /\ ~last[i]
  /\ (BoundLen > 0 /\ pc # "bindtail") =>
        last[BoundLen] /\ next[BoundLen] \in 0..BoundLen

\* The element that bindA is to bind: the newest, alone and marked last.
NewestInv == /\ allocs >= 2
             /\ e1 = 1 /\ e2 = allocs /\ e2last = allocs
             /\ next[allocs] = NULL /\ last[allocs]

WalkInv ==
  /\ pc = "bind" => NewestInv /\ e1last \in 1..(allocs - 1)
  /\ pc = "bindtail" => /\ NewestInv
                        /\ e1last = allocs - 1
                        /\ next[allocs - 1] = allocs
                        /\ ~last[allocs - 1]
  /\ pc = "loop" => e1 \in 1..allocs /\ e1last \in 1..allocs
  /\ pc = "free" => e1last \in 1..allocs

FreedInv ==
  /\ circuit = "none" => allocs = 0 /\ pc = "idle"
  /\ circuit = "freed" => freed = 1..allocs /\ pc = "idle"
  /\ pc = "free" => freed = 1..(e1last - 1)
  /\ pc = "freeC" => freed = 1..allocs
  /\ (circuit # "freed" /\ pc \notin {"free", "freeC"}) => freed = {}

IInv == TypeOK /\ ChainInv /\ WalkInv /\ FreedInv

-----------------------------------------------------------------------------
(* Each action preserves the invariant.                                    *)

\* The initial state satisfies the inductive invariant.
LEMMA InitIInv == Init => IInv
  BY MaxElementsAssumption
  DEF Init, IInv, TypeOK, ChainInv, WalkInv, NewestInv, FreedInv, BoundLen,
      Element, NULL, OK, ERR

\* Creating the circuit keeps the invariant.
LEMMA newCIInv == IInv /\ newC => IInv'
  BY MaxElementsAssumption
  DEF newC, heap, links, locals, IInv, TypeOK, ChainInv, WalkInv, NewestInv,
      FreedInv, BoundLen, Element, NULL, OK, ERR

\* appendA keeps the invariant: it marks the new element as the last one and
\* leaves the bound elements alone.
LEMMA appendAIInv == IInv /\ appendA => IInv'
  <1> SUFFICES ASSUME IInv, appendA PROVE IInv'
    OBVIOUS
  <1> USE MaxElementsAssumption DEF NULL, Element
  <1>1. /\ pc = "idle" /\ circuit = "live" /\ freed = {}
        /\ allocs \in 0..MaxElements /\ allocs < MaxElements
        /\ BoundLen = allocs
    BY DEF IInv, TypeOK, FreedInv, appendA, Call, BoundLen
  <1>2. TypeOK'
    BY <1>1 DEF IInv, TypeOK, appendA, Enter, ChainInv, locals
  <1>3. /\ allocs' = allocs + 1
        /\ last' = [last EXCEPT ![allocs + 1] = TRUE]
        /\ next' = [next EXCEPT ![allocs + 1] = NULL]
        /\ circuit' = circuit /\ freed' = freed
        /\ next \in [Element -> {NULL} \cup Element]
        /\ last \in [Element -> BOOLEAN]
    BY DEF appendA, IInv, TypeOK
  <1>4. CASE nets = NULL
    <2>1. allocs = 0 /\ nets' = 1 /\ pc' = "idle"
      BY <1>1, <1>3, <1>4 DEF appendA, IInv, ChainInv
    <2> QED
      BY <1>1, <1>2, <1>3, <2>1
      DEF IInv, ChainInv, WalkInv, FreedInv, BoundLen
  <1>5. CASE nets # NULL
    <2>1. /\ nets' = nets /\ pc' = "bind" /\ nets = 1 /\ allocs >= 1
          /\ e1' = 1 /\ e1last' = 1 /\ e2' = allocs + 1 /\ e2last' = allocs + 1
      BY <1>1, <1>5 DEF appendA, Enter, IInv, ChainInv
    <2>2. BoundLen' = allocs
      BY <1>1, <1>3, <2>1 DEF BoundLen
    <2>3. ChainInv'
      BY <1>1, <1>3, <2>1, <2>2 DEF IInv, ChainInv
    <2>4. WalkInv' /\ FreedInv'
      BY <1>1, <1>3, <2>1 DEF WalkInv, NewestInv, FreedInv
    <2> QED
      BY <1>2, <2>3, <2>4 DEF IInv
  <1> QED
    BY <1>4, <1>5

\* What bindA sees when it walks the net of a circuit: e1last is the last
\* bound element exactly when it leads nowhere or back to the first one.
LEMMA BindWalk ==
  ASSUME IInv, pc = "bind"
  PROVE  /\ allocs \in 2..MaxElements /\ circuit = "live" /\ freed = {}
         /\ BoundLen = allocs - 1 /\ nets = 1
         /\ e1 = 1 /\ e2 = allocs /\ e2last = allocs
         /\ next[allocs] = NULL /\ last[allocs]
         /\ e1last \in 1..(allocs - 1)
         /\ next[e1last] \in 0..(allocs - 1)
         /\ next[e1last] \in {NULL, 1} => e1last = allocs - 1
         /\ next \in [Element -> {NULL} \cup Element]
         /\ last \in [Element -> BOOLEAN]
  <1> USE MaxElementsAssumption DEF NULL, Element
  <1>1. /\ allocs \in 2..MaxElements /\ circuit = "live" /\ freed = {}
        /\ BoundLen = allocs - 1 /\ nets = 1
        /\ e1 = 1 /\ e2 = allocs /\ e2last = allocs
        /\ next[allocs] = NULL /\ last[allocs]
        /\ e1last \in 1..(allocs - 1)
        /\ next \in [Element -> {NULL} \cup Element]
        /\ last \in [Element -> BOOLEAN]
    BY DEF IInv, TypeOK, ChainInv, WalkInv, NewestInv, FreedInv, BoundLen
  <1>2. CASE e1last = allocs - 1
    BY <1>1, <1>2 DEF IInv, ChainInv
  <1>3. CASE e1last < allocs - 1
    <2>1. next[e1last] = e1last + 1
      BY <1>1, <1>3 DEF IInv, ChainInv
    <2> QED
      BY <1>1, <1>3, <2>1
  <1> QED
    BY <1>1, <1>2, <1>3

\* Every step of bindA keeps the invariant: it inserts the new element after
\* the last one, wherever the walk found it.
LEMMA bindAIInv == IInv /\ bindA => IInv'
  <1> SUFFICES ASSUME IInv, bindA PROVE IInv'
    OBVIOUS
  <1> USE MaxElementsAssumption DEF NULL, Element
  <1>1. CASE bindA_open
    <2>1. pc = "bind" /\ e1last = allocs - 1
      BY <1>1, BindWalk DEF bindA_open
    <2>2. /\ pc' = "idle" /\ allocs' = allocs /\ nets' = nets
          /\ circuit' = circuit /\ freed' = freed
          /\ next' = [next EXCEPT ![allocs - 1] = allocs]
          /\ last' = [last EXCEPT ![allocs - 1] = FALSE]
      BY <1>1, <2>1, BindWalk DEF bindA_open, Return, Enter, heap
    <2>3. TypeOK'
      BY <1>1, <2>1, <2>2, BindWalk
      DEF IInv, TypeOK, bindA_open, Return, Enter
    <2>4. ChainInv'
      <3>1. BoundLen' = allocs
        BY <2>2 DEF BoundLen
      <3>2. ASSUME NEW i \in 1..(allocs - 1)
            PROVE  next'[i] = i + 1 /\ ~last'[i]
        <4>1. CASE i = allocs - 1
          BY <2>1, <2>2, <4>1, BindWalk DEF IInv, TypeOK
        <4>2. CASE i # allocs - 1
          <5>1. i \in 1..(BoundLen - 1)
            BY <2>1, <4>2, BindWalk DEF BoundLen
          <5>2. next'[i] = next[i] /\ last'[i] = last[i]
            BY <2>2, <4>2, BindWalk DEF IInv, TypeOK
          <5> QED
            BY <5>1, <5>2 DEF IInv, ChainInv
        <4> QED
          BY <4>1, <4>2
      <3>3. last'[allocs] /\ next'[allocs] = NULL
        BY <2>1, <2>2, BindWalk
      <3> QED
        BY <2>1, <2>2, <3>1, <3>2, <3>3, BindWalk DEF ChainInv
    <2>5. WalkInv' /\ FreedInv'
      BY <2>1, <2>2, BindWalk DEF WalkInv, FreedInv
    <2> QED
      BY <2>3, <2>4, <2>5 DEF IInv
  <1>2. CASE bindA_closed
    <2>1. pc = "bind" /\ e1last = allocs - 1
      BY <1>2, BindWalk DEF bindA_closed
    <2>2. /\ pc' = "bindtail" /\ allocs' = allocs /\ nets' = nets
          /\ circuit' = circuit /\ freed' = freed
          /\ e1' = e1 /\ e1last' = e1last /\ e2' = e2 /\ e2last' = e2last
          /\ next' = [next EXCEPT ![allocs - 1] = allocs]
          /\ last' = [last EXCEPT ![allocs - 1] = FALSE]
      BY <1>2, <2>1, BindWalk DEF bindA_closed, Enter, heap
    <2>3. TypeOK'
      BY <1>2, <2>1, <2>2, BindWalk DEF IInv, TypeOK, bindA_closed
    <2>4. ChainInv'
      BY <2>1, <2>2, BindWalk DEF IInv, ChainInv, BoundLen
    <2>5. WalkInv' /\ FreedInv'
      BY <2>1, <2>2, BindWalk DEF WalkInv, NewestInv, FreedInv
    <2> QED
      BY <2>3, <2>4, <2>5 DEF IInv
  <1>3. CASE bindA_next
    <2>1. /\ pc = "bind" /\ pc' = "bind" /\ next[e1last] \notin {NULL, e1}
          /\ e1' = e1 /\ e1last' = next[e1last] /\ e2' = e2 /\ e2last' = e2last
          /\ UNCHANGED <<circuit, nets, allocs, freed, next, last, result>>
      BY <1>3 DEF bindA_next, Enter, heap, links
    <2> QED
      BY <2>1, BindWalk
      DEF IInv, TypeOK, ChainInv, WalkInv, NewestInv, FreedInv, BoundLen
  <1>4. ASSUME pc = "bindtail"
        PROVE  /\ allocs \in 2..MaxElements /\ circuit = "live" /\ freed = {}
               /\ BoundLen = allocs - 1 /\ nets = 1
               /\ e1 = 1 /\ e2last = allocs
               /\ next[allocs] = NULL /\ last[allocs]
               /\ next[allocs - 1] = allocs /\ ~last[allocs - 1]
               /\ next \in [Element -> {NULL} \cup Element]
               /\ last \in [Element -> BOOLEAN]
    BY <1>4
    DEF IInv, TypeOK, ChainInv, WalkInv, NewestInv, FreedInv, BoundLen
  <1>5. CASE bindA_tail
    <2>1. /\ pc = "bindtail" /\ pc' = "idle"
          /\ next' = [next EXCEPT ![allocs] = 1]
          /\ UNCHANGED <<circuit, nets, allocs, freed, last, result>>
      BY <1>4, <1>5 DEF bindA_tail, Return, Enter, heap
    <2>2. TypeOK'
      BY <1>4, <1>5, <2>1 DEF IInv, TypeOK, bindA_tail, Return, Enter
    <2>3. ChainInv'
      BY <1>4, <2>1 DEF IInv, ChainInv, BoundLen
    <2>4. WalkInv' /\ FreedInv'
      BY <1>4, <2>1 DEF WalkInv, FreedInv
    <2> QED
      BY <2>2, <2>3, <2>4 DEF IInv
  <1> QED
    BY <1>1, <1>2, <1>3, <1>5 DEF bindA

\* What loopA sees as it walks: the element that leads nowhere is the last.
LEMMA LoopWalk ==
  ASSUME IInv, pc = "loop"
  PROVE  /\ allocs \in 1..MaxElements /\ circuit = "live" /\ freed = {}
         /\ BoundLen = allocs /\ nets = 1
         /\ e1 \in 1..allocs /\ e1last \in 1..allocs
         /\ next[e1last] \in 0..allocs
         /\ next[e1last] = NULL => e1last = allocs
         /\ next \in [Element -> {NULL} \cup Element]
         /\ last \in [Element -> BOOLEAN]
  <1> USE MaxElementsAssumption DEF NULL, Element
  <1>1. /\ allocs \in 1..MaxElements /\ circuit = "live" /\ freed = {}
        /\ BoundLen = allocs /\ nets = 1
        /\ e1 \in 1..allocs /\ e1last \in 1..allocs
        /\ next \in [Element -> {NULL} \cup Element]
        /\ last \in [Element -> BOOLEAN]
    BY DEF IInv, TypeOK, ChainInv, WalkInv, FreedInv, BoundLen
  <1>2. CASE e1last = allocs
    BY <1>1, <1>2 DEF IInv, ChainInv
  <1>3. CASE e1last < allocs
    <2>1. next[e1last] = e1last + 1
      BY <1>1, <1>3 DEF IInv, ChainInv
    <2> QED
      BY <1>1, <1>3, <2>1
  <1> QED
    BY <1>1, <1>2, <1>3

\* Calling loopA, on any element of the circuit, keeps the invariant.
LEMMA loopACallIInv == ASSUME IInv, NEW e \in LoopAt, loopA(e) PROVE IInv'
  <1> USE MaxElementsAssumption DEF NULL, Element
  <1>1. /\ pc = "idle" /\ pc' = "loop" /\ circuit = "live" /\ freed = {}
        /\ e \in 1..allocs /\ e1' = e /\ e1last' = e
        /\ e2' = NULL /\ e2last' = NULL
        /\ UNCHANGED <<circuit, nets, allocs, freed, next, last, result>>
    BY DEF loopA, Call, Enter, heap, links, IInv, FreedInv
  <1> QED
    BY <1>1 DEF IInv, TypeOK, ChainInv, WalkInv, FreedInv, BoundLen

\* The turns of loopA keep the invariant.
LEMMA loopATurnIInv ==
  IInv /\ (loopA_close \/ loopA_already_closed \/ loopA_next) => IInv'
  <1> USE MaxElementsAssumption DEF NULL, Element
  <1>1. ASSUME IInv, loopA_close PROVE IInv'
    <2>1. /\ pc = "loop" /\ e1last = allocs /\ pc' = "idle"
          /\ next' = [next EXCEPT ![allocs] = e1]
          /\ last' = [last EXCEPT ![allocs] = TRUE]
          /\ UNCHANGED <<circuit, nets, allocs, freed>>
      BY <1>1, LoopWalk DEF loopA_close, Return, Enter, heap
    <2>2. TypeOK'
      BY <1>1, <2>1, LoopWalk
      DEF IInv, TypeOK, loopA_close, Return, Enter, OK
    <2>3. ChainInv'
      BY <1>1, <2>1, LoopWalk DEF IInv, ChainInv, BoundLen
    <2>4. WalkInv' /\ FreedInv'
      BY <1>1, <2>1, LoopWalk DEF WalkInv, FreedInv
    <2> QED
      BY <2>2, <2>3, <2>4 DEF IInv
  <1>2. ASSUME IInv, loopA_already_closed PROVE IInv'
    <2>1. /\ pc = "loop" /\ pc' = "idle"
          /\ e1' = NULL /\ e1last' = NULL /\ e2' = NULL /\ e2last' = NULL
          /\ result' = ERR
          /\ UNCHANGED <<circuit, nets, allocs, freed, next, last>>
      BY <1>2 DEF loopA_already_closed, Return, Enter, heap, links
    <2> QED
      BY <1>2, <2>1, LoopWalk
      DEF IInv, TypeOK, ChainInv, WalkInv, FreedInv, BoundLen
  <1>3. ASSUME IInv, loopA_next PROVE IInv'
    <2>1. /\ pc = "loop" /\ pc' = "loop" /\ next[e1last] # NULL
          /\ e1' = e1 /\ e1last' = next[e1last]
          /\ e2' = NULL /\ e2last' = NULL
          /\ UNCHANGED <<circuit, nets, allocs, freed, next, last, result>>
      BY <1>3 DEF loopA_next, Enter, heap, links
    <2> QED
      BY <1>3, <2>1, LoopWalk
      DEF IInv, TypeOK, ChainInv, WalkInv, FreedInv, BoundLen
  <1> QED
    BY <1>1, <1>2, <1>3

\* freeC starts at the first element, with nothing freed.
LEMMA freeCIInv == IInv /\ freeC => IInv'
  <1> USE MaxElementsAssumption DEF NULL, Element
  <1> SUFFICES ASSUME IInv, freeC PROVE IInv'
    OBVIOUS
  <1>1. /\ pc = "idle" /\ circuit = "live" /\ freed = {} /\ allocs \in Nat
        /\ nets = IF allocs = 0 THEN NULL ELSE 1
        /\ UNCHANGED <<circuit, nets, allocs, freed, next, last, result>>
    BY DEF freeC, Call, heap, links, IInv, TypeOK, ChainInv, FreedInv
  <1>2. CASE nets = NULL
    BY <1>1, <1>2
    DEF freeC, Enter, IInv, TypeOK, ChainInv, WalkInv, FreedInv, BoundLen
  <1>3. CASE nets # NULL
    BY <1>1, <1>3
    DEF freeC, Enter, IInv, TypeOK, ChainInv, WalkInv, FreedInv, BoundLen
  <1> QED
    BY <1>2, <1>3

\* freeE frees the element it is at and stops exactly after the last one.
LEMMA FreeWalk ==
  ASSUME IInv, freeE
  PROVE  /\ pc = "free" /\ circuit = "live"
         /\ allocs \in 1..MaxElements /\ e1last \in 1..allocs
         /\ freed = 1..(e1last - 1) /\ freed' = 1..e1last
         /\ UNCHANGED <<circuit, nets, allocs, next, last, result>>
         /\ e1' = NULL /\ e2' = NULL /\ e2last' = NULL
         /\ \/ e1last = allocs /\ pc' = "freeC" /\ e1last' = NULL
            \/ e1last < allocs /\ pc' = "free" /\ e1last' = e1last + 1
  <1> USE MaxElementsAssumption DEF NULL, Element
  <1>1. /\ pc = "free" /\ circuit = "live" /\ freed = 1..(e1last - 1)
        /\ allocs \in 1..MaxElements /\ e1last \in 1..allocs
        /\ BoundLen = allocs
        /\ UNCHANGED <<circuit, nets, allocs, next, last, result>>
        /\ e1' = NULL /\ e2' = NULL /\ e2last' = NULL
    BY DEF freeE, Enter, links, IInv, TypeOK, WalkInv, FreedInv, BoundLen
  <1>2. freed' = 1..e1last
    BY <1>1 DEF freeE
  <1>3. CASE e1last = allocs
    <2>1. last[e1last]
      BY <1>1, <1>3 DEF IInv, ChainInv
    <2> QED
      BY <1>1, <1>2, <1>3, <2>1 DEF freeE, Enter
  <1>4. CASE e1last < allocs
    <2>1. next[e1last] = e1last + 1 /\ ~last[e1last]
      BY <1>1, <1>4 DEF IInv, ChainInv
    <2> QED
      BY <1>1, <1>2, <1>4, <2>1 DEF freeE, Enter
  <1> QED
    BY <1>1, <1>3, <1>4

\* The steps of freeC keep the invariant.
LEMMA freeTurnIInv == IInv /\ (freeE \/ freeC_self) => IInv'
  <1> USE MaxElementsAssumption DEF NULL, Element
  <1>1. ASSUME IInv, freeE PROVE IInv'
    <2>1. /\ pc = "free" /\ pc' \in {"free", "freeC"} /\ circuit = "live"
          /\ UNCHANGED <<circuit, nets, allocs, next, last, result>>
          /\ allocs \in 1..MaxElements /\ e1last \in 1..allocs
          /\ freed' = 1..e1last
          /\ e1' = NULL /\ e2' = NULL /\ e2last' = NULL
      BY <1>1, FreeWalk
    <2>2. \/ e1last = allocs /\ pc' = "freeC" /\ e1last' = NULL
          \/ e1last < allocs /\ pc' = "free" /\ e1last' = e1last + 1
      BY <1>1, FreeWalk
    <2>3. TypeOK'
      BY <1>1, <2>1, <2>2 DEF IInv, TypeOK
    <2>4. ChainInv'
      BY <1>1, <2>1 DEF IInv, ChainInv, BoundLen
    <2>5. WalkInv' /\ FreedInv'
      BY <2>1, <2>2 DEF WalkInv, FreedInv
    <2> QED
      BY <2>3, <2>4, <2>5 DEF IInv
  <1>2. ASSUME IInv, freeC_self PROVE IInv'
    <2>1. /\ pc = "freeC" /\ pc' = "idle" /\ circuit' = "freed"
          /\ e1' = NULL /\ e1last' = NULL /\ e2' = NULL /\ e2last' = NULL
          /\ UNCHANGED <<nets, allocs, freed, next, last, result>>
      BY <1>2 DEF freeC_self, Return, Enter, heap, links
    <2> QED
      BY <1>2, <2>1 DEF IInv, TypeOK, ChainInv, WalkInv, FreedInv, BoundLen
  <1> QED
    BY <1>1, <1>2

-----------------------------------------------------------------------------
(* The theorems.                                                           *)

\* Every step of the specification keeps the inductive invariant.
LEMMA StepIInv == IInv /\ [Next]_vars => IInv'
  <1> SUFFICES ASSUME IInv, [Next]_vars PROVE IInv'
    OBVIOUS
  <1>1. CASE newC
    BY <1>1, newCIInv
  <1>2. CASE appendA
    BY <1>2, appendAIInv
  <1>3. ASSUME NEW e \in LoopAt, loopA(e) PROVE IInv'
    BY <1>3, loopACallIInv
  <1>4. CASE freeC
    BY <1>4, freeCIInv
  <1>5. CASE Turn
    BY <1>5, bindAIInv, loopATurnIInv, freeTurnIInv DEF Turn
  <1>6. CASE UNCHANGED vars
    BY <1>6
    DEF vars, heap, links, locals, IInv, TypeOK, ChainInv, WalkInv, NewestInv,
        FreedInv, BoundLen
  <1> QED
    BY <1>1, <1>2, <1>3, <1>4, <1>5, <1>6 DEF Next

\* The inductive invariant holds in every reachable state.
LEMMA AlwaysIInv == Spec => []IInv
  BY InitIInv, StepIInv, PTL DEF Spec

\* The variables of Circuit keep their types.
THEOREM TypeCorrect == Spec => []TypeOK
  <1>1. IInv => TypeOK
    BY DEF IInv
  <1> QED
    BY <1>1, AlwaysIInv, PTL

\* For circuits of any size, closed wherever the program likes, no walk of
\* bindA, loopA or freeE ever touches freed or unallocated memory.
THEOREM MemorySafety == Spec => []NoUseAfterFree
  <1>1. IInv => NoUseAfterFree
    <2> SUFFICES ASSUME IInv PROVE NoUseAfterFree
      OBVIOUS
    <2> USE MaxElementsAssumption DEF Element, NULL
    <2>1. pc \in {"bind", "bindtail", "loop"} => freed = {}
      BY DEF IInv, FreedInv
    <2>2. pc \in {"bind", "bindtail"} =>
            /\ e1last \in 1..allocs
            /\ {e1, e2, e2last} \subseteq 1..allocs
      BY DEF IInv, TypeOK, WalkInv, NewestInv
    <2>3. pc = "loop" => e1last \in 1..allocs
      BY DEF IInv, WalkInv
    <2>4. pc = "free" => e1last \in (1..allocs) \ (1..(e1last - 1))
      BY DEF IInv, TypeOK, WalkInv
    <2>5. pc = "free" => freed = 1..(e1last - 1)
      BY DEF IInv, FreedInv
    <2> QED
      BY <2>1, <2>2, <2>3, <2>4, <2>5 DEF NoUseAfterFree, Live
  <1> QED
    BY <1>1, AlwaysIInv, PTL

\* freeC gives back every element of the circuit, whatever its shape.
THEOREM NothingLeaks == Spec => []NoLeak
  <1>1. IInv => NoLeak
    BY DEF IInv, FreedInv, NoLeak
  <1> QED
    BY <1>1, AlwaysIInv, PTL

-----------------------------------------------------------------------------
(* Refinement.                                                             *)

\* Init of the pointer structure is Init of the abstract net.
LEMMA InitShape == Init => Shape!Init
  BY DEF Init, Shape!Init, BoundLen, Back, Phase, NULL

\* Every step of the pointer structure is a step of the abstract net or
\* leaves it as it is.
LEMMA StepShape == IInv /\ IInv' /\ [Next]_vars => [Shape!Next]_(Shape!shape)
  <1> SUFFICES ASSUME IInv, IInv', [Next]_vars
               PROVE  Shape!Next \/ UNCHANGED Shape!shape
    OBVIOUS
  <1> USE MaxElementsAssumption DEF NULL, Element
  <1>1. CASE newC
    <2>1. Shape!Create
      BY <1>1
      DEF newC, heap, links, locals, IInv, FreedInv, Shape!Create, BoundLen,
          Back, Phase
    <2> QED
      BY <2>1 DEF Shape!Next
  <1>2. CASE appendA
    <2>1. /\ pc = "idle" /\ circuit = "live" /\ circuit' = circuit
          /\ BoundLen = allocs /\ Phase = "live" /\ Phase' = "live"
          /\ freed' = freed /\ allocs' = allocs + 1
          /\ allocs \in 0..MaxElements /\ allocs < MaxElements
      BY <1>2
      DEF appendA, Call, Enter, locals, BoundLen, Phase, IInv, TypeOK
    <2>2. CASE nets = NULL
      <3>1. allocs = 0 /\ pc' = "idle" /\ next'[1] = NULL
        BY <1>2, <2>1, <2>2 DEF appendA, IInv, TypeOK, ChainInv
      <3>2. Shape!Append
        BY <2>1, <3>1 DEF Shape!Append, BoundLen, Back
      <3> QED
        BY <3>2 DEF Shape!Next
    <2>3. CASE nets # NULL
      <3>1. /\ pc' = "bind" /\ allocs # 0
            /\ next' = [next EXCEPT ![allocs + 1] = NULL]
            /\ next \in [Element -> {NULL} \cup Element]
        BY <1>2, <2>1, <2>3 DEF appendA, Enter, IInv, TypeOK, ChainInv
      <3>2. BoundLen' = allocs /\ Back' = Back
        BY <2>1, <3>1 DEF BoundLen, Back
      <3> QED
        BY <2>1, <3>2 DEF Shape!shape
    <2> QED
      BY <2>2, <2>3
  <1>3. ASSUME NEW e \in LoopAt, loopA(e)
        PROVE  UNCHANGED Shape!shape
    BY <1>3
    DEF loopA, Call, Enter, heap, links, Shape!shape, BoundLen, Back, Phase
  <1>4. CASE freeC
    <2>1. Shape!StartRelease
      BY <1>4
      DEF freeC, Call, Enter, heap, links, Shape!StartRelease, BoundLen, Back,
          Phase
    <2> QED
      BY <2>1 DEF Shape!Next
  <1>5. CASE bindA_open
    <2>1. /\ pc = "bind" /\ pc' = "idle" /\ e1last = allocs - 1
          /\ allocs \in 2..MaxElements /\ next[allocs - 1] = NULL
          /\ next' = [next EXCEPT ![allocs - 1] = allocs]
          /\ UNCHANGED <<circuit, allocs, freed>>
          /\ circuit = "live"
      BY <1>5, BindWalk DEF bindA_open, Return, Enter, heap
    <2>2. next'[allocs] = NULL
      BY <2>1, BindWalk
    <2>3. Shape!Append
      BY <2>1, <2>2 DEF Shape!Append, BoundLen, Back, Phase
    <2> QED
      BY <2>3 DEF Shape!Next
  <1>6. CASE bindA_closed
    <2>1. /\ pc = "bind" /\ pc' = "bindtail" /\ e1last = allocs - 1
          /\ allocs \in 2..MaxElements /\ next[allocs - 1] = e1
          /\ e1' = e1 /\ UNCHANGED <<circuit, allocs, freed>>
          /\ circuit = "live"
      BY <1>6, BindWalk DEF bindA_closed, Enter, heap
    <2> QED
      BY <2>1 DEF Shape!shape, BoundLen, Back, Phase
  <1>7. CASE bindA_next
    BY <1>7
    DEF bindA_next, Enter, heap, links, Shape!shape, BoundLen, Back, Phase
  <1>8. CASE bindA_tail
    <2>1. /\ pc = "bindtail" /\ pc' = "idle" /\ e1 = 1 /\ e2last = allocs
          /\ allocs \in 2..MaxElements
          /\ next' = [next EXCEPT ![allocs] = 1]
          /\ next \in [Element -> {NULL} \cup Element]
          /\ UNCHANGED <<circuit, allocs, freed>> /\ circuit = "live"
      BY <1>8
      DEF bindA_tail, Return, Enter, heap, IInv, TypeOK, WalkInv, NewestInv,
          FreedInv
    <2>2. next'[allocs] = 1
      BY <2>1
    <2>3. Shape!Append
      BY <2>1, <2>2 DEF Shape!Append, BoundLen, Back, Phase
    <2> QED
      BY <2>3 DEF Shape!Next
  <1>9. CASE loopA_close
    <2>1. /\ pc = "loop" /\ pc' = "idle" /\ e1last = allocs
          /\ allocs \in 1..MaxElements /\ e1 \in 1..allocs
          /\ next[allocs] = NULL /\ next' = [next EXCEPT ![allocs] = e1]
          /\ next \in [Element -> {NULL} \cup Element]
          /\ UNCHANGED <<circuit, allocs, freed>> /\ circuit = "live"
      BY <1>9, LoopWalk DEF loopA_close, Return, Enter, heap
    <2>2. next'[allocs] = e1
      BY <2>1
    <2>3. Shape!Close(e1) /\ e1 \in 1..BoundLen
      BY <2>1, <2>2 DEF Shape!Close, BoundLen, Back, Phase
    <2> QED
      BY <2>3 DEF Shape!Next
  <1>10. CASE loopA_already_closed \/ loopA_next
    BY <1>10
    DEF loopA_already_closed, loopA_next, Return, Enter, heap, links,
        Shape!shape, BoundLen, Back, Phase
  <1>11. CASE freeE
    <2>1. Shape!ReleaseElement(e1last) /\ e1last \in 1..BoundLen
      BY <1>11, FreeWalk DEF Shape!ReleaseElement, BoundLen, Back, Phase
    <2> QED
      BY <2>1 DEF Shape!Next
  <1>12. CASE freeC_self
    <2>1. Shape!Release
      BY <1>12
      DEF freeC_self, Return, Enter, heap, links, IInv, TypeOK, FreedInv,
          Shape!Release, BoundLen, Back, Phase
    <2> QED
      BY <2>1 DEF Shape!Next
  <1>13. CASE UNCHANGED vars
    BY <1>13
    DEF vars, heap, links, locals, Shape!shape, BoundLen, Back, Phase
  <1> QED
    BY <1>1, <1>2, <1>3, <1>4, <1>5, <1>6, <1>7, <1>8, <1>9, <1>10,
       <1>11, <1>12, <1>13 DEF Next, Turn, bindA

\* The circuit implements the abstract net: whatever sequence of calls the
\* program makes, appendA, loopA and freeC change the net as NetShape says.
THEOREM Refinement == Spec => ImplementsNetShape
  <1>1. Init => Shape!Init
    BY InitShape
  <1>2. IInv /\ IInv' /\ [Next]_vars => [Shape!Next]_(Shape!shape)
    BY StepShape
  <1> QED
    BY <1>1, <1>2, AlwaysIInv, PTL DEF Spec, ImplementsNetShape, Shape!Spec
=============================================================================
