------------------------- MODULE CircuitBindProofs --------------------------
(***************************************************************************)
(* Proofs about CircuitBind, for nets of any size: bindA joins two nets as *)
(* its comment draws it, whichever of them are rings, its walks stay in    *)
(* allocated memory, and freeC then frees both.                            *)
(***************************************************************************)
EXTENDS CircuitBind, TLAPS

-----------------------------------------------------------------------------
(* The inductive invariant.                                                *)

SizesInv ==
  /\ m \in Nat \ {0} /\ k \in Nat \ {0} /\ m + k <= MaxElements
  /\ ring1 \in BOOLEAN /\ ring2 \in BOOLEAN /\ bound \in BOOLEAN
  /\ allocs = m + k /\ nets = 1

\* bindA touches no element but the last ones of the two nets.
InnerInv ==
  /\ \A e \in 1..(m + k) : e \notin {m, m + k} => next[e] = e + 1 /\ ~last[e]
  /\ last[m + k]

\* The nets are as they were.
Apart ==
  /\ next[m] = End(1, ring1) /\ last[m]
  /\ next[m + k] = End(m + 1, ring2)

\* The second net follows the first, and leads to element to.
Joined(to) ==
  /\ next[m] = m + 1 /\ ~last[m]
  /\ next[m + k] = to

\* How far bindA is: its walks are in the net that they started in, and the
\* inner one runs only if the first net was a ring.
WalkInv ==
  /\ pc \in {"idle", "bind", "bindtail", "free", "freeC"}
  /\ ~bound => pc = "idle" /\ circuit = "live"
  /\ (~bound \/ pc = "bind") => Apart
  /\ pc = "bind" => e1 = 1 /\ e1last \in 1..m /\ e2 = m + 1 /\ e2last = m + 1
  /\ pc = "bindtail" =>
       /\ ring1 /\ Joined(End(m + 1, ring2))
       /\ e1 = 1 /\ e1last = m /\ e2 = m + 1 /\ e2last \in (m + 1)..(m + k)
  /\ (bound /\ pc \notin {"bind", "bindtail"}) =>
       Joined(IF ring1 THEN 1 ELSE End(m + 1, ring2))

\* What is freed is the beginning of the chain.
FreedInv ==
  /\ circuit \in {"live", "freed"}
  /\ circuit = "freed" => freed = 1..(m + k) /\ pc = "idle"
  /\ pc = "free" => e1last \in 1..(m + k) /\ freed = 1..(e1last - 1)
  /\ pc = "freeC" => freed = 1..(m + k)
  /\ (circuit = "live" /\ pc \notin {"free", "freeC"}) => freed = {}

BindInv == TypeOK /\ SizesInv /\ InnerInv /\ WalkInv /\ FreedInv

-----------------------------------------------------------------------------
(* Each action preserves the invariant.                                    *)

\* The types that the steps need.
LEMMA BindTypes ==
  ASSUME BindInv
  PROVE  /\ m \in Nat /\ k \in Nat /\ m >= 1 /\ k >= 1
         /\ m \in Element /\ m + k \in Element /\ m + 1 \in Element
         /\ 1 \in Element /\ allocs = m + k /\ nets = 1
         /\ \A e \in 1..(m + k) : e \in Element
         /\ next \in [Element -> {NULL} \cup Element]
         /\ last \in [Element -> BOOLEAN]
         /\ End(m + 1, ring2) \in {NULL, m + 1} /\ End(1, ring1) \in {NULL, 1}
  <1>1. m \in Nat /\ k \in Nat /\ m >= 1 /\ k >= 1 /\ m + k <= MaxElements
        /\ MaxElements \in Nat
    BY MaxElementsAssumption DEF BindInv, SizesInv
  <1>2. /\ m \in Element /\ m + k \in Element /\ m + 1 \in Element /\ 1 \in Element
        /\ \A e \in 1..(m + k) : e \in Element
    BY <1>1 DEF Element
  <1> QED
    BY <1>1, <1>2 DEF BindInv, SizesInv, TypeOK, End

\* The two nets as they are at the start.
LEMMA InitBindInv == BindInit => BindInv
  <1> SUFFICES ASSUME BindInit PROVE BindInv
    OBVIOUS
  <1>1. /\ m \in Nat \ {0} /\ k \in Nat \ {0} /\ m + k <= MaxElements
        /\ MaxElements \in Nat
    BY SizesAssumption, MaxElementsAssumption DEF BindInit
  <1>2. /\ ring1 \in BOOLEAN /\ ring2 \in BOOLEAN /\ bound = FALSE
        /\ circuit = "live" /\ nets = 1 /\ allocs = m + k /\ freed = {} /\ pc = "idle"
        /\ e1 = NULL /\ e1last = NULL /\ e2 = NULL /\ e2last = NULL /\ result = OK
    BY DEF BindInit
  <1>3. /\ next = [e \in Element |->
                     IF e > m + k THEN NULL
                     ELSE IF e = m THEN End(1, ring1)
                     ELSE IF e = m + k THEN End(m + 1, ring2)
                     ELSE e + 1]
        /\ last = [e \in Element |-> e \in {m, m + k}]
    BY DEF BindInit
  <1>4. next \in [Element -> {NULL} \cup Element] /\ last \in [Element -> BOOLEAN]
    BY <1>1, <1>3 DEF Element, End, NULL
  <1>5. SizesInv
    BY <1>1, <1>2 DEF SizesInv
  <1>6. TypeOK
    BY <1>1, <1>2, <1>4 DEF TypeOK, Element
  <1>7. InnerInv /\ Apart
    <2>1. /\ m \in Element /\ m + k \in Element /\ \A e \in 1..(m + k) : e \in Element
          /\ m # m + k /\ ~(m > m + k) /\ ~(m + k > m + k)
      BY <1>1 DEF Element
    <2>2. \A e \in 1..(m + k) : ~(e > m + k)
      BY <1>1
    <2> QED
      BY <1>3, <2>1, <2>2 DEF InnerInv, Apart
  <1>8. WalkInv /\ FreedInv
    BY <1>2, <1>7 DEF WalkInv, FreedInv
  <1> QED
    BY <1>5, <1>6, <1>7, <1>8 DEF BindInv

\* The call of bindA.
LEMMA CallBindKeeps == BindInv /\ callBindA => BindInv'
  <1> SUFFICES ASSUME BindInv, callBindA PROVE BindInv'
    OBVIOUS
  <1>1. /\ pc = "idle" /\ circuit = "live" /\ ~bound /\ bound' = TRUE
        /\ pc' = "bind" /\ e1' = 1 /\ e1last' = 1 /\ e2' = m + 1 /\ e2last' = m + 1
        /\ UNCHANGED <<circuit, nets, allocs, freed, next, last, result>>
        /\ UNCHANGED <<m, k, ring1, ring2>>
    BY DEF callBindA, Call, Enter, heap, links, nets12
  <1>2. SizesInv' /\ InnerInv'
    BY <1>1 DEF BindInv, SizesInv, InnerInv
  <1>3. TypeOK'
    BY <1>1, BindTypes DEF BindInv, TypeOK
  <1>4. 1 \in 1..m
    BY BindTypes
  <1>5. WalkInv' /\ FreedInv'
    BY <1>1, <1>4 DEF BindInv, WalkInv, FreedInv, Apart
  <1> QED
    BY <1>2, <1>3, <1>5 DEF BindInv

\* The outer walk sees the end of the first net exactly at its last element.
LEMMA FirstWalk ==
  ASSUME BindInv, pc = "bind"
  PROVE  /\ e1 = 1 /\ e1last \in 1..m /\ e2 = m + 1 /\ e2last = m + 1 /\ Apart
         /\ bound /\ circuit = "live" /\ freed = {}
         /\ next[e1last] = NULL => e1last = m /\ ~ring1
         /\ next[e1last] = e1 => e1last = m /\ ring1
         /\ next[e1last] \notin {NULL, e1} =>
              next[e1last] = e1last + 1 /\ e1last + 1 \in 1..m
  <1>1. /\ e1 = 1 /\ e1last \in 1..m /\ e2 = m + 1 /\ e2last = m + 1 /\ Apart
        /\ bound /\ circuit = "live" /\ freed = {}
    BY DEF BindInv, WalkInv, FreedInv, SizesInv
  <1>2. m \in Nat /\ k \in Nat /\ m >= 1 /\ k >= 1
    BY BindTypes
  <1>3. CASE e1last = m
    BY <1>1, <1>3 DEF Apart, End, NULL
  <1>4. CASE e1last # m
    <2>1. e1last \in 1..(m + k) /\ e1last \notin {m, m + k} /\ e1last + 1 \in 1..m
      BY <1>1, <1>2, <1>4
    <2>2. next[e1last] = e1last + 1
      BY <2>1 DEF BindInv, InnerInv
    <2> QED
      BY <1>1, <2>1, <2>2 DEF NULL
  <1> QED
    BY <1>1, <1>3, <1>4

\* The second net follows the first.
LEMMA JoinFacts ==
  ASSUME BindInv, pc = "bind", e1last = m,
         next' = [next EXCEPT ![e1last] = e2], last' = [last EXCEPT ![e1last] = FALSE],
         UNCHANGED <<m, k>>
  PROVE  /\ InnerInv' /\ next'[m] = m + 1 /\ ~last'[m]
         /\ next'[m + k] = End(m + 1, ring2)
         /\ next' \in [Element -> {NULL} \cup Element]
         /\ last' \in [Element -> BOOLEAN]
  <1>1. /\ m \in Element /\ m + 1 \in Element /\ m + k \in Element /\ m # m + k
        /\ \A e \in 1..(m + k) : e \in Element
        /\ next \in [Element -> {NULL} \cup Element] /\ last \in [Element -> BOOLEAN]
    BY BindTypes
  <1>2. e2 = m + 1 /\ next[m + k] = End(m + 1, ring2)
    BY FirstWalk DEF Apart
  <1>3. /\ next' \in [Element -> {NULL} \cup Element] /\ last' \in [Element -> BOOLEAN]
        /\ \A e \in Element : e # m => next'[e] = next[e] /\ last'[e] = last[e]
        /\ next'[m] = m + 1 /\ ~last'[m]
    BY <1>1, <1>2
  <1>4. InnerInv'
    BY <1>1, <1>3 DEF BindInv, InnerInv
  <1> QED
    BY <1>1, <1>2, <1>3, <1>4

\* bindA of an open net is done; that of a ring goes on to the inner walk.
LEMMA JoinKeeps ==
  BindInv /\ (bindA_open \/ bindA_closed) /\ UNCHANGED <<nets12, bound>> => BindInv'
  <1> SUFFICES ASSUME BindInv, bindA_open \/ bindA_closed, UNCHANGED <<nets12, bound>>
               PROVE  BindInv'
    OBVIOUS
  <1>1. /\ pc = "bind" /\ next[e1last] \in {NULL, e1}
        /\ next' = [next EXCEPT ![e1last] = e2] /\ last' = [last EXCEPT ![e1last] = FALSE]
        /\ UNCHANGED <<m, k, ring1, ring2, bound, circuit, nets, allocs, freed, result>>
    BY DEF bindA_open, bindA_closed, heap, nets12
  <1>2. /\ e1 = 1 /\ e1last = m /\ e2 = m + 1 /\ e2last = m + 1
        /\ bound /\ circuit = "live" /\ freed = {}
        /\ next[e1last] = NULL => ~ring1
        /\ next[e1last] = e1 => ring1
    BY <1>1, FirstWalk
  <1>3. /\ InnerInv' /\ next'[m] = m + 1 /\ ~last'[m]
        /\ next'[m + k] = End(m + 1, ring2)
        /\ next' \in [Element -> {NULL} \cup Element] /\ last' \in [Element -> BOOLEAN]
    BY <1>1, <1>2, JoinFacts
  <1>4. SizesInv'
    BY <1>1 DEF BindInv, SizesInv
  <1>5. CASE bindA_open
    <2>1. /\ pc' = "idle" /\ e1' = NULL /\ e1last' = NULL /\ e2' = NULL /\ e2last' = NULL
          /\ ~ring1
      BY <1>2, <1>5 DEF bindA_open, Return, Enter
    <2>2. TypeOK'
      BY <1>1, <1>3, <2>1 DEF BindInv, TypeOK
    <2>3. WalkInv' /\ FreedInv'
      BY <1>1, <1>2, <1>3, <2>1 DEF WalkInv, FreedInv, Joined, End
    <2> QED
      BY <1>3, <1>4, <2>2, <2>3 DEF BindInv
  <1>6. CASE bindA_closed
    <2>1. /\ pc' = "bindtail" /\ UNCHANGED <<e1, e1last, e2, e2last>> /\ ring1
      BY <1>2, <1>6 DEF bindA_closed, Enter
    <2>2. TypeOK'
      BY <1>1, <1>3, <2>1 DEF BindInv, TypeOK
    <2>3. m + 1 \in (m + 1)..(m + k)
      BY BindTypes
    <2>4. WalkInv' /\ FreedInv'
      BY <1>1, <1>2, <1>3, <2>1, <2>3 DEF WalkInv, FreedInv, Joined, End
    <2> QED
      BY <1>3, <1>4, <2>2, <2>4 DEF BindInv
  <1> QED
    BY <1>5, <1>6

\* The outer walk goes on.
LEMMA NextKeeps == BindInv /\ bindA_next /\ UNCHANGED <<nets12, bound>> => BindInv'
  <1> SUFFICES ASSUME BindInv, bindA_next, UNCHANGED <<nets12, bound>> PROVE BindInv'
    OBVIOUS
  <1>1. /\ pc = "bind" /\ pc' = "bind" /\ next[e1last] \notin {NULL, e1}
        /\ e1' = e1 /\ e1last' = next[e1last] /\ e2' = e2 /\ e2last' = e2last
        /\ UNCHANGED <<m, k, ring1, ring2, bound, circuit, nets, allocs, freed>>
        /\ UNCHANGED <<next, last, result>>
    BY DEF bindA_next, Enter, heap, links, nets12
  <1>2. e1last' \in 1..m /\ e1last' \in Element
    <2>1. e1last' = e1last + 1 /\ e1last + 1 \in 1..m
      BY <1>1, FirstWalk
    <2>2. \A e \in 1..m : e \in 1..(m + k)
      BY BindTypes
    <2> QED
      BY <2>1, <2>2, BindTypes
  <1>3. SizesInv' /\ InnerInv'
    BY <1>1 DEF BindInv, SizesInv, InnerInv
  <1>4. TypeOK'
    BY <1>1, <1>2 DEF BindInv, TypeOK
  <1>5. WalkInv' /\ FreedInv'
    BY <1>1, <1>2 DEF BindInv, WalkInv, FreedInv, Apart
  <1> QED
    BY <1>3, <1>4, <1>5 DEF BindInv

\* The inner walk sees the end of the second net exactly at its last element.
LEMMA SecondWalk ==
  ASSUME BindInv, pc = "bindtail"
  PROVE  /\ e1 = 1 /\ e1last = m /\ e2 = m + 1 /\ e2last \in (m + 1)..(m + k) /\ ring1
         /\ bound /\ circuit = "live" /\ freed = {} /\ Joined(End(m + 1, ring2))
         /\ next[e2last] \in {NULL, e2} => e2last = m + k
         /\ next[e2last] \notin {NULL, e2} =>
              next[e2last] = e2last + 1 /\ e2last + 1 \in (m + 1)..(m + k)
  <1>1. /\ e1 = 1 /\ e1last = m /\ e2 = m + 1 /\ e2last \in (m + 1)..(m + k) /\ ring1
        /\ bound /\ circuit = "live" /\ freed = {} /\ Joined(End(m + 1, ring2))
    BY DEF BindInv, WalkInv, FreedInv, SizesInv
  <1>2. m \in Nat /\ k \in Nat /\ m >= 1 /\ k >= 1
    BY BindTypes
  <1>3. CASE e2last = m + k
    BY <1>1, <1>3, BindTypes DEF Joined
  <1>4. CASE e2last # m + k
    <2>1. /\ e2last \in 1..(m + k) /\ e2last \notin {m, m + k}
          /\ e2last + 1 \in (m + 1)..(m + k) /\ e2last + 1 # m + 1 /\ e2last + 1 # 0
      BY <1>1, <1>2, <1>4
    <2>2. next[e2last] = e2last + 1
      BY <2>1 DEF BindInv, InnerInv
    <2> QED
      BY <1>1, <2>1, <2>2 DEF NULL
  <1> QED
    BY <1>1, <1>3, <1>4

\* The steps of the inner walk.
LEMMA TailKeeps ==
  BindInv /\ (bindA_tail \/ bindA_tail_next) /\ UNCHANGED <<nets12, bound>> => BindInv'
  <1> SUFFICES ASSUME BindInv, bindA_tail \/ bindA_tail_next, UNCHANGED <<nets12, bound>>
               PROVE  BindInv'
    OBVIOUS
  <1>1. /\ pc = "bindtail" /\ UNCHANGED <<m, k, ring1, ring2, bound>>
        /\ UNCHANGED <<circuit, nets, allocs, freed, last, result>>
    BY DEF bindA_tail, bindA_tail_next, heap, links, nets12
  <1>2. /\ e1 = 1 /\ e1last = m /\ e2 = m + 1 /\ e2last \in (m + 1)..(m + k) /\ ring1
        /\ bound /\ circuit = "live" /\ freed = {} /\ Joined(End(m + 1, ring2))
        /\ next[e2last] \in {NULL, e2} => e2last = m + k
        /\ next[e2last] \notin {NULL, e2} =>
             next[e2last] = e2last + 1 /\ e2last + 1 \in (m + 1)..(m + k)
    BY <1>1, SecondWalk
  <1>3. SizesInv'
    BY <1>1 DEF BindInv, SizesInv
  <1>4. CASE bindA_tail
    <2>1. /\ next' = [next EXCEPT ![m + k] = 1]
          /\ pc' = "idle" /\ e1' = NULL /\ e1last' = NULL /\ e2' = NULL /\ e2last' = NULL
      BY <1>2, <1>4 DEF bindA_tail, Return, Enter
    <2>2. /\ m # m + k /\ m \in Element /\ m + k \in Element /\ 1 \in Element
          /\ \A e \in 1..(m + k) : e \in Element
          /\ next \in [Element -> {NULL} \cup Element]
      BY BindTypes
    <2>3. /\ next' \in [Element -> {NULL} \cup Element] /\ next'[m + k] = 1
          /\ \A e \in Element : e # m + k => next'[e] = next[e]
      BY <2>1, <2>2
    <2>4. InnerInv'
      BY <1>1, <2>2, <2>3 DEF BindInv, InnerInv
    <2>5. TypeOK'
      BY <1>1, <2>1, <2>3 DEF BindInv, TypeOK
    <2>6. WalkInv' /\ FreedInv'
      BY <1>1, <1>2, <2>1, <2>2, <2>3 DEF WalkInv, FreedInv, Joined
    <2> QED
      BY <1>3, <2>4, <2>5, <2>6 DEF BindInv
  <1>5. CASE bindA_tail_next
    <2>1. /\ pc' = "bindtail" /\ e1' = e1 /\ e1last' = e1last /\ e2' = e2
          /\ e2last' = next[e2last] /\ UNCHANGED next /\ next[e2last] \notin {NULL, e2}
      BY <1>5 DEF bindA_tail_next, Enter, links
    <2>2. e2last' \in (m + 1)..(m + k)
      BY <1>2, <2>1
    <2>3. e2last' \in Element
      <3>1. \A e \in (m + 1)..(m + k) : e \in 1..(m + k)
        BY BindTypes
      <3> QED
        BY <2>2, <3>1, BindTypes
    <2>4. InnerInv' /\ TypeOK'
      BY <1>1, <2>1, <2>3 DEF BindInv, InnerInv, TypeOK
    <2>5. WalkInv' /\ FreedInv'
      BY <1>1, <1>2, <2>1, <2>2 DEF WalkInv, FreedInv, Joined, End
    <2> QED
      BY <1>3, <2>4, <2>5 DEF BindInv
  <1> QED
    BY <1>4, <1>5

\* freeC is called after bindA, and starts at the first element.
LEMMA CallFreeKeeps == BindInv /\ callFreeC => BindInv'
  <1> SUFFICES ASSUME BindInv, callFreeC PROVE BindInv'
    OBVIOUS
  <1>1. /\ pc = "idle" /\ circuit = "live" /\ bound /\ nets = 1
        /\ pc' = "free" /\ e1' = NULL /\ e1last' = 1 /\ e2' = NULL /\ e2last' = NULL
        /\ UNCHANGED <<circuit, nets, allocs, freed, next, last, result>>
        /\ UNCHANGED <<m, k, ring1, ring2, bound>>
    BY DEF callFreeC, freeC, Call, Enter, heap, links, nets12, BindInv, SizesInv, NULL
  <1>2. SizesInv' /\ InnerInv'
    BY <1>1 DEF BindInv, SizesInv, InnerInv
  <1>3. TypeOK'
    BY <1>1, BindTypes DEF BindInv, TypeOK
  <1>4. 1 \in 1..(m + k) /\ 1..(1 - 1) = {}
    BY BindTypes
  <1>5. freed = {}
    BY <1>1 DEF BindInv, FreedInv
  <1>6. WalkInv' /\ FreedInv'
    BY <1>1, <1>4, <1>5 DEF BindInv, WalkInv, FreedInv, Joined, End
  <1> QED
    BY <1>2, <1>3, <1>6 DEF BindInv

\* freeE goes from the first net into the second, and stops after its end.
LEMMA FreeKeeps == BindInv /\ freeE /\ UNCHANGED <<nets12, bound>> => BindInv'
  <1> SUFFICES ASSUME BindInv, freeE, UNCHANGED <<nets12, bound>> PROVE BindInv'
    OBVIOUS
  <1>1. /\ pc = "free" /\ freed' = freed \cup {e1last}
        /\ IF last[e1last] \/ next[e1last] = NULL
           THEN pc' = "freeC" /\ e1last' = NULL
           ELSE pc' = "free" /\ e1last' = next[e1last]
        /\ e1' = NULL /\ e2' = NULL /\ e2last' = NULL
        /\ UNCHANGED <<circuit, nets, allocs, next, last, result>>
        /\ UNCHANGED <<m, k, ring1, ring2, bound>>
    BY DEF freeE, Enter, links, nets12
  <1>2. /\ e1last \in 1..(m + k) /\ freed = 1..(e1last - 1) /\ circuit = "live" /\ bound
        /\ Joined(IF ring1 THEN 1 ELSE End(m + 1, ring2))
    BY <1>1 DEF BindInv, WalkInv, FreedInv, SizesInv
  <1>3. m \in Nat /\ k \in Nat /\ m >= 1 /\ k >= 1
    BY BindTypes
  <1>4. freed' = 1..e1last
    BY <1>1, <1>2, <1>3
  <1>5. \/ e1last = m + k /\ pc' = "freeC" /\ e1last' = NULL
        \/ e1last # m + k /\ pc' = "free" /\ e1last' = e1last + 1
    <2>1. CASE e1last = m + k
      BY <1>1, <2>1 DEF BindInv, InnerInv
    <2>2. CASE e1last # m + k
      <3>1. next[e1last] = e1last + 1 /\ ~last[e1last]
        BY <1>2, <2>2 DEF Joined, BindInv, InnerInv
      <3>2. e1last + 1 # NULL
        BY <1>2, <1>3 DEF NULL
      <3> QED
        BY <1>1, <2>2, <3>1, <3>2
    <2> QED
      BY <2>1, <2>2
  <1>6. pc' = "free" => e1last' \in 1..(m + k) /\ e1last = e1last' - 1
    BY <1>2, <1>3, <1>5
  <1>7. SizesInv' /\ InnerInv'
    BY <1>1 DEF BindInv, SizesInv, InnerInv
  <1>8. freed' \subseteq Element
    BY <1>2, <1>3, <1>4, BindTypes
  <1>9. TypeOK'
    BY <1>1, <1>5, <1>6, <1>8, BindTypes DEF BindInv, TypeOK
  <1>10. WalkInv' /\ FreedInv'
    BY <1>1, <1>2, <1>4, <1>5, <1>6 DEF WalkInv, FreedInv, Joined, End
  <1> QED
    BY <1>7, <1>9, <1>10 DEF BindInv

\* free(c), and a step that changes nothing.
LEMMA EndKeeps ==
  BindInv /\ ((freeC_self /\ UNCHANGED <<nets12, bound>>) \/ UNCHANGED bindVars) => BindInv'
  <1>1. ASSUME BindInv, freeC_self, UNCHANGED <<nets12, bound>> PROVE BindInv'
    <2>1. /\ pc = "freeC" /\ pc' = "idle" /\ circuit' = "freed"
          /\ e1' = NULL /\ e1last' = NULL /\ e2' = NULL /\ e2last' = NULL
          /\ UNCHANGED <<nets, allocs, freed, next, last, result>>
          /\ UNCHANGED <<m, k, ring1, ring2, bound>>
      BY <1>1 DEF freeC_self, Return, Enter, heap, links, nets12
    <2>2. TypeOK' /\ SizesInv' /\ InnerInv'
      BY <1>1, <2>1 DEF BindInv, TypeOK, SizesInv, InnerInv
    <2>3. WalkInv' /\ FreedInv'
      BY <1>1, <2>1 DEF BindInv, WalkInv, FreedInv, Joined, End
    <2> QED
      BY <2>2, <2>3 DEF BindInv
  <1>2. ASSUME BindInv, UNCHANGED bindVars PROVE BindInv'
    BY <1>2
    DEF bindVars, vars, heap, links, locals, nets12, BindInv, TypeOK, SizesInv, InnerInv,
        WalkInv, FreedInv, Apart, Joined, End
  <1> QED
    BY <1>1, <1>2

-----------------------------------------------------------------------------
(* The theorems.                                                           *)

\* The invariant holds in every reachable state.
LEMMA AlwaysBindInv == BindSpec => []BindInv
  <1>1. BindInv /\ [BindNext]_bindVars => BindInv'
    BY CallBindKeeps, JoinKeeps, NextKeeps, TailKeeps, CallFreeKeeps, FreeKeeps, EndKeeps
    DEF BindNext, bindTurn, bindA
  <1> QED
    BY <1>1, InitBindInv, PTL DEF BindSpec

\* bindA joins two nets as the four drawings of its comment show, whatever their
\* sizes and whichever of them are rings.
THEOREM BindAsDrawn == BindSpec => []BindDrawings
  <1>1. ASSUME BindInv, bound, pc = "idle", circuit = "live"
        PROVE  /\ \A e \in 1..(m + k - 1) : next[e] = e + 1
               /\ next[m + k] = IF ring1 THEN 1 ELSE End(m + 1, ring2)
               /\ \A e \in 1..(m + k) : last[e] <=> e = m + k
    <2>1. Joined(IF ring1 THEN 1 ELSE End(m + 1, ring2)) /\ InnerInv
      BY <1>1 DEF BindInv, WalkInv
    <2>2. \A e \in 1..(m + k - 1) : e \in 1..(m + k) /\ e # m + k
      BY <1>1, BindTypes
    <2>3. \A e \in 1..(m + k) : last[e] <=> e = m + k
      BY <2>1 DEF Joined, InnerInv
    <2> QED
      BY <2>1, <2>2, <2>3 DEF Joined, InnerInv
  <1>2. BindInv => BindDrawings
    BY <1>1 DEF BindDrawings
  <1> QED
    BY <1>2, AlwaysBindInv, PTL

\* The walks of bindA stay in the two nets, and freeE in what is left of them.
THEOREM BindMemorySafety == BindSpec => []NoUseAfterFree
  <1>1. ASSUME BindInv PROVE NoUseAfterFree
    <2>1. allocs = m + k /\ m \in Nat /\ k \in Nat /\ m >= 1 /\ k >= 1
      BY <1>1, BindTypes
    <2>2. ASSUME pc = "bind"
          PROVE  e1last \in Live /\ {e1, e2, e2last} \subseteq Live
      BY <1>1, <2>1, <2>2, FirstWalk DEF Live
    <2>3. ASSUME pc = "bindtail"
          PROVE  e1last \in Live /\ {e1, e2, e2last} \subseteq Live
      BY <1>1, <2>1, <2>3, SecondWalk DEF Live
    <2>4. pc = "free" => e1last \in Live
      BY <1>1, <2>1 DEF BindInv, FreedInv, Live
    <2>5. pc # "loop"
      BY <1>1 DEF BindInv, WalkInv
    <2> QED
      BY <2>2, <2>3, <2>4, <2>5 DEF NoUseAfterFree
  <1> QED
    BY <1>1, AlwaysBindInv, PTL

\* freeC of the first net frees the elements of both.
THEOREM BindLeaksNothing == BindSpec => []NoLeak
  <1>1. BindInv => NoLeak
    BY DEF BindInv, FreedInv, SizesInv, NoLeak
  <1> QED
    BY <1>1, AlwaysBindInv, PTL
=============================================================================
