------------------------------- MODULE Circuit -------------------------------
(***************************************************************************)
(* meloop/arrow.c, the part that builds and releases one circuitS: newC,   *)
(* appendA (with the bindA it calls), loopA and freeC.                     *)
(*                                                                         *)
(* An elementE is named by the order of its malloc, so the elements of the *)
(* circuit are 1..allocs and NULL is 0.  The run and priv fields of an     *)
(* element play no part here.  A function that walks the list takes one    *)
(* step per turn of its loop: pc says which loop is running and e1,        *)
(* e1last, e2, e2last are its locals.  No other code runs meanwhile.       *)
(***************************************************************************)
EXTENDS Integers

CONSTANTS MaxElements,  \* Bounds the calls of appendA.
          LoopAt        \* The elements the program may hand to loopA.

ASSUME MaxElementsAssumption == MaxElements \in Nat \ {0}
ASSUME LoopAtAssumption == LoopAt \subseteq 1..MaxElements

NULL == 0
OK   == 0
ERR  == -1

Element == 1..MaxElements

VARIABLES
  circuit,          \* The circuitS: "none", "live" or "freed".
  nets,             \* c->nets.
  allocs,           \* How many elements were malloc'ed.
  freed,            \* The elements given to free().
  next,             \* e->simple.next.
  last,             \* e->last.
  pc,               \* The loop that is running, "idle" between calls.
  e1, e1last,       \* Locals of bindA; loopA and freeE reuse them for
  e2, e2last,       \* (first, last) and (-, e).
  result            \* What the last call of loopA returned.

heap   == <<allocs, freed>>
links  == <<next, last>>
locals == <<e1, e1last, e2, e2last>>
vars   == <<circuit, nets, heap, links, pc, locals, result>>

(***************************************************************************)
(* Pointers lead to elements or nowhere, and loopA has returned one of the *)
(* two values its code has, OK and ERR.  What its comment says it returns  *)
(* is LoopResult, below.                                                   *)
(***************************************************************************)
TypeOK ==
  /\ circuit \in {"none", "live", "freed"}
  /\ nets \in {NULL} \cup Element
  /\ allocs \in 0..MaxElements
  /\ freed \subseteq Element
  /\ next \in [Element -> {NULL} \cup Element]
  /\ last \in [Element -> BOOLEAN]
  /\ pc \in {"idle", "bind", "bindtail", "loop", "free", "freeC"}
  /\ e1 \in {NULL} \cup Element
  /\ e1last \in {NULL} \cup Element
  /\ e2 \in {NULL} \cup Element
  /\ e2last \in {NULL} \cup Element
  /\ result \in {OK, ERR}

Init ==
  /\ circuit = "none"
  /\ nets = NULL
  /\ allocs = 0
  /\ freed = {}
  /\ next = [e \in Element |-> NULL]
  /\ last = [e \in Element |-> FALSE]
  /\ pc = "idle"
  /\ e1 = NULL /\ e1last = NULL /\ e2 = NULL /\ e2last = NULL
  /\ result = OK

-----------------------------------------------------------------------------
(* Control.                                                                *)

\* Enter the loop `to` of a function with its locals set.
Enter(to, a, alast, b, blast) ==
  /\ pc' = to
  /\ e1' = a /\ e1last' = alast
  /\ e2' = b /\ e2last' = blast

Return == Enter("idle", NULL, NULL, NULL, NULL)

\* The program calls only when no call is running, on a live circuit.
Call == pc = "idle" /\ circuit = "live"

-----------------------------------------------------------------------------
(* newC, appendA and bindA.                                                *)

newC ==
  /\ circuit = "none"
  /\ circuit' = "live"
  /\ nets' = NULL
  /\ UNCHANGED <<heap, links, pc, locals, result>>

\* A bug: next is not set, and is what malloc finds in the memory.
appendA_uninitialized ==
  /\ Call
  /\ allocs < MaxElements
  /\ allocs' = allocs + 1
  /\ last' = [last EXCEPT ![allocs + 1] = TRUE]
  /\ \E garbage \in {NULL, MaxElements + 1} :
       next' = [next EXCEPT ![allocs + 1] = garbage]
  /\ \/ /\ nets = NULL
        /\ nets' = allocs + 1
        /\ UNCHANGED <<pc, locals>>
     \/ /\ nets # NULL
        /\ Enter("bind", nets, nets, allocs + 1, allocs + 1)
        /\ UNCHANGED nets
  /\ UNCHANGED <<circuit, freed, result>>

\* The new element is the last one and leads nowhere.  It becomes the net of
\* an empty circuit and is bound to the net of any other.
appendA ==
  /\ Call
  /\ allocs < MaxElements
  /\ allocs' = allocs + 1
  /\ last' = [last EXCEPT ![allocs + 1] = TRUE]
  /\ next' = [next EXCEPT ![allocs + 1] = NULL]
  /\ \/ /\ nets = NULL
        /\ nets' = allocs + 1
        /\ UNCHANGED <<pc, locals>>
     \/ /\ nets # NULL
        /\ Enter("bind", nets, nets, allocs + 1, allocs + 1)
        /\ UNCHANGED nets
  /\ UNCHANGED <<circuit, freed, result>>

\* A bug: the former last element keeps its mark.
bindA_keeps_last ==
  /\ pc = "bind"
  /\ next[e1last] = NULL
  /\ next' = [next EXCEPT ![e1last] = e2]
  /\ UNCHANGED last
  /\ Return
  /\ UNCHANGED <<circuit, nets, heap, result>>

\* e1 is an open chain and e1last its end: e2 follows it.
bindA_open ==
  /\ pc = "bind"
  /\ next[e1last] = NULL
  /\ next' = [next EXCEPT ![e1last] = e2]
  /\ last' = [last EXCEPT ![e1last] = FALSE]
  /\ Return
  /\ UNCHANGED <<circuit, nets, heap, result>>

\* e1 is a ring and e1last the element before e1: e2 goes in between, and
\* the inner loop looks for the end of e2.
bindA_closed ==
  /\ pc = "bind"
  /\ next[e1last] = e1
  /\ next' = [next EXCEPT ![e1last] = e2]
  /\ last' = [last EXCEPT ![e1last] = FALSE]
  /\ Enter("bindtail", e1, e1last, e2, e2last)
  /\ UNCHANGED <<circuit, nets, heap, result>>

\* A bug: the walk tests for the end of an open chain only.
bindA_next_unchecked ==
  /\ pc = "bind"
  /\ next[e1last] # NULL
  /\ Enter("bind", e1, next[e1last], e2, e2last)
  /\ UNCHANGED <<circuit, nets, heap, links, result>>

bindA_next ==
  /\ pc = "bind"
  /\ next[e1last] \notin {NULL, e1}
  /\ Enter("bind", e1, next[e1last], e2, e2last)
  /\ UNCHANGED <<circuit, nets, heap, links, result>>

\* A bug: the inserted chain is left open.
bindA_tail_left_open ==
  /\ pc = "bindtail"
  /\ next[e2last] \in {NULL, e2}
  /\ Return
  /\ UNCHANGED <<circuit, nets, heap, links, result>>

\* The end of e2, an open chain or a ring itself, leads back to e1.
bindA_tail ==
  /\ pc = "bindtail"
  /\ next[e2last] \in {NULL, e2}
  /\ next' = [next EXCEPT ![e2last] = e1]
  /\ Return
  /\ UNCHANGED <<circuit, nets, heap, last, result>>

\* appendA binds a chain of one, whose end is e2 itself.  The step of the inner
\* loop to a further element is in CircuitBind.
bindA == bindA_open \/ bindA_closed \/ bindA_next \/ bindA_tail

-----------------------------------------------------------------------------
(* loopA.                                                                  *)

loopA(e) ==
  /\ Call
  /\ e \in 1..allocs
  /\ Enter("loop", e, e, NULL, NULL)
  /\ UNCHANGED <<circuit, nets, heap, links, result>>

loopA_close ==
  /\ pc = "loop"
  /\ next[e1last] = NULL
  /\ next' = [next EXCEPT ![e1last] = e1]
  /\ last' = [last EXCEPT ![e1last] = TRUE]
  /\ result' = OK
  /\ Return
  /\ UNCHANGED <<circuit, nets, heap>>

\* ERR is what the code returns; its comment says 1 (LoopResult, below).
loopA_already_closed ==
  /\ pc = "loop"
  /\ next[e1last] = e1
  /\ result' = ERR
  /\ Return
  /\ UNCHANGED <<circuit, nets, heap, links>>

loopA_next ==
  /\ pc = "loop"
  /\ next[e1last] \notin {NULL, e1}
  /\ Enter("loop", e1, next[e1last], NULL, NULL)
  /\ UNCHANGED <<circuit, nets, heap, links, result>>

-----------------------------------------------------------------------------
(* freeC and the recursion of freeE.                                       *)

freeC ==
  /\ Call
  /\ IF nets = NULL THEN Enter("freeC", NULL, NULL, NULL, NULL)
                    ELSE Enter("free", NULL, nets, NULL, NULL)
  /\ UNCHANGED <<circuit, nets, heap, links, result>>

\* A bug: the recursion ends on a NULL next only.
freeE_ignores_last ==
  /\ pc = "free"
  /\ freed' = freed \cup {e1last}
  /\ IF next[e1last] = NULL
     THEN Enter("freeC", NULL, NULL, NULL, NULL)
     ELSE Enter("free", NULL, next[e1last], NULL, NULL)
  /\ UNCHANGED <<circuit, nets, allocs, links, result>>

\* The marks and the pointer of e are read before e is freed.
freeE ==
  /\ pc = "free"
  /\ freed' = freed \cup {e1last}
  /\ IF last[e1last] \/ next[e1last] = NULL
     THEN Enter("freeC", NULL, NULL, NULL, NULL)
     ELSE Enter("free", NULL, next[e1last], NULL, NULL)
  /\ UNCHANGED <<circuit, nets, allocs, links, result>>

\* free(c), when freeE is done.
freeC_self ==
  /\ pc = "freeC"
  /\ circuit' = "freed"
  /\ Return
  /\ UNCHANGED <<nets, heap, links, result>>

-----------------------------------------------------------------------------

\* One turn of the loop that is running.
Turn ==
  \/ bindA
  \/ loopA_close \/ loopA_already_closed \/ loopA_next
  \/ freeE \/ freeC_self

Next ==
  \/ newC
  \/ appendA
  \/ \E e \in LoopAt : loopA(e)
  \/ freeC
  \/ Turn

Spec == Init /\ [][Next]_vars

\* A call that was made keeps running: nothing in the process preempts it.
FairSpec == Spec /\ WF_vars(Turn)

-----------------------------------------------------------------------------
(* Properties.                                                             *)

(***************************************************************************)
(* No walk of bindA, loopA or freeE touches an element that was never      *)
(* allocated or was already freed: the element a walk is at, and every     *)
(* element it is about to read or write, is live.                          *)
(***************************************************************************)
Live == (1..allocs) \ freed

NoUseAfterFree ==
  /\ pc \in {"bind", "bindtail", "loop", "free"} => e1last \in Live
  /\ pc \in {"bind", "bindtail"} => {e1, e2, e2last} \subseteq Live

(***************************************************************************)
(* freeC returns every element appendA allocated, whatever was appended    *)
(* and wherever the net was closed: the last marks that appendA, bindA and *)
(* loopA keep end the recursion of freeE exactly at the last element.      *)
(***************************************************************************)
NoLeak == circuit = "freed" => freed = 1..allocs

(***************************************************************************)
(* The pointer structure implements NetShape.  While bindA is at work the  *)
(* new element is not yet part of the net.                                 *)
(***************************************************************************)
BoundLen == IF pc \in {"bind", "bindtail"} THEN allocs - 1 ELSE allocs

Back == IF BoundLen = 0 THEN 0
        ELSE IF pc = "bindtail" THEN e1 ELSE next[BoundLen]

Phase == CASE circuit = "none" -> "none"
           [] circuit = "freed" -> "gone"
           [] circuit = "live" /\ pc \in {"free", "freeC"} -> "freeing"
           [] OTHER -> "live"

Shape == INSTANCE NetShape WITH len <- BoundLen, back <- Back, phase <- Phase

\* Every operation of arrow.c changes the net as the drawings in its comments
\* say: appending keeps an open chain open and a ring a ring, closing works
\* once, and elements are freed once each and in order.
ImplementsNetShape == Shape!Spec

(***************************************************************************)
(* On an open net and on a ring every call comes back: the walks of bindA  *)
(* and loopA stop only at a NULL or at the element they started from, and  *)
(* they find one or the other whichever element they started from.         *)
(***************************************************************************)
CallReturns == (pc # "idle" /\ Back \in {0, 1}) ~> (pc = "idle")

(***************************************************************************)
(* Every call comes back, wherever the net was closed: appendA "returns    *)
(* e2" (arrow.c:59), and loopA returns 1 "If the c1 is already a closed    *)
(* circuitS" (arrow.c:185).                                                *)
(***************************************************************************)
AnyCallReturns == (pc # "idle") ~> (pc = "idle")

(***************************************************************************)
(* What loopA returns: "If the c1 is already a closed circuitS, then 1     *)
(* will be returned.  Otherwise the returned value will be zero."          *)
(* (arrow.c:185)                                                           *)
(***************************************************************************)
LoopResult ==
  [][(pc = "loop" /\ pc' = "idle") => result' = IF Back = 0 THEN 0 ELSE 1]_vars
=============================================================================
