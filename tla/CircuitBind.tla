----------------------------- MODULE CircuitBind -----------------------------
(***************************************************************************)
(* bindA of meloop/arrow.c called by the program itself, on two nets that  *)
(* appendA and loopA built before: elements 1..m and m+1..m+k, each an     *)
(* open chain or a ring.  The steps of bindA and freeC are Circuit's.      *)
(***************************************************************************)
EXTENDS Circuit

CONSTANTS FirstSizes,   \* The values of m.
          SecondSizes   \* The values of k.

ASSUME SizesAssumption ==
  /\ FirstSizes \subseteq Nat \ {0}
  /\ SecondSizes \subseteq Nat \ {0}
  /\ \A i \in FirstSizes, j \in SecondSizes : i + j <= MaxElements

VARIABLES m, k,          \* The sizes of the two nets.
          ring1, ring2,  \* Which of them are closed.
          bound          \* Whether bindA was called.

nets12   == <<m, k, ring1, ring2>>
bindVars == <<vars, nets12, bound>>

\* The last element of a net that starts at element f leads to f in a ring.
End(f, ring) == IF ring THEN f ELSE NULL

\* The nets as Circuit builds them.
BindInit ==
  /\ m \in FirstSizes
  /\ k \in SecondSizes
  /\ ring1 \in BOOLEAN
  /\ ring2 \in BOOLEAN
  /\ bound = FALSE
  /\ circuit = "live"
  /\ nets = 1
  /\ allocs = m + k
  /\ freed = {}
  /\ next = [e \in Element |->
               IF e > m + k THEN NULL
               ELSE IF e = m THEN End(1, ring1)
               ELSE IF e = m + k THEN End(m + 1, ring2)
               ELSE e + 1]
  /\ last = [e \in Element |-> e \in {m, m + k}]
  /\ pc = "idle"
  /\ e1 = NULL /\ e1last = NULL /\ e2 = NULL /\ e2last = NULL
  /\ result = OK

\* bindA of the first elements of the two nets.
callBindA ==
  /\ Call
  /\ ~bound
  /\ bound' = TRUE
  /\ Enter("bind", 1, 1, m + 1, m + 1)
  /\ UNCHANGED <<circuit, nets, heap, links, result, nets12>>

\* A bug: the inner walk tests for the end of an open chain only.
bindA_tail_next_unchecked ==
  /\ pc = "bindtail"
  /\ next[e2last] # NULL
  /\ Enter("bindtail", e1, e1last, e2, next[e2last])
  /\ UNCHANGED <<circuit, nets, heap, links, result>>

\* The inner loop of bindA goes on to the end of the second net.
bindA_tail_next ==
  /\ pc = "bindtail"
  /\ next[e2last] \notin {NULL, e2}
  /\ Enter("bindtail", e1, e1last, e2, next[e2last])
  /\ UNCHANGED <<circuit, nets, heap, links, result>>

\* The circuit of the first net now owns every element.
callFreeC ==
  /\ bound
  /\ freeC
  /\ UNCHANGED <<nets12, bound>>

bindTurn ==
  /\ bindA \/ bindA_tail_next \/ freeE \/ freeC_self
  /\ UNCHANGED <<nets12, bound>>

BindNext == callBindA \/ callFreeC \/ bindTurn

BindSpec == BindInit /\ [][BindNext]_bindVars

BindFairSpec == BindSpec /\ WF_bindVars(bindTurn)

-----------------------------------------------------------------------------
(* Properties.                                                             *)

(***************************************************************************)
(* The four drawings in the comment of bindA: the elements of the second   *)
(* net follow those of the first; the result leads back to the first       *)
(* element if the first net was a ring, else it ends as the second net     *)
(* did; and only the very last element carries the mark freeE stops at.    *)
(***************************************************************************)
BindDrawings ==
  (bound /\ pc = "idle" /\ circuit = "live") =>
    /\ \A e \in 1..(m + k - 1) : next[e] = e + 1
    /\ next[m + k] = IF ring1 THEN 1 ELSE End(m + 1, ring2)
    /\ \A e \in 1..(m + k) : last[e] <=> e = m + k

\* Both walks of bindA end, and so does freeC, whichever nets are rings.
BindReturns == (pc # "idle") ~> (pc = "idle")
=============================================================================
