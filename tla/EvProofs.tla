------------------------------ MODULE EvProofs ------------------------------
(***************************************************************************)
(* Proofs about Ev, for any number of descriptors, bags and slots, with    *)
(* epoll_ctl failures, a table that overflows and overlapping waits: the   *)
(* counter of the table is exact, and the loop never meets a bag that was  *)
(* freed.                                                                  *)
(***************************************************************************)
EXTENDS Ev, FiniteSetTheorems, TLAPS

(***************************************************************************)
(* The inductive invariant.  NoDanglingBag alone is not inductive: that a  *)
(* bag holds the descriptor it is registered for is what keeps the bags of *)
(* one batch of events apart.                                              *)
(***************************************************************************)
WatchInv ==
  /\ epfd = "none" => Armed = {} /\ events = {}
  /\ epfd = "open" =>
       /\ \A fd \in Armed : /\ interest[fd].bag \in DOMAIN heap
                            /\ heap[interest[fd].bag].fd = fd
       /\ \A ev \in events : ev.bag \in DOMAIN heap
       /\ \A ev1, ev2 \in events : ev1.bag = ev2.bag => ev1 = ev2
       /\ \A fd \in Armed, ev \in events : interest[fd].bag # ev.bag

EvInv == EvTypeOK /\ CounterExact /\ WatchInv

-----------------------------------------------------------------------------
(* The table and its counter.                                              *)

\* The table has finitely many slots, so its occupied slots can be counted.
LEMMA OccupiedFinite == IsFiniteSet(Occupied) /\ Cardinality(Occupied) \in Nat
  <1>1. IsFiniteSet(Slot)
    BY EvAssumption, FS_Interval DEF Slot
  <1>2. Occupied \in SUBSET Slot
    BY DEF Occupied
  <1> QED
    BY <1>1, <1>2, FS_Subset, FS_CardinalityType

\* Remembering a bag fills one free slot and counts it, or does neither.
LEMMA RememberCounts ==
  ASSUME EvTypeOK, NEW b \in Bags, bags_remember(b)
  PROVE  /\ bags' \in [Slot -> Bags \cup {NULL}]
         /\ waiting' \in Nat
         /\ waiting = Cardinality(Occupied) =>
              waiting' = Cardinality(Occupied')
  <1> DEFINE free == {i \in Slot : bags[i] = NULL}
  <1>1. CASE free = {}
    <2>1. bags' = bags /\ waiting' = waiting
      BY <1>1 DEF bags_remember
    <2>2. Occupied' = Occupied
      BY <2>1 DEF Occupied
    <2> QED
      BY <2>1, <2>2 DEF EvTypeOK
  <1>2. CASE free # {}
    <2>1. PICK i \in free : /\ bags' = [bags EXCEPT ![i] = b]
                            /\ waiting' = waiting + 1
      BY <1>2 DEF bags_remember
    <2>2. i \notin Occupied /\ Occupied' = Occupied \cup {i}
      BY <2>1, EvAssumption DEF Occupied, EvTypeOK
    <2>3. Cardinality(Occupied') = Cardinality(Occupied) + 1
      BY <2>2, OccupiedFinite, FS_AddElement
    <2> QED
      BY <2>1, <2>3 DEF EvTypeOK
  <1> QED
    BY <1>1, <1>2

\* Freeing a bag empties one slot and uncounts it, or does nothing.
LEMMA FreeCounts ==
  ASSUME EvTypeOK, NEW b \in Bags, meloop_bag_free(b)
  PROVE  /\ bags' \in [Slot -> Bags \cup {NULL}]
         /\ heap' = heap \/ heap' = [x \in DOMAIN heap \ {b} |-> heap[x]]
         /\ waiting = Cardinality(Occupied) =>
              waiting' = Cardinality(Occupied') /\ waiting' \in Nat
  <1>1. CASE \A i \in Slot : bags[i] # b
    <2>1. bags' = bags /\ waiting' = waiting /\ heap' = heap
      BY <1>1 DEF meloop_bag_free, memory
    <2>2. Occupied' = Occupied
      BY <2>1 DEF Occupied
    <2> QED
      BY <2>1, <2>2 DEF EvTypeOK
  <1>2. CASE ~ \A i \in Slot : bags[i] # b
    <2>1. PICK i \in Slot : bags[i] = b /\ bags' = [bags EXCEPT ![i] = NULL]
      BY <1>2 DEF meloop_bag_free
    <2>2. /\ waiting' = waiting - 1
          /\ heap' = [x \in DOMAIN heap \ {b} |-> heap[x]]
      BY <1>2 DEF meloop_bag_free
    <2>3. i \in Occupied /\ Occupied' = Occupied \ {i}
      BY <2>1, EvAssumption DEF Occupied, EvTypeOK
    <2>4. /\ Cardinality(Occupied') = Cardinality(Occupied) - 1
          /\ Cardinality(Occupied') \in Nat
      BY <2>3, OccupiedFinite, FS_RemoveElement, FS_CardinalityType
    <2> QED
      BY <2>1, <2>2, <2>4 DEF EvTypeOK
  <1> QED
    BY <1>1, <1>2

-----------------------------------------------------------------------------
(* Each action preserves the invariant.                                    *)

\* The initial state satisfies the invariant.
LEMMA InitEvInv == EvInit => EvInv
  <1> SUFFICES ASSUME EvInit PROVE EvInv
    OBVIOUS
  <1>1. EvTypeOK
    BY EvAssumption DEF EvInit, EvTypeOK, Unwatched, Op
  <1>2. CounterExact /\ WatchInv
    BY DEF EvInit, CounterExact, WatchInv, Armed, Unwatched
  <1> QED
    BY <1>1, <1>2 DEF EvInv

\* Opening the epoll instance starts with an empty table.
LEMMA InitStepEvInv == EvInv /\ meloop_ev_init => EvInv'
  <1> SUFFICES ASSUME EvInv, meloop_ev_init PROVE EvInv'
    OBVIOUS
  <1>1. EvTypeOK'
    BY DEF EvInv, EvTypeOK, meloop_ev_init
  <1>2. Occupied' = {}
    BY DEF meloop_ev_init, Occupied
  <1>3. CounterExact'
    BY <1>2, FS_EmptySet DEF meloop_ev_init, CounterExact
  <1>4. WatchInv'
    BY DEF EvInv, WatchInv, meloop_ev_init, Armed
  <1> QED
    BY <1>1, <1>3, <1>4 DEF EvInv

\* waitA registers a bag that was not allocated before, so no armed or
\* reported descriptor had it.
LEMMA WaitEvInv ==
  ASSUME EvInv, NEW fd \in Fds, NEW job \in Jobs, NEW op \in Op,
         wait(fd, job, op)
  PROVE  EvInv'
  <1>1. PICK b \in Bags : /\ meloop_bag_new(b, fd, job)
                          /\ meloop_ev_arm(b, fd, op) \/ meloop_ev_arm_fails
    BY DEF wait
  <1>2. epfd = "open" /\ epfd' = "open" /\ events' = events
    BY DEF wait
  <1>3. /\ b \notin DOMAIN heap
        /\ DOMAIN heap' = DOMAIN heap \cup {b}
        /\ heap'[b] = [fd |-> fd, job |-> job]
        /\ \A x \in DOMAIN heap : heap'[x] = heap[x]
        /\ heap' \in [DOMAIN heap' -> Content]
    BY <1>1 DEF meloop_bag_new, EvInv, EvTypeOK, Content
  <1>4. /\ bags' \in [Slot -> Bags \cup {NULL}]
        /\ waiting' \in Nat
        /\ CounterExact'
    BY <1>1, <1>2, RememberCounts DEF EvInv, CounterExact, meloop_bag_new
  <1>5. \/ interest' = interest
        \/ interest' = [interest EXCEPT ![fd] =
                          [bag |-> b, op |-> op, on |-> TRUE]]
    BY <1>1 DEF meloop_ev_arm, meloop_ev_arm_fails
  <1>6. interest' \in [Fds -> [bag : Bags \cup {NULL}, op : Op, on : BOOLEAN]]
    <2>1. [bag |-> b, op |-> op, on |-> TRUE]
            \in [bag : Bags \cup {NULL}, op : Op, on : BOOLEAN]
      OBVIOUS
    <2>2. interest \in [Fds -> [bag : Bags \cup {NULL}, op : Op, on : BOOLEAN]]
      BY DEF EvInv, EvTypeOK
    <2> QED
      BY <1>5, <2>1, <2>2
  <1>7. EvTypeOK'
    BY <1>2, <1>3, <1>4, <1>6 DEF EvInv, EvTypeOK
  <1>8. ASSUME NEW g \in Armed'
        PROVE  \/ g \in Armed /\ interest'[g].bag = interest[g].bag
               \/ g = fd /\ interest'[g].bag = b
    BY <1>5, <1>8 DEF Armed, EvInv, EvTypeOK
  <1>9. WatchInv'
    BY <1>2, <1>3, <1>8 DEF EvInv, WatchInv
  <1> QED
    BY <1>4, <1>7, <1>9 DEF EvInv

\* epoll_wait moves bags from the armed descriptors to the event array.
LEMMA PollEvInv ==
  ASSUME EvInv, NEW reported \in SUBSET Fds, poll(reported)
  PROVE  EvInv'
  <1>1. PICK flag \in [reported -> Flag] :
          events' = {[bag |-> interest[fd].bag, flag |-> flag[fd]] :
                       fd \in reported}
    BY DEF poll, meloop_ev_wait
  <1>2. /\ epfd = "open" /\ UNCHANGED <<epfd, bags, waiting, heap>>
        /\ reported \subseteq Armed
        /\ interest' = [fd \in Fds |-> IF fd \in reported
                                       THEN Unwatched
                                       ELSE interest[fd]]
    BY DEF poll, meloop_ev_wait, memory, Armed
  <1>3. interest' \in [Fds -> [bag : Bags \cup {NULL}, op : Op, on : BOOLEAN]]
    <2>1. Unwatched \in [bag : Bags \cup {NULL}, op : Op, on : BOOLEAN]
      BY DEF Unwatched, Op
    <2> QED
      BY <1>2, <2>1 DEF EvInv, EvTypeOK
  <1>4. /\ Armed' = Armed \ reported
        /\ \A fd \in Armed' : interest'[fd] = interest[fd]
    <2>1. ~ Unwatched.on
      BY DEF Unwatched
    <2> QED
      BY <1>2, <2>1 DEF Armed
  <1>5. \A fd \in Armed : /\ interest[fd].bag \in DOMAIN heap
                          /\ heap[interest[fd].bag].fd = fd
    BY <1>2 DEF EvInv, WatchInv
  <1>6. ASSUME NEW ev \in events'
        PROVE  \E fd \in reported : /\ ev.bag = interest[fd].bag
                                    /\ ev.flag = flag[fd]
                                    /\ ev = [bag |-> ev.bag, flag |-> ev.flag]
    BY <1>1, <1>6
  <1>7. events' \subseteq [bag : Bags, flag : Flag]
    BY <1>1, <1>2, <1>5 DEF EvInv, EvTypeOK
  <1>8. EvTypeOK' /\ CounterExact'
    BY <1>2, <1>3, <1>7 DEF EvInv, EvTypeOK, CounterExact, Occupied
  <1>9. \A ev \in events' : ev.bag \in DOMAIN heap
    BY <1>2, <1>5, <1>6
  <1>10. ASSUME NEW ev1 \in events', NEW ev2 \in events', ev1.bag = ev2.bag
         PROVE  ev1 = ev2
    <2>1. PICK f1 \in reported : /\ ev1.bag = interest[f1].bag
                                 /\ ev1 = [bag |-> ev1.bag, flag |-> flag[f1]]
      BY <1>6
    <2>2. PICK f2 \in reported : /\ ev2.bag = interest[f2].bag
                                 /\ ev2 = [bag |-> ev2.bag, flag |-> flag[f2]]
      BY <1>6
    <2>3. f1 = f2
      BY <1>2, <1>5, <1>10, <2>1, <2>2
    <2> QED
      BY <1>10, <2>1, <2>2, <2>3
  <1>11. ASSUME NEW fd \in Armed', NEW ev \in events'
         PROVE  interest'[fd].bag # ev.bag
    <2>1. PICK g \in reported : ev.bag = interest[g].bag
      BY <1>6
    <2> QED
      BY <1>2, <1>4, <1>5, <2>1
  <1>12. WatchInv'
    BY <1>2, <1>4, <1>5, <1>9, <1>10, <1>11 DEF WatchInv
  <1> QED
    BY <1>8, <1>12 DEF EvInv

\* The loop frees a bag that nothing else refers to.
LEMMA TakeEvInv ==
  ASSUME EvInv, NEW ev \in events, take(ev)
  PROVE  EvInv'
  <1> DEFINE b == ev.bag
  <1>1. b \in Bags /\ events' = events \ {ev} /\ epfd = "open" /\ epfd' = epfd
    BY DEF take, EvInv, EvTypeOK
  <1>2. meloop_bag_free(b)
    BY DEF take
  <1>3. /\ bags' \in [Slot -> Bags \cup {NULL}]
        /\ waiting' \in Nat
        /\ heap' = heap \/ heap' = [x \in DOMAIN heap \ {b} |-> heap[x]]
        /\ CounterExact'
    BY <1>1, <1>2, FreeCounts DEF EvInv, CounterExact
  <1>4. /\ DOMAIN heap' \subseteq DOMAIN heap
        /\ heap' \in [DOMAIN heap' -> Content]
        /\ \A x \in DOMAIN heap \ {b} : x \in DOMAIN heap' /\ heap'[x] = heap[x]
    BY <1>3 DEF EvInv, EvTypeOK
  <1>5. \/ interest' = interest
        \/ interest' = [interest EXCEPT ![heap[b].fd] = Unwatched]
    BY DEF take, meloop_ev_dearm
  <1>6. /\ interest' \in [Fds -> [bag : Bags \cup {NULL}, op : Op, on : BOOLEAN]]
        /\ \A fd \in Armed' : fd \in Armed /\ interest'[fd] = interest[fd]
    <2>1. Unwatched \in [bag : Bags \cup {NULL}, op : Op, on : BOOLEAN]
      BY DEF Unwatched, Op
    <2>2. interest \in [Fds -> [bag : Bags \cup {NULL}, op : Op, on : BOOLEAN]]
      BY DEF EvInv, EvTypeOK
    <2>3. interest' \in [Fds -> [bag : Bags \cup {NULL}, op : Op, on : BOOLEAN]]
      BY <1>5, <2>1, <2>2
    <2>4. ~ Unwatched.on
      BY DEF Unwatched
    <2> QED
      BY <1>5, <2>2, <2>3, <2>4 DEF Armed
  <1>7. EvTypeOK'
    BY <1>1, <1>3, <1>4, <1>6 DEF EvInv, EvTypeOK
  <1>8. WatchInv'
    <2>1. \A e \in events' : e.bag # b /\ e.bag \in DOMAIN heap
      BY <1>1 DEF EvInv, WatchInv
    <2>2. \A fd \in Armed : interest[fd].bag # b
      BY <1>1 DEF EvInv, WatchInv
    <2> QED
      BY <1>1, <1>4, <1>6, <2>1, <2>2 DEF EvInv, WatchInv
  <1> QED
    BY <1>3, <1>7, <1>8 DEF EvInv

\* Once the epoll instance is closed, or the process gone, nothing is asked.
LEMMA EndEvInv == EvInv /\ (meloop_io_deinit \/ exit) => EvInv'
  <1>1. ASSUME EvInv, meloop_io_deinit PROVE EvInv'
    <2>1. heap' \in [DOMAIN heap' -> Content] /\ DOMAIN heap' \subseteq Bags
      BY <1>1 DEF meloop_io_deinit, meloop_bags_freeall, EvInv, EvTypeOK
    <2>2. bags' \in [Slot -> Bags \cup {NULL}]
      BY <1>1 DEF meloop_io_deinit, meloop_bags_freeall
    <2> QED
      BY <1>1, <2>1, <2>2
      DEF meloop_io_deinit, meloop_bags_freeall, EvInv, EvTypeOK,
          CounterExact, WatchInv
  <1>2. ASSUME EvInv, exit PROVE EvInv'
    BY <1>2 DEF exit, memory, EvInv, EvTypeOK, CounterExact, WatchInv
  <1> QED
    BY <1>1, <1>2

\* Every step of the specification keeps the invariant.
LEMMA StepEvInv == EvInv /\ [EvNext]_evVars => EvInv'
  <1> SUFFICES ASSUME EvInv, [EvNext]_evVars PROVE EvInv'
    OBVIOUS
  <1>1. CASE meloop_ev_init
    BY <1>1, InitStepEvInv
  <1>2. CASE exit \/ waitExit \/ meloop_io_deinit
    BY <1>2, EndEvInv DEF waitExit
  <1>3. ASSUME NEW fd \in Fds, NEW job \in Jobs, NEW op \in Op,
               wait(fd, job, op)
        PROVE  EvInv'
    BY <1>3, WaitEvInv
  <1>4. ASSUME NEW reported \in SUBSET Fds, poll(reported) PROVE EvInv'
    BY <1>4, PollEvInv
  <1>5. ASSUME NEW ev \in events, take(ev) PROVE EvInv'
    BY <1>5, TakeEvInv
  <1>6. CASE UNCHANGED evVars
    BY <1>6
    DEF evVars, memory, EvInv, EvTypeOK, CounterExact, Occupied, WatchInv,
        Armed
  <1> QED
    BY <1>1, <1>2, <1>3, <1>4, <1>5, <1>6 DEF EvNext

-----------------------------------------------------------------------------
(* The theorems.                                                           *)

\* The invariant holds in every reachable state.
LEMMA AlwaysEvInv == EvSpec => []EvInv
  BY InitEvInv, StepEvInv, PTL DEF EvSpec

\* The variables of Ev keep their types.
THEOREM EvTypeCorrect == EvSpec => []EvTypeOK
  <1>1. EvInv => EvTypeOK
    BY DEF EvInv
  <1> QED
    BY <1>1, AlwaysEvInv, PTL

\* Whatever is waited for, refused by epoll_ctl or dropped by a full table,
\* the counter that meloop_ev_more returns is the number of slots in use.
THEOREM CounterIsExact == EvSpec => []CounterExact
  <1>1. EvInv => CounterExact
    BY DEF EvInv
  <1> QED
    BY <1>1, AlwaysEvInv, PTL

\* No bag that epoll may report or has reported is freed, or reported twice:
\* the pointers meloop_io_loop reads from the event array are always valid.
THEOREM BagsNeverDangle == EvSpec => []NoDanglingBag
  <1>1. EvInv => NoDanglingBag
    BY DEF EvInv, WatchInv, NoDanglingBag
  <1> QED
    BY <1>1, AlwaysEvInv, PTL
=============================================================================
