---------------------------- MODULE EvRefinement ----------------------------
(***************************************************************************)
(* Proofs that Ev implements Waits, for any number of descriptors, bags    *)
(* and slots, with epoll_ctl failures, a table that overflows, overlapping *)
(* waits and addresses that malloc returns again; and that the table       *)
(* counts exactly the bags that can still come back, when epoll_ctl does   *)
(* not fail, waits do not overlap and every descriptor has a slot.         *)
(***************************************************************************)
EXTENDS EvProofs, FunctionTheorems

(***************************************************************************)
(* What the refinement needs beyond EvInv.  The bags in the table are      *)
(* allocated, so that malloc never returns the address of a counted bag,   *)
(* and none is in it twice, so that freeing a bag uncounts one wait.  The  *)
(* events of one array are for different descriptors, so that no two of    *)
(* them stand for the same wait.                                           *)
(***************************************************************************)
TableInv ==
  /\ epfd = "none" => waiting = 0 /\ DOMAIN heap = {}
  /\ epfd = "open" =>
       /\ \A i \in Occupied : bags[i] \in DOMAIN heap
       /\ \A i, j \in Occupied : bags[i] = bags[j] => i = j
       /\ \A ev1, ev2 \in events :
            heap[ev1.bag].fd = heap[ev2.bag].fd => ev1 = ev2

RefInv == EvInv /\ TableInv

-----------------------------------------------------------------------------
(* The table.                                                              *)

\* The counter is below the size of the table exactly when a slot is free.
LEMMA FreeSlot ==
  waiting = Cardinality(Occupied) =>
    (waiting < EV_MAXEVENTS <=> \E i \in Slot : bags[i] = NULL)
  <1>1. IsFiniteSet(Slot) /\ Cardinality(Slot) = EV_MAXEVENTS
    <2>1. 0 \in Int /\ EV_MAXEVENTS - 1 \in Int /\ ~(0 > EV_MAXEVENTS - 1)
      BY EvAssumption
    <2>2. (EV_MAXEVENTS - 1) - 0 + 1 = EV_MAXEVENTS
      BY EvAssumption
    <2> QED
      BY <2>1, <2>2, FS_Interval DEF Slot
  <1>2. Occupied \in SUBSET Slot
    BY DEF Occupied
  <1>3. /\ Cardinality(Occupied) <= EV_MAXEVENTS
        /\ Cardinality(Occupied) = EV_MAXEVENTS => Occupied = Slot
    BY <1>1, <1>2, FS_Subset
  <1>4. Occupied = Slot <=> ~ \E i \in Slot : bags[i] = NULL
    BY DEF Occupied
  <1> QED
    BY <1>1, <1>3, <1>4, OccupiedFinite, EvAssumption

\* A new bag gets into the table exactly when its wait is counted, and the
\* other bags stay where they are.
LEMMA RememberTable ==
  ASSUME RefInv, epfd = "open", NEW b \in Bags, b \notin DOMAIN heap,
         bags_remember(b)
  PROVE  /\ \A x \in Bags : x # b => (InTable(x)' <=> InTable(x))
         /\ InTable(b)' <=> waiting < EV_MAXEVENTS
         /\ waiting' = IF waiting < EV_MAXEVENTS THEN waiting + 1 ELSE waiting
         /\ \A i \in Occupied' : bags'[i] = b \/ bags'[i] \in DOMAIN heap
         /\ \A i, j \in Occupied' : bags'[i] = bags'[j] => i = j
  <1> DEFINE free == {i \in Slot : bags[i] = NULL}
  <1>1. /\ bags \in [Slot -> Bags \cup {NULL}]
        /\ waiting \in Nat
        /\ waiting < EV_MAXEVENTS <=> free # {}
    BY FreeSlot DEF RefInv, EvInv, EvTypeOK, CounterExact
  <1>2. /\ \A i \in Occupied : bags[i] \in DOMAIN heap /\ bags[i] # b
        /\ \A i, j \in Occupied : bags[i] = bags[j] => i = j
    BY DEF RefInv, TableInv
  <1>3. NULL \notin Bags
    BY EvAssumption
  <1>4. CASE free = {}
    <2>1. bags' = bags /\ waiting' = waiting
      BY <1>4 DEF bags_remember
    <2>2. ~InTable(b)
      BY <1>2, <1>3 DEF InTable, Occupied
    <2> QED
      BY <1>1, <1>2, <1>4, <2>1, <2>2 DEF InTable, Occupied
  <1>5. CASE free # {}
    <2>1. PICK k \in free : bags' = [bags EXCEPT ![k] = b]
      BY <1>5 DEF bags_remember
    <2>2. waiting' = waiting + 1
      BY <1>5 DEF bags_remember
    <2>3. /\ bags'[k] = b
          /\ \A i \in Slot : i # k => bags'[i] = bags[i]
          /\ k \in Slot /\ bags[k] = NULL
      BY <1>1, <2>1
    <2>4. \A i \in Occupied' : i = k \/ i \in Occupied
      BY <2>3 DEF Occupied
    <2>5. \A x \in Bags : x # b => (InTable(x)' <=> InTable(x))
      BY <1>3, <2>3 DEF InTable
    <2>6. InTable(b)'
      BY <2>3 DEF InTable
    <2>7. \A i \in Occupied' : bags'[i] = b \/ bags'[i] \in DOMAIN heap
      BY <1>2, <2>3, <2>4 DEF Occupied
    <2>8. \A i, j \in Occupied' : bags'[i] = bags'[j] => i = j
      BY <1>2, <2>3, <2>4 DEF Occupied
    <2> QED
      BY <1>1, <1>5, <2>2, <2>5, <2>6, <2>7, <2>8
  <1> QED
    BY <1>4, <1>5

\* Freeing a bag uncounts its wait if it was counted, and no other.
LEMMA FreeTable ==
  ASSUME RefInv, epfd = "open", NEW b \in Bags, meloop_bag_free(b)
  PROVE  /\ \A x \in Bags : x # b => (InTable(x)' <=> InTable(x))
         /\ waiting' = IF InTable(b) THEN waiting - 1 ELSE waiting
         /\ \A i \in Occupied' : i \in Occupied /\ bags'[i] = bags[i]
         /\ \A i \in Occupied' : bags'[i] # b
         /\ ~InTable(b) => heap' = heap
         /\ InTable(b) => heap' = [x \in DOMAIN heap \ {b} |-> heap[x]]
  <1>1. bags \in [Slot -> Bags \cup {NULL}]
    BY DEF RefInv, EvInv, EvTypeOK
  <1>2. \A i, j \in Occupied : bags[i] = bags[j] => i = j
    BY DEF RefInv, TableInv
  <1>3. NULL \notin Bags
    BY EvAssumption
  <1>4. CASE ~InTable(b)
    <2>1. bags' = bags /\ waiting' = waiting /\ heap' = heap
      BY <1>4 DEF meloop_bag_free, memory, InTable
    <2> QED
      BY <1>4, <2>1 DEF InTable, Occupied
  <1>5. CASE InTable(b)
    <2>1. PICK k \in Slot : bags[k] = b /\ bags' = [bags EXCEPT ![k] = NULL]
      BY <1>5 DEF meloop_bag_free, InTable
    <2>2. /\ waiting' = waiting - 1
          /\ heap' = [x \in DOMAIN heap \ {b} |-> heap[x]]
      BY <1>5 DEF meloop_bag_free, InTable
    <2>3. /\ bags'[k] = NULL
          /\ \A i \in Slot : i # k => bags'[i] = bags[i]
      BY <1>1, <2>1
    <2>4. \A x \in Bags : x # b => (InTable(x)' <=> InTable(x))
      BY <1>3, <2>1, <2>3 DEF InTable
    <2>5. \A i \in Occupied' : i \in Occupied /\ bags'[i] = bags[i] /\ i # k
      BY <2>3 DEF Occupied
    <2>6. k \in Occupied
      BY <1>3, <2>1 DEF Occupied
    <2>7. \A i \in Occupied' : bags'[i] # b
      BY <1>2, <2>1, <2>5, <2>6
    <2> QED
      BY <1>5, <2>2, <2>4, <2>5, <2>7
  <1> QED
    BY <1>4, <1>5

-----------------------------------------------------------------------------
(* Each action keeps the invariant of the table.                           *)

\* The table starts empty, and nothing is allocated.
LEMMA InitTableInv == EvInit => TableInv
  BY DEF EvInit, TableInv

\* meloop_ev_init finds nothing allocated, and waitA fills a slot with a bag
\* that malloc has just returned.
LEMMA WaitTableInv ==
  ASSUME RefInv, NEW fd \in Fds, NEW job \in Jobs, NEW op \in Op,
         wait(fd, job, op)
  PROVE  TableInv'
  <1>1. PICK b \in Bags : meloop_bag_new(b, fd, job)
    BY DEF wait
  <1>2. epfd = "open" /\ epfd' = "open" /\ events' = events
    BY DEF wait
  <1>3. /\ b \notin DOMAIN heap
        /\ DOMAIN heap' = DOMAIN heap \cup {b}
        /\ \A x \in DOMAIN heap : heap'[x] = heap[x]
        /\ bags_remember(b)
    BY <1>1 DEF meloop_bag_new
  <1>4. /\ \A i \in Occupied' : bags'[i] \in DOMAIN heap'
        /\ \A i, j \in Occupied' : bags'[i] = bags'[j] => i = j
    BY <1>2, <1>3, RememberTable
  <1>5. \A ev \in events : ev.bag \in DOMAIN heap
    BY <1>2 DEF RefInv, EvInv, WatchInv
  <1> QED
    BY <1>2, <1>3, <1>4, <1>5 DEF RefInv, TableInv

\* Armed descriptors have bags of their own, each naming its descriptor.
LEMMA PollTableInv ==
  ASSUME RefInv, NEW reported \in SUBSET Fds, poll(reported)
  PROVE  TableInv'
  <1>1. PICK flag \in [reported -> Flag] :
          events' = {[bag |-> interest[fd].bag, flag |-> flag[fd]] :
                       fd \in reported}
    BY DEF poll, meloop_ev_wait
  <1>2. /\ epfd = "open" /\ UNCHANGED <<epfd, bags, waiting, heap>>
        /\ reported \subseteq Armed
    BY DEF poll, meloop_ev_wait, memory, Armed
  <1>3. \A fd \in reported : heap[interest[fd].bag].fd = fd
    BY <1>2 DEF RefInv, EvInv, WatchInv
  <1>4. ASSUME NEW ev1 \in events', NEW ev2 \in events',
               heap[ev1.bag].fd = heap[ev2.bag].fd
        PROVE  ev1 = ev2
    <2>1. PICK f1 \in reported :
            ev1 = [bag |-> interest[f1].bag, flag |-> flag[f1]]
      BY <1>1
    <2>2. PICK f2 \in reported :
            ev2 = [bag |-> interest[f2].bag, flag |-> flag[f2]]
      BY <1>1
    <2>3. f1 = f2
      BY <1>3, <1>4, <2>1, <2>2
    <2> QED
      BY <2>1, <2>2, <2>3
  <1> QED
    BY <1>2, <1>4 DEF RefInv, TableInv, Occupied

\* The slot of a bag is emptied when the bag is freed.
LEMMA TakeTableInv ==
  ASSUME RefInv, NEW ev \in events, take(ev)
  PROVE  TableInv'
  <1>1. ev.bag \in Bags /\ events' = events \ {ev} /\ epfd = "open" /\ epfd' = epfd
    BY DEF take, RefInv, EvInv, EvTypeOK
  <1>2. /\ \A i \in Occupied' : i \in Occupied /\ bags'[i] = bags[i]
        /\ \A i \in Occupied' : bags'[i] # ev.bag
        /\ heap' = heap \/ heap' = [x \in DOMAIN heap \ {ev.bag} |-> heap[x]]
    BY <1>1, FreeTable DEF take
  <1>3. \A x \in DOMAIN heap \ {ev.bag} : x \in DOMAIN heap' /\ heap'[x] = heap[x]
    BY <1>2
  <1>4. \A e \in events' : e.bag \in DOMAIN heap \ {ev.bag}
    BY <1>1 DEF RefInv, EvInv, WatchInv
  <1> QED
    BY <1>1, <1>2, <1>3, <1>4 DEF RefInv, TableInv

\* Every step of the specification keeps the invariant.
LEMMA StepRefInv == RefInv /\ [EvNext]_evVars => RefInv'
  <1> SUFFICES ASSUME RefInv, [EvNext]_evVars PROVE TableInv'
    BY StepEvInv DEF RefInv
  <1>1. CASE meloop_ev_init
    BY <1>1 DEF meloop_ev_init, RefInv, TableInv, EvInv, WatchInv, Occupied
  <1>2. CASE exit \/ waitExit \/ meloop_io_deinit
    BY <1>2 DEF exit, waitExit, meloop_io_deinit, TableInv
  <1>3. ASSUME NEW fd \in Fds, NEW job \in Jobs, NEW op \in Op,
               wait(fd, job, op)
        PROVE  TableInv'
    BY <1>3, WaitTableInv
  <1>4. ASSUME NEW reported \in SUBSET Fds, poll(reported) PROVE TableInv'
    BY <1>4, PollTableInv
  <1>5. ASSUME NEW ev \in events, take(ev) PROVE TableInv'
    BY <1>5, TakeTableInv
  <1>6. CASE UNCHANGED evVars
    BY <1>6 DEF evVars, memory, RefInv, TableInv, Occupied
  <1> QED
    BY <1>1, <1>2, <1>3, <1>4, <1>5, <1>6 DEF EvNext

\* The invariant holds in every reachable state.
LEMMA AlwaysRefInv == EvSpec => []RefInv
  <1>1. EvInit => RefInv
    BY InitEvInv, InitTableInv DEF RefInv
  <1> QED
    BY <1>1, StepRefInv, PTL DEF EvSpec

-----------------------------------------------------------------------------
(* Each action is one of Waits.                                            *)

\* A descriptor that is armed stands for a wait.
LEMMA ArmedIsWait ==
  ASSUME RefInv, epfd = "open", NEW fd \in Fds
  PROVE  /\ fd \in Armed =>
              /\ ArmedWait(fd) \in [job : Jobs, op : Op, counted : BOOLEAN]
              /\ ArmedWait(fd) # NULL
              /\ ArmedWait(fd).job = heap[interest[fd].bag].job
              /\ ArmedWait(fd).op = interest[fd].op
              /\ ArmedWait(fd).counted = InTable(interest[fd].bag)
         /\ fd \notin Armed => ArmedWait(fd) = NULL
  <1>1. CASE fd \in Armed
    <2>1. /\ interest[fd].bag \in DOMAIN heap
          /\ interest[fd].op \in Op
          /\ interest[fd].on
      BY <1>1 DEF RefInv, EvInv, WatchInv, EvTypeOK, Armed
    <2>2. heap[interest[fd].bag].job \in Jobs
      BY <2>1 DEF RefInv, EvInv, EvTypeOK, Content
    <2>3. InTable(interest[fd].bag) \in BOOLEAN
      BY DEF InTable
    <2>4. ArmedWait(fd) = [job     |-> heap[interest[fd].bag].job,
                           op      |-> interest[fd].op,
                           counted |-> InTable(interest[fd].bag)]
      BY <2>1 DEF ArmedWait
    <2>5. ArmedWait(fd) \in [job : Jobs, op : Op, counted : BOOLEAN]
      BY <2>1, <2>2, <2>3, <2>4
    <2> QED
      BY <1>1, <2>4, <2>5, NullAssumption
  <1>2. CASE fd \notin Armed
    BY <1>2 DEF ArmedWait, Armed
  <1> QED
    BY <1>1, <1>2

\* meloop_ev_init finds nothing armed, counted or reported.
LEMMA InitRefines == RefInv /\ meloop_ev_init => Abstract!init
  <1> SUFFICES ASSUME RefInv, meloop_ev_init PROVE Abstract!init
    OBVIOUS
  <1>1. /\ epfd = "none" /\ epfd' = "open"
        /\ waiting = 0 /\ waiting' = 0
        /\ events = {} /\ events' = {} /\ interest' = interest
        /\ \A fd \in Fds : ~interest[fd].on
    BY DEF meloop_ev_init, RefInv, EvInv, WatchInv, TableInv, Armed
  <1>2. \A fd \in Fds : ArmedWait(fd)' = ArmedWait(fd)
    BY <1>1 DEF ArmedWait
  <1> QED
    BY <1>1, <1>2 DEF Abstract!init

\* A process that exits leaves every wait as it is.
LEMMA ExitRefines ==
  RefInv /\ epfd \in {"none", "open"} /\ exit => Abstract!exit
  <1> SUFFICES ASSUME RefInv, epfd \in {"none", "open"}, exit
               PROVE  Abstract!exit
    OBVIOUS
  <1>1. /\ epfd' = "exited"
        /\ UNCHANGED <<bags, waiting, heap, interest, events>>
    BY DEF exit, memory
  <1>2. \A fd \in Fds : ArmedWait(fd)' = ArmedWait(fd)
    BY <1>1 DEF ArmedWait, InTable
  <1>3. \A ev \in events : ReportedWait(ev)' = ReportedWait(ev)
    BY <1>1 DEF ReportedWait, InTable
  <1> QED
    BY <1>1, <1>2, <1>3 DEF Abstract!exit

\* waitA registers a wait for the job, counted if a slot was free; or counts
\* one that epoll_ctl refused.
LEMMA WaitRefines ==
  ASSUME RefInv, NEW fd \in Fds, NEW job \in Jobs, NEW op \in Op,
         wait(fd, job, op)
  PROVE  Abstract!arm(fd, job, op) \/ Abstract!refuse
  <1>1. PICK b \in Bags : /\ meloop_bag_new(b, fd, job)
                          /\ meloop_ev_arm(b, fd, op) \/ meloop_ev_arm_fails
    BY DEF wait
  <1>2. epfd = "open" /\ epfd' = "open" /\ events' = events
    BY DEF wait
  <1>3. /\ b \notin DOMAIN heap
        /\ heap'[b].job = job
        /\ \A x \in DOMAIN heap : heap'[x] = heap[x]
        /\ bags_remember(b)
    BY <1>1 DEF meloop_bag_new
  <1>4. /\ \A x \in Bags : x # b => (InTable(x)' <=> InTable(x))
        /\ InTable(b)' <=> waiting < EV_MAXEVENTS
        /\ waiting' = IF waiting < EV_MAXEVENTS THEN waiting + 1 ELSE waiting
    BY <1>2, <1>3, RememberTable
  <1>5. ASSUME NEW x \in DOMAIN heap
        PROVE  heap'[x] = heap[x] /\ (InTable(x)' <=> InTable(x))
    BY <1>3, <1>4, <1>5 DEF RefInv, EvInv, EvTypeOK
  <1>6. {ReportedWait(ev) : ev \in events}' = {ReportedWait(ev) : ev \in events}
    <2>1. \A ev \in events : ev.bag \in DOMAIN heap
      BY <1>2 DEF RefInv, EvInv, WatchInv
    <2>2. \A ev \in events : ReportedWait(ev)' = ReportedWait(ev)
      BY <1>5, <2>1 DEF ReportedWait, InTable
    <2> QED
      BY <1>2, <2>2
  <1>7. ASSUME NEW g \in Fds, interest'[g] = interest[g]
        PROVE  ArmedWait(g)' = ArmedWait(g)
    <2>1. CASE g \in Armed
      <3>1. interest[g].bag \in DOMAIN heap
        BY <1>2, <2>1 DEF RefInv, EvInv, WatchInv
      <3>2. /\ heap'[interest[g].bag] = heap[interest[g].bag]
            /\ (\E i \in Slot : bags'[i] = interest[g].bag) <=>
                 InTable(interest[g].bag)
        BY <1>5, <3>1 DEF InTable
      <3> QED
        BY <1>2, <1>7, <3>2 DEF ArmedWait, InTable
    <2>2. CASE g \notin Armed
      BY <1>7, <2>2 DEF ArmedWait, Armed
    <2> QED
      BY <2>1, <2>2
  <1>8. CASE meloop_ev_arm_fails
    <2>1. \A g \in Fds : ArmedWait(g)' = ArmedWait(g)
      BY <1>7, <1>8 DEF meloop_ev_arm_fails
    <2> QED
      BY <1>2, <1>4, <1>6, <2>1
      DEF Abstract!refuse, Abstract!enter, Abstract!Counted
  <1>9. CASE meloop_ev_arm(b, fd, op)
    <2>1. interest' = [interest EXCEPT ![fd] =
                         [bag |-> b, op |-> op, on |-> TRUE]]
      BY <1>9 DEF meloop_ev_arm
    <2>2. interest'[fd] = [bag |-> b, op |-> op, on |-> TRUE]
      BY <2>1 DEF RefInv, EvInv, EvTypeOK
    <2>3. \A g \in Fds : g # fd => interest'[g] = interest[g]
      BY <2>1 DEF RefInv, EvInv, EvTypeOK
    <2>4. /\ interest'[fd].on /\ interest'[fd].bag = b /\ interest'[fd].op = op
          /\ InTable(interest[fd].bag)' <=> waiting < EV_MAXEVENTS
      BY <1>4, <2>2 DEF InTable
    <2>5. ArmedWait(fd)' = [job |-> job, op |-> op,
                            counted |-> waiting < EV_MAXEVENTS]
      <3>1. CASE waiting < EV_MAXEVENTS
        <4>1. /\ (waiting < EV_MAXEVENTS) = TRUE
              /\ InTable(interest[fd].bag)' = TRUE
          BY <2>4, <3>1
        <4> QED
          BY <1>2, <1>3, <2>4, <4>1 DEF ArmedWait
      <3>2. CASE ~(waiting < EV_MAXEVENTS)
        <4>1. /\ (waiting < EV_MAXEVENTS) = FALSE
              /\ InTable(interest[fd].bag)' = FALSE
          BY <2>4, <3>2
        <4> QED
          BY <1>2, <1>3, <2>4, <4>1 DEF ArmedWait
      <3> QED
        BY <3>1, <3>2
    <2>6. [g \in Fds |-> ArmedWait(g)]' =
            [[g \in Fds |-> ArmedWait(g)] EXCEPT ![fd] =
               [job |-> job, op |-> op, counted |-> waiting < EV_MAXEVENTS]]
      BY <1>7, <2>3, <2>5
    <2> QED
      BY <1>2, <1>4, <1>6, <2>6
      DEF Abstract!arm, Abstract!enter, Abstract!Counted
  <1> QED
    BY <1>1, <1>8, <1>9

\* epoll_wait reports the waits of the descriptors it disarms.
LEMMA PollRefines ==
  ASSUME RefInv, NEW reported \in SUBSET Fds, poll(reported)
  PROVE  Abstract!poll(reported)
  <1>1. PICK flag \in [reported -> Flag] :
          events' = {[bag |-> interest[fd].bag, flag |-> flag[fd]] :
                       fd \in reported}
    BY DEF poll, meloop_ev_wait
  <1>2. /\ epfd = "open" /\ UNCHANGED <<epfd, bags, waiting, heap>>
        /\ events = {}
        /\ reported # {} /\ Cardinality(reported) <= EV_MAXEVENTS
        /\ reported \subseteq Armed
        /\ interest' = [fd \in Fds |-> IF fd \in reported
                                       THEN Unwatched
                                       ELSE interest[fd]]
    BY DEF poll, meloop_ev_wait, memory, Armed
  <1>3. \A fd \in reported : ArmedWait(fd) # NULL
    BY <1>2, ArmedIsWait
  <1>4. ASSUME NEW fd \in Fds
        PROVE  ArmedWait(fd)' = IF fd \in reported THEN NULL ELSE ArmedWait(fd)
    <2>1. ~Unwatched.on
      BY DEF Unwatched
    <2> QED
      BY <1>2, <2>1 DEF ArmedWait, InTable
  <1>5. ASSUME NEW fd \in reported
        PROVE  ReportedWait([bag |-> interest[fd].bag, flag |-> flag[fd]]) =
                 [fd |-> fd, job |-> ArmedWait(fd).job, flag |-> flag[fd],
                  counted |-> ArmedWait(fd).counted]
    <2>1. /\ heap[interest[fd].bag].fd = fd
          /\ fd \in Armed /\ fd \in Fds
      BY <1>2 DEF RefInv, EvInv, WatchInv
    <2> QED
      BY <1>2, <2>1, ArmedIsWait DEF ReportedWait
  <1>6. {ReportedWait(ev) : ev \in events}' =
          {[fd |-> fd, job |-> ArmedWait(fd).job, flag |-> flag[fd],
            counted |-> ArmedWait(fd).counted] : fd \in reported}
    <2>1. {ReportedWait(ev) : ev \in events}' = {ReportedWait(ev) : ev \in events'}
      BY <1>2 DEF ReportedWait, InTable
    <2>2. {ReportedWait(ev) : ev \in events'} =
            {ReportedWait([bag |-> interest[fd].bag, flag |-> flag[fd]])
               : fd \in reported}
      BY <1>1
    <2> QED
      BY <1>5, <2>1, <2>2
  <1>7. Abstract!Flag = Flag /\ Abstract!Cardinality(reported) = Cardinality(reported)
    BY DEF Flag, Abstract!Flag, Cardinality, Abstract!Cardinality
  <1>8. {ReportedWait(ev) : ev \in events} = {}
    BY <1>2
  <1>9. \A fd \in reported :
          [g \in Fds |-> ArmedWait(g)][fd] = ArmedWait(fd)
    OBVIOUS
  <1>10. [fd \in Fds |-> ArmedWait(fd)]' =
           [fd \in Fds |-> IF fd \in reported THEN NULL
                           ELSE [g \in Fds |-> ArmedWait(g)][fd]]
    BY <1>4
  <1>11. {ReportedWait(ev) : ev \in events}' =
           {[fd |-> fd, job |-> [g \in Fds |-> ArmedWait(g)][fd].job,
             flag |-> flag[fd],
             counted |-> [g \in Fds |-> ArmedWait(g)][fd].counted]
              : fd \in reported}
    BY <1>6, <1>9
  <1>12. epfd' = epfd /\ waiting' = waiting
    BY <1>2
  <1> QED
    BY <1>1, <1>2, <1>3, <1>7, <1>8, <1>9, <1>10, <1>11, <1>12 DEF Abstract!poll

\* The loop hands over one reported wait, uncounts it if it was counted, and
\* in an error disarms the descriptor that the wait was for.
LEMMA TakeRefines ==
  ASSUME RefInv, NEW ev \in events, take(ev)
  PROVE  Abstract!take(ReportedWait(ev))
  <1> DEFINE b == ev.bag
  <1>1. /\ b \in Bags /\ b \in DOMAIN heap /\ heap[b].fd \in Fds
        /\ events' = events \ {ev} /\ epfd = "open" /\ epfd' = epfd
    BY DEF take, RefInv, EvInv, EvTypeOK, WatchInv, Content
  <1>fd. PICK fd \in Fds : fd = heap[b].fd
    BY <1>1
  <1>2. /\ \A x \in Bags : x # b => (InTable(x)' <=> InTable(x))
        /\ waiting' = IF InTable(b) THEN waiting - 1 ELSE waiting
        /\ heap' = heap \/ heap' = [x \in DOMAIN heap \ {b} |-> heap[x]]
    BY <1>1, FreeTable DEF take
  <1>3. ASSUME NEW x \in DOMAIN heap, x # b
        PROVE  heap'[x] = heap[x] /\ (InTable(x)' <=> InTable(x))
    BY <1>2, <1>3 DEF RefInv, EvInv, EvTypeOK
  <1>4. {ReportedWait(e) : e \in events}' =
          {ReportedWait(e) : e \in events} \ {ReportedWait(ev)}
    <2>1. ASSUME NEW e \in events, e # ev
          PROVE  ReportedWait(e)' = ReportedWait(e)
      <3>1. e.bag \in DOMAIN heap /\ e.bag # b
        BY <1>1, <2>1 DEF RefInv, EvInv, WatchInv
      <3> QED
        BY <1>3, <3>1 DEF ReportedWait, InTable
    <2>2. ASSUME NEW e \in events, e # ev
          PROVE  ReportedWait(e) # ReportedWait(ev)
      <3>1. heap[e.bag].fd # heap[ev.bag].fd
        BY <1>1, <2>2 DEF RefInv, TableInv
      <3> QED
        BY <3>1 DEF ReportedWait
    <2> QED
      BY <1>1, <2>1, <2>2
  <1>5. ASSUME NEW g \in Fds, interest'[g] = interest[g]
        PROVE  ArmedWait(g)' = ArmedWait(g)
    <2>1. CASE g \in Armed
      <3>1. interest[g].bag \in DOMAIN heap /\ interest[g].bag # b
        BY <1>1, <2>1 DEF RefInv, EvInv, WatchInv
      <3>2. /\ heap'[interest[g].bag] = heap[interest[g].bag]
            /\ (\E i \in Slot : bags'[i] = interest[g].bag) <=>
                 InTable(interest[g].bag)
        BY <1>3, <3>1 DEF InTable
      <3> QED
        BY <1>1, <1>5, <3>2 DEF ArmedWait, InTable
    <2>2. CASE g \notin Armed
      BY <1>5, <2>2 DEF ArmedWait, Armed
    <2> QED
      BY <2>1, <2>2
  <1>6. /\ ReportedWait(ev).flag = ev.flag
        /\ ReportedWait(ev).fd = fd
        /\ ReportedWait(ev).counted <=> InTable(b)
    BY <1>fd DEF ReportedWait
  <1>7. [g \in Fds |-> ArmedWait(g)]' =
          IF ReportedWait(ev).flag = "ready" THEN [g \in Fds |-> ArmedWait(g)]
          ELSE [[g \in Fds |-> ArmedWait(g)] EXCEPT ![ReportedWait(ev).fd] = NULL]
    <2>1. CASE ev.flag = "ready"
      <3>1. \A g \in Fds : ArmedWait(g)' = ArmedWait(g)
        BY <1>5, <2>1 DEF take
      <3> QED
        BY <1>6, <2>1, <3>1
    <2>2. CASE ev.flag # "ready"
      <3>1. interest' = [interest EXCEPT ![fd] = Unwatched]
        BY <1>fd, <2>2 DEF take, meloop_ev_dearm
      <3>2. /\ interest'[fd] = Unwatched
            /\ \A g \in Fds : g # fd => interest'[g] = interest[g]
        BY <1>1, <3>1 DEF RefInv, EvInv, EvTypeOK
      <3>3. ArmedWait(fd)' = NULL
        BY <3>2 DEF ArmedWait, Unwatched
      <3>4. \A g \in Fds : g # fd => ArmedWait(g)' = ArmedWait(g)
        BY <1>5, <3>2
      <3> QED
        BY <1>1, <1>6, <2>2, <3>3, <3>4
    <2> QED
      BY <2>1, <2>2
  <1> QED
    BY <1>1, <1>2, <1>4, <1>6, <1>7 DEF Abstract!take

\* meloop_io_deinit ends every wait.
LEMMA DeinitRefines == RefInv /\ meloop_io_deinit => Abstract!deinit
  <1> SUFFICES ASSUME RefInv, meloop_io_deinit PROVE Abstract!deinit
    OBVIOUS
  <1>1. /\ epfd = "open" /\ epfd' = "closed"
        /\ events = {} /\ events' = {} /\ waiting' = waiting
    BY DEF meloop_io_deinit, meloop_bags_freeall
  <1>2. \A fd \in Fds : ArmedWait(fd)' = NULL
    BY <1>1 DEF ArmedWait
  <1>3. [fd \in Fds |-> ArmedWait(fd)]' = [fd \in Fds |-> NULL]
    BY <1>2
  <1>4. {ReportedWait(ev) : ev \in events} = {} /\
          {ReportedWait(ev) : ev \in events}' = {}
    BY <1>1
  <1> QED
    BY <1>1, <1>3, <1>4 DEF Abstract!deinit

\* Every step of Ev is a step of Waits.
LEMMA StepRefines ==
  RefInv /\ [EvNext]_evVars => [Abstract!WaitsNext]_(Abstract!waitVars)
  <1> SUFFICES ASSUME RefInv, [EvNext]_evVars
               PROVE  Abstract!WaitsNext \/ UNCHANGED Abstract!waitVars
    OBVIOUS
  <1>1. CASE meloop_ev_init
    BY <1>1, InitRefines DEF Abstract!WaitsNext
  <1>2. CASE (epfd = "none" /\ exit) \/ waitExit
    BY <1>2, ExitRefines DEF waitExit, Abstract!WaitsNext
  <1>3. ASSUME NEW fd \in Fds, NEW job \in Jobs, NEW op \in Op,
               wait(fd, job, op)
        PROVE  Abstract!WaitsNext
    <2>1. Abstract!Op = Op
      BY DEF Op, Abstract!Op
    <2> QED
      BY <1>3, <2>1, WaitRefines DEF Abstract!WaitsNext
  <1>4. ASSUME NEW reported \in SUBSET Fds, poll(reported)
        PROVE  Abstract!WaitsNext
    BY <1>4, PollRefines DEF Abstract!WaitsNext
  <1>5. ASSUME NEW ev \in events, take(ev)
        PROVE  Abstract!WaitsNext
    BY <1>5, TakeRefines DEF Abstract!WaitsNext
  <1>6. CASE meloop_io_deinit
    BY <1>6, DeinitRefines DEF Abstract!WaitsNext
  <1>7. CASE UNCHANGED evVars
    <2>1. UNCHANGED <<epfd, bags, waiting, heap, interest, events>>
      BY <1>7 DEF evVars, memory
    <2>2. \A fd \in Fds : ArmedWait(fd)' = ArmedWait(fd)
      BY <2>1 DEF ArmedWait, InTable
    <2>3. \A ev \in events : ReportedWait(ev)' = ReportedWait(ev)
      BY <2>1 DEF ReportedWait, InTable
    <2> QED
      BY <2>1, <2>2, <2>3 DEF Abstract!waitVars
  <1> QED
    BY <1>1, <1>2, <1>3, <1>4, <1>5, <1>6, <1>7 DEF EvNext

\* What meloop/ev.c does with bags, table and user data is what Waits says of
\* waits: the descriptor and the job that come back are those of the wait that
\* was registered, and freeing a bag uncounts that wait and no other, whatever
\* overflows, is refused, overlaps or is allocated again at the same address.
THEOREM EvImplementsWaits == EvSpec => ImplementsWaits
  <1>1. EvInit => Abstract!WaitsInit
    <2> SUFFICES ASSUME EvInit PROVE Abstract!WaitsInit
      OBVIOUS
    <2>1. \A fd \in Fds : ArmedWait(fd) = NULL
      BY DEF EvInit, ArmedWait, Unwatched
    <2>2. {ReportedWait(ev) : ev \in events} = {}
      BY DEF EvInit
    <2> QED
      BY <2>1, <2>2 DEF EvInit, Abstract!WaitsInit
  <1> QED
    BY <1>1, StepRefines, AlwaysRefInv, PTL
    DEF EvSpec, ImplementsWaits, Abstract!WaitsSpec

-----------------------------------------------------------------------------
(* A slot for every bag.                                                   *)

\* The table has a slot for every descriptor.
EnoughSlots == IsFiniteSet(Fds) /\ Cardinality(Fds) <= EV_MAXEVENTS

(***************************************************************************)
(* When waits do not overlap and there are enough slots, every bag is in   *)
(* the table, no descriptor has two, and nothing is left of them at the    *)
(* end.                                                                    *)
(***************************************************************************)
OneBagEach ==
  /\ epfd = "open" =>
       /\ \A b \in DOMAIN heap : InTable(b)
       /\ \A b1, b2 \in DOMAIN heap : heap[b1].fd = heap[b2].fd => b1 = b2
  /\ epfd = "closed" => DOMAIN heap = {}

\* A descriptor that has no bag finds a free slot: the occupied ones belong to
\* the other descriptors, one to each.
LEMMA SlotIsFree ==
  ASSUME RefInv, OneBagEach, epfd = "open", EnoughSlots,
         NEW fd \in Fds, BagsOf(fd) = {}
  PROVE  waiting < EV_MAXEVENTS
  <1> DEFINE f == [i \in Occupied |-> heap[bags[i]].fd]
             others == Fds \ {fd}
  <1>1. ASSUME NEW i \in Occupied
        PROVE  bags[i] \in DOMAIN heap /\ heap[bags[i]].fd \in others
    <2>1. bags[i] \in DOMAIN heap
      BY DEF RefInv, TableInv
    <2>2. heap[bags[i]].fd \in Fds
      BY <2>1 DEF RefInv, EvInv, EvTypeOK, Content
    <2> QED
      BY <2>1, <2>2 DEF BagsOf
  <1>2. f \in [Occupied -> others]
    BY <1>1
  <1>3. \A i, j \in Occupied : f[i] = f[j] => i = j
    BY <1>1 DEF OneBagEach, RefInv, TableInv
  <1>4. f \in Injection(Occupied, others)
    BY <1>2, <1>3, Fun_IsInj
  <1>5. /\ IsFiniteSet(others) /\ Cardinality(others) = Cardinality(Fds) - 1
        /\ Cardinality(Fds) \in Nat
    BY FS_RemoveElement, FS_CardinalityType DEF EnoughSlots
  <1>6. Cardinality(Occupied) <= Cardinality(others)
    BY <1>4, <1>5, FS_Injection
  <1>7. waiting = Cardinality(Occupied)
    BY DEF RefInv, EvInv, CounterExact
  <1> QED
    BY <1>5, <1>6, <1>7, OccupiedFinite, EvAssumption DEF EnoughSlots

\* The bag of a wait that does not overlap gets a slot.
LEMMA WaitOneBagEach ==
  ASSUME RefInv, OneBagEach, EnoughSlots,
         NEW fd \in Fds, NEW job \in Jobs, NEW b \in Bags,
         epfd = "open", epfd' = "open", BagsOf(fd) = {},
         meloop_bag_new(b, fd, job)
  PROVE  OneBagEach'
  <1>1. /\ b \notin DOMAIN heap
        /\ DOMAIN heap' = DOMAIN heap \cup {b}
        /\ heap'[b].fd = fd
        /\ \A x \in DOMAIN heap : heap'[x] = heap[x]
        /\ bags_remember(b)
    BY DEF meloop_bag_new
  <1>2. waiting < EV_MAXEVENTS
    BY SlotIsFree
  <1>3. InTable(b)' /\ \A x \in DOMAIN heap : InTable(x)'
    BY <1>1, <1>2, RememberTable DEF OneBagEach, RefInv, EvInv, EvTypeOK
  <1>4. \A x \in DOMAIN heap : heap[x].fd # fd
    BY DEF BagsOf
  <1> QED
    BY <1>1, <1>3, <1>4 DEF OneBagEach

\* Freeing bags takes none but theirs out of the table.
LEMMA TakeOneBagEach ==
  ASSUME RefInv, OneBagEach, NEW ev \in events, take(ev)
  PROVE  /\ OneBagEach'
         /\ heap' = [x \in DOMAIN heap \ {ev.bag} |-> heap[x]]
  <1>1. ev.bag \in Bags /\ ev.bag \in DOMAIN heap /\ epfd = "open" /\ epfd' = epfd
    BY DEF take, RefInv, EvInv, EvTypeOK, WatchInv
  <1>2. /\ \A x \in Bags : x # ev.bag => (InTable(x)' <=> InTable(x))
        /\ InTable(ev.bag) => heap' = [x \in DOMAIN heap \ {ev.bag} |-> heap[x]]
    BY <1>1, FreeTable DEF take
  <1>3. heap' = [x \in DOMAIN heap \ {ev.bag} |-> heap[x]]
    BY <1>1, <1>2 DEF OneBagEach
  <1>4. \A x \in DOMAIN heap : x # ev.bag => InTable(x)'
    BY <1>1, <1>2 DEF OneBagEach, RefInv, EvInv, EvTypeOK
  <1> QED
    BY <1>1, <1>3, <1>4 DEF OneBagEach

\* Opening starts with no bags, and closing frees those in the table.
LEMMA EndOneBagEach ==
  RefInv /\ OneBagEach /\ (meloop_ev_init \/ exit \/ meloop_io_deinit)
    => OneBagEach'
  <1>1. ASSUME RefInv, meloop_ev_init PROVE OneBagEach'
    BY <1>1 DEF meloop_ev_init, OneBagEach, RefInv, TableInv
  <1>2. ASSUME exit PROVE OneBagEach'
    BY <1>2 DEF exit, OneBagEach
  <1>3. ASSUME OneBagEach, meloop_io_deinit PROVE OneBagEach'
    <2>1. \A b \in DOMAIN heap : b \in {bags[i] : i \in Slot}
      BY <1>3 DEF OneBagEach, InTable, meloop_io_deinit
    <2>2. DOMAIN heap' = {}
      BY <1>3, <2>1 DEF meloop_io_deinit, meloop_bags_freeall
    <2> QED
      BY <1>3, <2>2 DEF OneBagEach, meloop_io_deinit
  <1> QED
    BY <1>1, <1>2, <1>3

\* Every step keeps it, epoll_ctl failures included.
LEMMA StepOneBagEach ==
  ASSUME EnoughSlots, ~Overlap
  PROVE  RefInv /\ OneBagEach /\ [EvNext]_evVars => OneBagEach'
  <1> SUFFICES ASSUME RefInv, OneBagEach, [EvNext]_evVars PROVE OneBagEach'
    OBVIOUS
  <1>1. CASE meloop_ev_init \/ exit \/ waitExit \/ meloop_io_deinit
    BY <1>1, EndOneBagEach DEF waitExit
  <1>2. ASSUME NEW fd \in Fds, NEW job \in Jobs, NEW op \in Op,
               wait(fd, job, op)
        PROVE  OneBagEach'
    BY <1>2, WaitOneBagEach DEF wait
  <1>3. ASSUME NEW reported \in SUBSET Fds, poll(reported) PROVE OneBagEach'
    BY <1>3 DEF poll, memory, OneBagEach, InTable
  <1>4. ASSUME NEW ev \in events, take(ev) PROVE OneBagEach'
    BY <1>4, TakeOneBagEach
  <1>5. CASE UNCHANGED evVars
    BY <1>5 DEF evVars, memory, OneBagEach, InTable
  <1> QED
    BY <1>1, <1>2, <1>3, <1>4, <1>5 DEF EvNext

\* It holds in every reachable state.
LEMMA AlwaysOneBagEach ==
  ASSUME EnoughSlots, ~Overlap
  PROVE  EvSpec => []OneBagEach
  <1>1. EvInit => OneBagEach
    BY DEF EvInit, OneBagEach
  <1> QED
    BY <1>1, StepOneBagEach, AlwaysRefInv, PTL DEF EvSpec

(***************************************************************************)
(* When epoll_ctl does not fail either, every bag is registered for its    *)
(* descriptor or in the event array.                                       *)
(***************************************************************************)
AllWatched ==
  epfd = "open" =>
    \A b \in DOMAIN heap : \/ \E fd \in Armed : interest[fd].bag = b
                           \/ \E ev \in events : ev.bag = b

LeakInv == RefInv /\ OneBagEach /\ AllWatched

\* A wait that is not refused and does not overlap registers its bag and
\* replaces none.
LEMMA WaitAllWatched ==
  ASSUME LeakInv, ~ArmMayFail, ~Overlap,
         NEW fd \in Fds, NEW job \in Jobs, NEW op \in Op, wait(fd, job, op)
  PROVE  AllWatched'
  <1>1. PICK b \in Bags : /\ meloop_bag_new(b, fd, job)
                          /\ meloop_ev_arm(b, fd, op)
    BY DEF wait, meloop_ev_arm_fails
  <1>2. /\ epfd = "open" /\ epfd' = "open" /\ events' = events
        /\ BagsOf(fd) = {}
    BY DEF wait
  <1>4. DOMAIN heap' = DOMAIN heap \cup {b}
    BY <1>1 DEF meloop_bag_new
  <1>5. /\ interest'[fd].bag = b /\ interest'[fd].on
        /\ \A g \in Fds : g # fd => interest'[g] = interest[g]
    BY <1>1 DEF meloop_ev_arm, LeakInv, RefInv, EvInv, EvTypeOK
  <1>6. fd \notin Armed
    BY <1>2 DEF LeakInv, RefInv, EvInv, WatchInv, BagsOf
  <1>7. fd \in Armed' /\ \A g \in Armed : g \in Armed' /\ interest'[g] = interest[g]
    BY <1>5, <1>6 DEF Armed
  <1> QED
    BY <1>2, <1>4, <1>5, <1>7 DEF LeakInv, AllWatched

\* A bag goes from its descriptor to the event array.
LEMMA PollAllWatched ==
  ASSUME LeakInv, NEW reported \in SUBSET Fds, poll(reported)
  PROVE  AllWatched'
  <1>1. PICK flag \in [reported -> Flag] :
          events' = {[bag |-> interest[fd].bag, flag |-> flag[fd]] :
                       fd \in reported}
    BY DEF poll, meloop_ev_wait
  <1>2. /\ epfd = "open" /\ UNCHANGED <<epfd, bags, waiting, heap>>
        /\ events = {}
        /\ interest' = [fd \in Fds |-> IF fd \in reported
                                       THEN Unwatched
                                       ELSE interest[fd]]
    BY DEF poll, meloop_ev_wait, memory
  <1>4. ASSUME NEW fd \in reported
        PROVE  \E ev \in events' : ev.bag = interest[fd].bag
    <2>1. [bag |-> interest[fd].bag, flag |-> flag[fd]] \in events'
      BY <1>1
    <2> QED
      BY <2>1
  <1>5. \A fd \in Armed : fd \notin reported =>
          fd \in Armed' /\ interest'[fd] = interest[fd]
    BY <1>2 DEF Armed
  <1>6. ASSUME NEW b \in DOMAIN heap
        PROVE  \/ \E fd \in Armed' : interest'[fd].bag = b
               \/ \E ev \in events' : ev.bag = b
    <2>1. PICK fd \in Armed : interest[fd].bag = b
      BY <1>2 DEF LeakInv, AllWatched
    <2>2. CASE fd \in reported
      BY <2>1, <2>2, <1>4
    <2>3. CASE fd \notin reported
      BY <2>1, <2>3, <1>5
    <2> QED
      BY <2>2, <2>3
  <1>7. DOMAIN heap' = DOMAIN heap
    BY <1>2
  <1> QED
    BY <1>6, <1>7 DEF AllWatched

\* In an error the loop disarms a descriptor that has been reported, and so
\* has no other bag.
LEMMA TakeAllWatched ==
  ASSUME LeakInv, NEW ev \in events, take(ev)
  PROVE  AllWatched'
  <1>1. /\ ev.bag \in DOMAIN heap /\ heap[ev.bag].fd \in Fds
        /\ events' = events \ {ev} /\ epfd = "open" /\ epfd' = epfd
    BY DEF take, LeakInv, RefInv, EvInv, EvTypeOK, WatchInv, Content
  <1>2. heap' = [x \in DOMAIN heap \ {ev.bag} |-> heap[x]]
    BY TakeOneBagEach DEF LeakInv
  <1>3. heap[ev.bag].fd \notin Armed
    BY <1>1 DEF LeakInv, RefInv, EvInv, WatchInv, OneBagEach
  <1>4. \A g \in Armed : g \in Armed' /\ interest'[g] = interest[g]
    <2>1. \/ interest' = interest
          \/ interest' = [interest EXCEPT ![heap[ev.bag].fd] = Unwatched]
      BY DEF take, meloop_ev_dearm
    <2> QED
      BY <1>1, <1>3, <2>1 DEF Armed, LeakInv, RefInv, EvInv, EvTypeOK
  <1>5. \A e \in events : e # ev => e \in events'
    BY <1>1
  <1> QED
    BY <1>1, <1>2, <1>4, <1>5 DEF LeakInv, AllWatched

\* Every step keeps the invariant.
LEMMA StepLeakInv ==
  ASSUME EnoughSlots, ~ArmMayFail, ~Overlap
  PROVE  LeakInv /\ [EvNext]_evVars => LeakInv'
  <1> SUFFICES ASSUME LeakInv, [EvNext]_evVars PROVE AllWatched'
    BY StepRefInv, StepOneBagEach DEF LeakInv
  <1>1. CASE meloop_ev_init \/ exit \/ waitExit \/ meloop_io_deinit
    BY <1>1 DEF LeakInv, RefInv, TableInv, AllWatched, meloop_ev_init, exit,
                waitExit, meloop_io_deinit
  <1>2. ASSUME NEW fd \in Fds, NEW job \in Jobs, NEW op \in Op,
               wait(fd, job, op)
        PROVE  AllWatched'
    BY <1>2, WaitAllWatched
  <1>3. ASSUME NEW reported \in SUBSET Fds, poll(reported) PROVE AllWatched'
    BY <1>3, PollAllWatched
  <1>4. ASSUME NEW ev \in events, take(ev) PROVE AllWatched'
    BY <1>4, TakeAllWatched
  <1>5. CASE UNCHANGED evVars
    BY <1>5 DEF evVars, memory, LeakInv, AllWatched, Armed
  <1> QED
    BY <1>1, <1>2, <1>3, <1>4, <1>5 DEF EvNext

\* The invariant holds in every reachable state.
LEMMA AlwaysLeakInv ==
  ASSUME EnoughSlots, ~ArmMayFail, ~Overlap
  PROVE  EvSpec => []LeakInv
  <1>1. EvInit => LeakInv
    BY InitEvInv, InitTableInv
    DEF EvInit, LeakInv, RefInv, OneBagEach, AllWatched
  <1> QED
    BY <1>1, StepLeakInv, PTL DEF EvSpec

\* When epoll_ctl does not fail, waits do not overlap and every descriptor has
\* a slot, the bags that the table counts are those that epoll still has or has
\* just reported: meloop_ev_more() neither ends the loop early nor keeps it.
THEOREM TableCountsTheWatched ==
  ASSUME EnoughSlots, ~ArmMayFail, ~Overlap
  PROVE  EvSpec => []CountedAreWatched
  <1>1. ASSUME LeakInv PROVE CountedAreWatched
    <2> SUFFICES ASSUME epfd = "open"
                 PROVE  {bags[i] : i \in Occupied} =
                          {interest[fd].bag : fd \in Armed}
                            \cup {ev.bag : ev \in events}
      BY DEF CountedAreWatched
    <2>1. \A i \in Occupied : bags[i] \in DOMAIN heap
      BY <1>1 DEF LeakInv, RefInv, TableInv
    <2>2. /\ \A fd \in Armed : interest[fd].bag \in DOMAIN heap
          /\ \A ev \in events : ev.bag \in DOMAIN heap
      BY <1>1 DEF LeakInv, RefInv, EvInv, WatchInv
    <2>3. \A b \in DOMAIN heap : \E i \in Occupied : bags[i] = b
      BY <1>1, EvAssumption
      DEF LeakInv, RefInv, EvInv, EvTypeOK, OneBagEach, InTable, Occupied
    <2>4. \A b \in DOMAIN heap : \/ \E fd \in Armed : interest[fd].bag = b
                                 \/ \E ev \in events : ev.bag = b
      BY <1>1 DEF LeakInv, AllWatched
    <2> QED
      BY <2>1, <2>2, <2>3, <2>4
  <1> QED
    BY <1>1, AlwaysLeakInv, PTL

\* meloop_io_deinit leaves no bag allocated, those of refused waits included,
\* when waits do not overlap and every descriptor has a slot.
THEOREM DeinitFreesAll ==
  ASSUME EnoughSlots, ~Overlap
  PROVE  EvSpec => []NoBagLeak
  <1>1. OneBagEach => NoBagLeak
    BY DEF OneBagEach, NoBagLeak
  <1> QED
    BY <1>1, AlwaysOneBagEach, PTL
=============================================================================
