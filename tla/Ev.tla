--------------------------------- MODULE Ev ---------------------------------
(***************************************************************************)
(* meloop/ev.c: the table of bags and the epoll instance, driven the way   *)
(* meloop/io.c drives them.                                                *)
(*                                                                         *)
(* waitA packs what it needs to go on with a job into a bag, arms the file *)
(* descriptor with the address of the bag as user data, and the loop gets  *)
(* that address back from epoll_wait.  Nothing but the protocol between    *)
(* the two keeps the address valid.  malloc may return an address that was *)
(* freed before.                                                           *)
(*                                                                         *)
(* Which files are ready, and when, is left open: epoll_wait may report    *)
(* any armed descriptor.  EventLoop.tla narrows that down.                 *)
(***************************************************************************)
EXTENDS Integers, FiniteSets

CONSTANTS
  EV_MAXEVENTS,  \* The size of the table and of the loop's event array.
  Fds, Jobs,     \* File descriptors, and the (circuit, state, data) of a bag.
  Bags,          \* The addresses malloc can return.
  NULL,
  ArmMayFail,    \* Whether epoll_ctl may refuse a descriptor.
  Overlap        \* Whether a program may wait for a descriptor twice at once.

ASSUME EvAssumption ==
  /\ EV_MAXEVENTS \in Nat \ {0}
  /\ NULL \notin Bags
  /\ ArmMayFail \in BOOLEAN
  /\ Overlap \in BOOLEAN

Slot    == 0..(EV_MAXEVENTS - 1)
Content == [fd : Fds, job : Jobs]
Op      == {"EPOLLIN", "EPOLLOUT"}
Flag    == {"EPOLLRDHUP", "EPOLLERR", "ready"}

\* Waits uses NULL for a descriptor without a wait.
ASSUME NullAssumption == NULL \notin [job : Jobs, op : Op, counted : BOOLEAN]

VARIABLES
  epfd,       \* _epfd: "none" (-1), "open", "closed" (a stale number); or
              \* "exited" once err(3) has ended the process.
  bags,       \* _bags.
  waiting,    \* _waitingbags.
  heap,       \* The allocated bags and what each holds.
  interest,   \* Kernel: per descriptor, the user data and whether it is armed.
  events      \* The rest of the event array that the loop is going through.

memory == <<bags, waiting, heap>>
evVars == <<epfd, memory, interest, events>>

\* A descriptor that epoll does not watch.
Unwatched == [bag |-> NULL, op |-> "EPOLLIN", on |-> FALSE]

EvTypeOK ==
  /\ epfd \in {"none", "open", "closed", "exited"}
  /\ bags \in [Slot -> Bags \cup {NULL}]
  /\ waiting \in Nat
  /\ DOMAIN heap \subseteq Bags
  /\ heap \in [DOMAIN heap -> Content]
  /\ interest \in [Fds -> [bag : Bags \cup {NULL}, op : Op, on : BOOLEAN]]
  /\ events \subseteq [bag : Bags, flag : Flag]

EvInit ==
  /\ epfd = "none"
  /\ bags = [i \in Slot |-> NULL]
  /\ waiting = 0
  /\ heap = [b \in {} |-> NULL]
  /\ interest = [fd \in Fds |-> Unwatched]
  /\ events = {}

-----------------------------------------------------------------------------
(* The functions of ev.c.                                                  *)

\* A bug: the scan misses the last slot.
bags_remember_short(b) ==
  LET free == {i \in 0..(EV_MAXEVENTS - 2) : bags[i] = NULL} IN
  IF free = {}
  THEN UNCHANGED <<bags, waiting>>
  ELSE \E i \in free :
         /\ \A j \in free : i <= j
         /\ bags' = [bags EXCEPT ![i] = b]
         /\ waiting' = waiting + 1

\* The first free slot takes the bag.  A full table drops it, uncounted, and
\* the caller ignores the ERR that says so.
bags_remember(b) ==
  LET free == {i \in Slot : bags[i] = NULL} IN
  IF free = {}
  THEN UNCHANGED <<bags, waiting>>
  ELSE \E i \in free :
         /\ \A j \in free : i <= j
         /\ bags' = [bags EXCEPT ![i] = b]
         /\ waiting' = waiting + 1

meloop_bag_new(b, fd, job) ==
  /\ b \in Bags \ DOMAIN heap
  /\ heap' = [x \in DOMAIN heap \cup {b} |->
                IF x = b THEN [fd |-> fd, job |-> job] ELSE heap[x]]
  /\ bags_remember(b)

\* A bug: the counter is not decremented.
meloop_bag_free_uncounted(b) ==
  IF \A i \in Slot : bags[i] # b
  THEN UNCHANGED memory
  ELSE /\ heap' = [x \in DOMAIN heap \ {b} |-> heap[x]]
       /\ \E i \in Slot :
            /\ bags[i] = b
            /\ \A j \in Slot : bags[j] = b => i <= j
            /\ bags' = [bags EXCEPT ![i] = NULL]
       /\ UNCHANGED waiting

\* A bug: the counter is decremented for a bag that the table never had.
meloop_bag_free_always_counts(b) ==
  IF \A i \in Slot : bags[i] # b
  THEN waiting' = waiting - 1 /\ UNCHANGED <<bags, heap>>
  ELSE /\ heap' = [x \in DOMAIN heap \ {b} |-> heap[x]]
       /\ \E i \in Slot :
            /\ bags[i] = b
            /\ \A j \in Slot : bags[j] = b => i <= j
            /\ bags' = [bags EXCEPT ![i] = NULL]
       /\ waiting' = waiting - 1

\* Only a bag that the table knows is freed, and its slot with it.
meloop_bag_free(b) ==
  IF \A i \in Slot : bags[i] # b
  THEN UNCHANGED memory
  ELSE /\ heap' = [x \in DOMAIN heap \ {b} |-> heap[x]]
       /\ \E i \in Slot :
            /\ bags[i] = b
            /\ \A j \in Slot : bags[j] = b => i <= j
            /\ bags' = [bags EXCEPT ![i] = NULL]
       /\ waiting' = waiting - 1

\* The counter is left as it was.
meloop_bags_freeall ==
  /\ heap' = [x \in DOMAIN heap \ {bags[i] : i \in Slot} |-> heap[x]]
  /\ bags' = [i \in Slot |-> NULL]
  /\ UNCHANGED waiting

\* EPOLL_CTL_MOD, or EPOLL_CTL_ADD for a descriptor not watched yet: either
\* way the new bag replaces the one that was registered.
meloop_ev_arm(b, fd, op) ==
  interest' = [interest EXCEPT ![fd] =
                 [bag |-> b, op |-> op, on |-> TRUE]]

\* epoll_ctl fails and nothing is registered.
meloop_ev_arm_fails == ArmMayFail /\ UNCHANGED interest

meloop_ev_dearm(fd) == interest' = [interest EXCEPT ![fd] = Unwatched]

\* A bug: without EPOLLONESHOT a reported descriptor stays armed.
meloop_ev_wait_not_oneshot(reported) ==
  /\ reported # {}
  /\ Cardinality(reported) <= EV_MAXEVENTS
  /\ \A fd \in reported : interest[fd].on
  /\ \E flag \in [reported -> Flag] :
       events' = {[bag |-> interest[fd].bag, flag |-> flag[fd]] :
                    fd \in reported}
  /\ UNCHANGED interest

\* epoll_wait reports some armed descriptors and, because of EPOLLONESHOT,
\* disarms them.  A disarmed descriptor differs from an unwatched one only in
\* how meloop_ev_arm comes to arm it.
meloop_ev_wait(reported) ==
  /\ reported # {}
  /\ Cardinality(reported) <= EV_MAXEVENTS
  /\ \A fd \in reported : interest[fd].on
  /\ \E flag \in [reported -> Flag] :
       events' = {[bag |-> interest[fd].bag, flag |-> flag[fd]] :
                    fd \in reported}
  /\ interest' = [fd \in Fds |-> IF fd \in reported
                                 THEN Unwatched
                                 ELSE interest[fd]]

meloop_ev_init ==
  /\ epfd = "none"
  /\ epfd' = "open"
  /\ waiting' = 0
  /\ bags' = [i \in Slot |-> NULL]
  /\ UNCHANGED <<heap, interest, events>>

\* A process that cannot get memory, or an epoll instance, exits in err(3).
exit ==
  /\ epfd' = "exited"
  /\ UNCHANGED <<memory, interest, events>>

-----------------------------------------------------------------------------
(* What io.c does with them, between meloop_io_init and meloop_io_deinit.  *)

\* The bags that hold descriptor fd.
BagsOf(fd) == {b \in DOMAIN heap : heap[b].fd = fd}

\* waitA, whether the descriptor could be armed or not.
wait(fd, job, op) ==
  /\ epfd = "open"
  /\ Overlap \/ BagsOf(fd) = {}
  /\ \E b \in Bags :
       /\ meloop_bag_new(b, fd, job)
       /\ meloop_ev_arm(b, fd, op) \/ meloop_ev_arm_fails
  /\ UNCHANGED <<epfd, events>>

\* waitA without memory: malloc may fail at any time.
waitExit ==
  /\ epfd = "open"
  /\ exit

\* The epoll_wait of meloop_io_loop.
poll(reported) ==
  /\ epfd = "open"
  /\ events = {}
  /\ meloop_ev_wait(reported)
  /\ UNCHANGED <<epfd, memory>>

\* One turn of the for loop of meloop_io_loop, up to the handler it calls: the
\* bag is freed, and a descriptor in error is also dearmed and closed.
take(ev) ==
  /\ epfd = "open"
  /\ ev \in events
  /\ events' = events \ {ev}
  /\ meloop_bag_free(ev.bag)
  /\ IF ev.flag = "ready"
     THEN UNCHANGED interest
     ELSE meloop_ev_dearm(heap[ev.bag].fd)
  /\ UNCHANGED epfd

\* meloop_io_deinit closes the epoll instance and frees the bags.  _epfd keeps
\* its number, so a second meloop_io_init does nothing.
meloop_io_deinit ==
  /\ epfd = "open"
  /\ events = {}
  /\ epfd' = "closed"
  /\ meloop_bags_freeall
  /\ UNCHANGED <<interest, events>>

EvNext ==
  \/ meloop_ev_init
  \/ epfd = "none" /\ exit
  \/ \E fd \in Fds, job \in Jobs, op \in Op : wait(fd, job, op)
  \/ waitExit
  \/ \E reported \in SUBSET Fds : poll(reported)
  \/ \E ev \in events : take(ev)
  \/ meloop_io_deinit

EvSpec == EvInit /\ [][EvNext]_evVars

-----------------------------------------------------------------------------
(* Properties.                                                             *)

Armed    == {fd \in Fds : interest[fd].on}
Occupied == {i \in Slot : bags[i] # NULL}

(***************************************************************************)
(* The loop asks meloop_ev_more() whether anything is left to wait for:    *)
(* while the epoll instance is open, the counter is the number of slots in *)
(* use, through every remember, free, overflow and failed epoll_ctl.       *)
(***************************************************************************)
CounterExact == epfd = "open" => waiting = Cardinality(Occupied)

(***************************************************************************)
(* Every address that the kernel may hand to the loop, and every address   *)
(* still in the loop's event array, is an allocated bag, and no two of     *)
(* them are the same bag: the loop never reads a freed bag and never frees *)
(* one twice, although addresses are reused while an array is being gone   *)
(* through.                                                                *)
(***************************************************************************)
NoDanglingBag ==
  epfd = "open" =>
    /\ \A fd \in Armed : interest[fd].bag \in DOMAIN heap
    /\ \A ev \in events : ev.bag \in DOMAIN heap
    /\ \A fd1, fd2 \in Armed :
         interest[fd1].bag = interest[fd2].bag => fd1 = fd2
    /\ \A ev1, ev2 \in events : ev1.bag = ev2.bag => ev1 = ev2
    /\ \A fd \in Armed, ev \in events : interest[fd].bag # ev.bag

(***************************************************************************)
(* The bags that the table counts are exactly those an event can bring     *)
(* back: the loop goes on as long as something is armed or reported, and   *)
(* never blocks for a bag nobody watches.  "A simple bag which used by     *)
(* waitA to hold meloop's essential data until the underlying file         *)
(* descriptor becomes ready" (ev.h:11).                                    *)
(***************************************************************************)
CountedAreWatched ==
  epfd = "open" =>
    {bags[i] : i \in Occupied} =
      {interest[fd].bag : fd \in Armed} \cup {ev.bag : ev \in events}

(***************************************************************************)
(* meloop_io_deinit leaves no bag allocated.                               *)
(***************************************************************************)
NoBagLeak == epfd = "closed" => DOMAIN heap = {}

-----------------------------------------------------------------------------
(* Refinement.                                                             *)

InTable(b) == \E i \in Slot : bags[i] = b

\* The wait that an armed descriptor stands for, and the one of an event.
ArmedWait(fd) ==
  IF interest[fd].on /\ epfd # "closed"
  THEN [job     |-> heap[interest[fd].bag].job,
        op      |-> interest[fd].op,
        counted |-> InTable(interest[fd].bag)]
  ELSE NULL

ReportedWait(ev) ==
  [fd      |-> heap[ev.bag].fd,
   job     |-> heap[ev.bag].job,
   flag    |-> ev.flag,
   counted |-> InTable(ev.bag)]

Abstract == INSTANCE Waits WITH
  armed <- [fd \in Fds |-> ArmedWait(fd)],
  count <- waiting,
  batch <- {ReportedWait(ev) : ev \in events}

(***************************************************************************)
(* Under overlapping waits, failures, overflow and reuse of addresses, the *)
(* bag that comes back is the one that was armed: it names the descriptor  *)
(* and the job of that wait, and freeing it uncounts that wait and no      *)
(* other.                                                                  *)
(***************************************************************************)
ImplementsWaits == Abstract!WaitsSpec
=============================================================================
