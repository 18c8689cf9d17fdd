-------------------------- MODULE EventLoopProofs --------------------------
(***************************************************************************)
(* Proofs about EventLoop, for any number of jobs, circuits and elements,  *)
(* with any number of signals and epoll_ctl failures: the loop uses ev.c   *)
(* as Ev says, a job that has failed is over, a job goes on where it       *)
(* waited, and no waiting job is abandoned.                                *)
(*                                                                         *)
(* EventLoop itself does not look at Overlap: it is what the program       *)
(* promises to ev.c.  A program that promises nothing (Overlap = TRUE)     *)
(* needs no slots; one that promises not to overlap keeps that promise     *)
(* when every job has a slot.  The theorems hold in both cases.            *)
(***************************************************************************)
EXTENDS EventLoop, EvRefinement, SequenceTheorems

MayWait == Overlap \/ EnoughSlots

-----------------------------------------------------------------------------
(* The inductive invariant.                                                *)

\* TypeOK without the variables of Ev.
LoopTypes ==
  /\ pc \in {"init", "main", "check", "poll", "blocked", "dispatch",
             "returned", "deinit"}
  /\ run \in Jobs \cup {NULL}
  /\ current \in [Circuits -> Nat]
  /\ \A c \in Circuits : current[c] <= Len(Net[c])
  /\ status \in {"working", "EXIT_SUCCESS", "EXIT_FAILURE"}
  /\ ret \in {"OK", "ERR"}
  /\ job \in [Jobs -> {"new", "running", "waiting", "done", "failed"}]
  /\ waitedAt \in [Jobs -> Nat]
  /\ signals \in 0..MaxSignals

\* What a peer has sent and what it may still send are within the bound.
SockTypes ==
  /\ sock \in [Jobs -> [in : 0..MaxIn, left : 0..MaxIn, room : BOOLEAN,
                        hup : BOOLEAN, err : BOOLEAN, open : BOOLEAN]]
  /\ \A j \in Jobs : sock[j].in + sock[j].left <= MaxIn

\* Where main is tells whether the epoll instance is open, an element runs only
\* when main or the loop has called it, and none has run before main_init.
ControlInv ==
  /\ pc = "init" => epfd \in {"none", "exited"} /\ run = NULL
  /\ \A j \in Jobs : pc = "init" => job[j] = "new"
  /\ pc \in {"main", "dispatch"} => epfd \in {"open", "exited"}
  /\ pc \in {"check", "poll", "blocked", "returned"} =>
       epfd = "open" /\ run = NULL
  /\ pc = "deinit" => epfd = "closed" /\ run = NULL

\* The job that runs is the only running one, and its circuit has a current
\* element.  A closed file belongs to a failed job.
RunInv ==
  /\ \A j \in Jobs : run = j => job[j] = "running" /\ current[CircOf[j]] # 0
  /\ \A j \in Jobs : job[j] = "running" => run = j
  /\ \A j \in Jobs : ~sock[j].open => job[j] = "failed"

\* The waiting jobs are exactly those whose descriptor is armed or reported,
\* and never both.
WaiterInv ==
  epfd = "open" =>
    /\ \A b \in DOMAIN heap : heap[b].job = heap[b].fd
    /\ \A j \in Armed : job[j] = "waiting"
    /\ \A ev \in events : /\ job[heap[ev.bag].job] = "waiting"
                          /\ heap[ev.bag].job \notin Armed
    /\ \A j \in Jobs : job[j] = "waiting" =>
         j \in Armed \/ \E ev \in events : heap[ev.bag].job = j

\* With a slot for every job, a job that may come to wait has no bag.
RoomInv ==
  EnoughSlots =>
    /\ OneBagEach
    /\ epfd = "open" =>
         \A j \in Jobs : job[j] \in {"new", "running"} => BagsOf(j) = {}

\* What a step has to keep besides RefInv, which is about Ev alone.
LoopRest ==
  LoopTypes /\ SockTypes /\ ControlInv /\ RunInv /\ WaiterInv /\ RoomInv

LoopInv == RefInv /\ LoopRest

-----------------------------------------------------------------------------
(* arrow.c: what running, returning and failing do.                        *)

\* Circuits are not empty, and the last element leads to one of them or none.
LEMMA CircuitFacts ==
  ASSUME NEW j \in Jobs
  PROVE  /\ CircOf[j] \in Circuits
         /\ Len(Net[CircOf[j]]) \in Nat \ {0}
         /\ Back[CircOf[j]] \in 0..Len(Net[CircOf[j]])
         /\ j # NULL
  <1>1. CircOf[j] \in Circuits /\ j # NULL
    BY EventLoopAssumption
  <1>2. /\ Net[CircOf[j]] \in Seq({"read", "write", "task"})
        /\ Len(Net[CircOf[j]]) > 0
        /\ Back[CircOf[j]] \in 0..Len(Net[CircOf[j]])
    BY <1>1, EventLoopAssumption
  <1>3. Len(Net[CircOf[j]]) \in Nat
    BY <1>2, LenProperties
  <1> QED
    BY <1>1, <1>2, <1>3

\* A job that returns runs the next element or is done.
LEMMA ReturnFacts ==
  ASSUME LoopTypes, NEW j \in Jobs, current[CircOf[j]] # 0, returnA(j)
  PROVE  /\ current' \in [Circuits -> Nat]
         /\ \A c \in Circuits : current'[c] <= Len(Net[c])
         /\ \A c \in Circuits : c # CircOf[j] => current'[c] = current[c]
         /\ run' \in {j, NULL}
         /\ run' = j => job' = job /\ current'[CircOf[j]] # 0
         /\ run' = NULL => job' = [job EXCEPT ![j] = "done"]
  <1> DEFINE c == CircOf[j]
             n == Following(c, current[c])
  <1>1. /\ c \in Circuits /\ Len(Net[c]) \in Nat \ {0} /\ j # NULL
        /\ Back[c] \in 0..Len(Net[c])
        /\ current[c] \in Nat \ {0} /\ current[c] <= Len(Net[c])
    BY CircuitFacts DEF LoopTypes
  <1>2. n \in Nat /\ n <= Len(Net[c])
    BY <1>1 DEF Following
  <1>3. /\ current' = [current EXCEPT ![c] = n]
        /\ run' = IF n = 0 THEN NULL ELSE j
        /\ job' = [job EXCEPT ![j] = IF n = 0 THEN "done" ELSE @]
    BY DEF returnA
  <1>4. /\ current' \in [Circuits -> Nat]
        /\ current'[c] = n
        /\ \A d \in Circuits : d # c => current'[d] = current[d]
    BY <1>1, <1>2, <1>3 DEF LoopTypes
  <1>5. \A d \in Circuits : current'[d] <= Len(Net[d])
    BY <1>2, <1>4 DEF LoopTypes
  <1>6. n # 0 => job' = job
    BY <1>3 DEF LoopTypes
  <1> QED
    BY <1>1, <1>3, <1>4, <1>5, <1>6

\* A job that fails leaves its circuit without a current element.
LEMMA ErrorFacts ==
  ASSUME LoopTypes, NEW j \in Jobs, errorA(j)
  PROVE  /\ current' \in [Circuits -> Nat]
         /\ \A c \in Circuits : current'[c] <= Len(Net[c])
         /\ \A c \in Circuits : c # CircOf[j] => current'[c] = current[c]
         /\ run' = NULL
         /\ job' = [job EXCEPT ![j] = "failed"]
         /\ status' \in {"working", "EXIT_SUCCESS", "EXIT_FAILURE"}
  <1>1. CircOf[j] \in Circuits /\ Len(Net[CircOf[j]]) \in Nat
    BY CircuitFacts
  <1>2. current' = [current EXCEPT ![CircOf[j]] = 0]
    BY DEF errorA
  <1>3. /\ current' \in [Circuits -> Nat]
        /\ current'[CircOf[j]] = 0
        /\ \A d \in Circuits : d # CircOf[j] => current'[d] = current[d]
    BY <1>1, <1>2 DEF LoopTypes
  <1>4. current'[CircOf[j]] <= Len(Net[CircOf[j]])
    BY <1>1, <1>3
  <1>5. \A d \in Circuits : current'[d] <= Len(Net[d])
    BY <1>3, <1>4 DEF LoopTypes
  <1> QED
    BY <1>3, <1>5 DEF errorA, LoopTypes

\* A job that is run has a current element.
LEMMA RunFacts ==
  ASSUME LoopTypes, NEW j \in Jobs, runA(j)
  PROVE  /\ current' \in [Circuits -> Nat]
         /\ \A c \in Circuits : current'[c] <= Len(Net[c])
         /\ \A c \in Circuits : c # CircOf[j] => current'[c] = current[c]
         /\ current'[CircOf[j]] # 0
         /\ current[CircOf[j]] # 0 => current'[CircOf[j]] = current[CircOf[j]]
         /\ run' = j
         /\ job' = [job EXCEPT ![j] = "running"]
  <1> DEFINE c == CircOf[j]
  <1>1. c \in Circuits /\ Len(Net[c]) \in Nat \ {0}
    BY CircuitFacts
  <1>2. current' = [current EXCEPT ![c] = IF current[c] = 0 THEN 1 ELSE @]
    BY DEF runA
  <1>3. /\ current' \in [Circuits -> Nat]
        /\ current'[c] = IF current[c] = 0 THEN 1 ELSE current[c]
        /\ \A d \in Circuits : d # c => current'[d] = current[d]
    BY <1>1, <1>2 DEF LoopTypes
  <1>4. current'[c] <= Len(Net[c])
    <2>1. current[c] \in Nat /\ current[c] <= Len(Net[c])
      BY <1>1 DEF LoopTypes
    <2>2. CASE current[c] = 0
      BY <1>1, <1>3, <2>2
    <2>3. CASE current[c] # 0
      BY <1>3, <2>1, <2>3
    <2> QED
      BY <2>2, <2>3
  <1>5. \A d \in Circuits : current'[d] <= Len(Net[d])
    BY <1>3, <1>4 DEF LoopTypes
  <1> QED
    BY <1>1, <1>3, <1>5 DEF runA

-----------------------------------------------------------------------------
(* The loop as a user of ev.c.                                             *)

\* The running element has no bag when there is a slot for every job, so a
\* program that promises not to overlap does not.
LEMMA WaitUsesEv ==
  ASSUME LoopInv, MayWait, NEW j \in Jobs, NEW op \in Op,
         run = j, epfd = "open", waitA(j, op)
  PROVE  EvNext
  <1>1. Overlap \/ BagsOf(j) = {}
    BY DEF MayWait, LoopInv, LoopRest, RoomInv, RunInv
  <1>2. CASE exit
    BY <1>2 DEF EvNext, waitExit
  <1>3. CASE ~exit
    <2>1. wait(j, j, op)
      BY <1>1, <1>3 DEF waitA, wait
    <2> QED
      BY <2>1, EventLoopAssumption DEF EvNext
  <1> QED
    BY <1>2, <1>3

\* Every step of the program is a step of Ev or leaves Ev alone.
LEMMA StepUsesEv ==
  ASSUME LoopInv, MayWait, [LoopNext]_allVars
  PROVE  [EvNext]_evVars
  <1>1. CASE main_init
    BY <1>1 DEF main_init, EvNext
  <1>2. CASE main_init_fails
    BY <1>2 DEF main_init_fails, EvNext
  <1>3. CASE main_deinit
    BY <1>3 DEF main_deinit, EvNext
  <1>4. ASSUME NEW j \in Jobs, element(j)
        PROVE  EvNext \/ UNCHANGED evVars
    <2>1. CASE readA_wait(j)
      BY <2>1, WaitUsesEv DEF readA_wait, Running, Op
    <2>2. CASE writeA_wait(j)
      BY <2>2, WaitUsesEv DEF writeA_wait, Running, Op
    <2>3. CASE UNCHANGED evVars
      BY <2>3
    <2> QED
      BY <1>4, <2>1, <2>2, <2>3
      DEF element, readA_data, readA_error, writeA_data, writeA_error, task,
          NoWait
  <1>5. CASE loop_wait
    BY <1>5 DEF loop_wait, EvNext
  <1>6. ASSUME NEW ev \in events, loop_run(ev) \/ loop_error(ev)
        PROVE  EvNext
    BY <1>6 DEF loop_run, loop_error, EvNext
  <1>7. CASE \/ main_loop \/ loop_check \/ loop_block \/ loop_next \/ signal
             \/ \E j \in Jobs : main_run(j) \/ peer(j)
    BY <1>7
    DEF main_loop, loop_check, loop_block, loop_next, signal, main_run, peer
  <1>8. CASE UNCHANGED allVars
    BY <1>8 DEF allVars
  <1> QED
    BY <1>1, <1>2, <1>3, <1>4, <1>5, <1>6, <1>7, <1>8 DEF LoopNext, ProcessStep

-----------------------------------------------------------------------------
(* Elements.                                                               *)

\* A step of the running element that does not wait: it returns or fails, and
\* does something to its file, which stays open.
LEMMA ElementKeeps ==
  ASSUME LoopInv, NEW j \in Jobs, run = j,
         (returnA(j) /\ UNCHANGED status) \/ errorA(j),
         NoWait, SockTypes',
         \A k \in Jobs : sock'[k].open <=> sock[k].open
  PROVE  LoopRest'
  <1>1. /\ UNCHANGED <<evVars, pc, ret, waitedAt, signals>>
        /\ UNCHANGED <<epfd, bags, waiting, heap, interest, events>>
    BY DEF NoWait, evVars, memory
  <1>2. job[j] = "running" /\ current[CircOf[j]] # 0
    BY DEF LoopInv, LoopRest, RunInv
  <1>3. /\ current' \in [Circuits -> Nat]
        /\ \A c \in Circuits : current'[c] <= Len(Net[c])
        /\ status' \in {"working", "EXIT_SUCCESS", "EXIT_FAILURE"}
        /\ \/ run' = j /\ job' = job /\ current'[CircOf[j]] # 0
           \/ /\ run' = NULL
              /\ \/ job' = [job EXCEPT ![j] = "done"]
                 \/ job' = [job EXCEPT ![j] = "failed"]
    BY <1>2, ReturnFacts, ErrorFacts DEF LoopInv, LoopRest, LoopTypes
  <1>4. j # NULL /\ j \in Jobs
    BY CircuitFacts
  <1>5. /\ \A k \in Jobs : k # j => job'[k] = job[k]
        /\ run' = j => job'[j] = "running"
        /\ run' # j => job'[j] \in {"done", "failed"}
        /\ job' \in [Jobs -> {"new", "running", "waiting", "done", "failed"}]
    BY <1>2, <1>3, <1>4 DEF LoopInv, LoopRest, LoopTypes
  <1>6. LoopTypes'
    BY <1>1, <1>3, <1>5 DEF LoopInv, LoopRest, LoopTypes
  <1>7. ControlInv'
    BY <1>1, <1>4 DEF LoopInv, LoopRest, ControlInv
  <1>8. RunInv'
    <2>1. RunInv
      BY DEF LoopInv, LoopRest
    <2>2. \A k \in Jobs : k # j => job[k] # "running" /\ run' # k
      BY <1>3, <1>4, <2>1, CircuitFacts DEF RunInv
    <2>3. \A k \in Jobs :
            run' = k => job'[k] = "running" /\ current'[CircOf[k]] # 0
      BY <1>3, <1>4, <1>5, <2>2
    <2>4. \A k \in Jobs : job'[k] = "running" => run' = k
      BY <1>5, <2>2
    <2>5. \A k \in Jobs : ~sock'[k].open => job'[k] = "failed"
      BY <1>2, <1>5, <2>1 DEF RunInv
    <2> QED
      BY <2>3, <2>4, <2>5 DEF RunInv
  <1>9. WaiterInv'
    <2>1. Armed' = Armed
      BY <1>1 DEF Armed
    <2>2. \A k \in Jobs : job[k] = "waiting" <=> job'[k] = "waiting"
      BY <1>2, <1>5
    <2>3. Armed \subseteq Jobs
      BY EventLoopAssumption DEF Armed
    <2>4. epfd = "open" => \A ev \in events : heap[ev.bag].job \in Jobs
      BY DEF LoopInv, RefInv, EvInv, WatchInv, EvTypeOK, Content
    <2> QED
      BY <1>1, <2>1, <2>2, <2>3, <2>4 DEF LoopInv, LoopRest, WaiterInv
  <1>10. RoomInv'
    <2>1. OneBagEach' <=> OneBagEach
      BY <1>1 DEF OneBagEach, InTable
    <2>2. \A k \in Jobs : BagsOf(k)' = BagsOf(k)
      BY <1>1 DEF BagsOf
    <2>3. \A k \in Jobs : job'[k] \in {"new", "running"} =>
            job[k] \in {"new", "running"}
      BY <1>2, <1>5
    <2> QED
      BY <1>1, <2>1, <2>2, <2>3 DEF LoopInv, LoopRest, RoomInv
  <1> QED
    BY <1>6, <1>7, <1>8, <1>9, <1>10 DEF LoopRest

\* Reading, writing and the program's own tasks.
LEMMA DoesNotWaitKeeps ==
  ASSUME LoopInv, NEW j \in Jobs,
         \/ readA_data(j) \/ readA_error(j) \/ writeA_data(j)
         \/ writeA_error(j) \/ task(j)
  PROVE  LoopRest'
  <1>1. SockTypes
    BY DEF LoopInv, LoopRest
  <1>2. run = j /\ NoWait /\ ((returnA(j) /\ UNCHANGED status) \/ errorA(j))
    BY DEF readA_data, readA_error, writeA_data, writeA_error, task, Running
  <1>3. CASE readA_data(j)
    <2>1. sock[j].in > 0 /\ sock' = [sock EXCEPT ![j].in = @ - 1]
      BY <1>3 DEF readA_data
    <2>2. /\ sock[j].in \in 0..MaxIn /\ sock[j].in - 1 \in 0..MaxIn
          /\ sock[j].left \in 0..MaxIn
      BY <1>1, <2>1, EventLoopAssumption DEF SockTypes
    <2>3. /\ \A k \in Jobs : sock'[k].open <=> sock[k].open
          /\ sock' \in [Jobs -> [in : 0..MaxIn, left : 0..MaxIn, room : BOOLEAN,
                                 hup : BOOLEAN, err : BOOLEAN, open : BOOLEAN]]
      BY <1>1, <2>1, <2>2 DEF SockTypes
    <2>4. \A k \in Jobs : /\ sock'[k].left = sock[k].left
                          /\ sock'[k].in = IF k = j THEN sock[k].in - 1
                                          ELSE sock[k].in
      BY <1>1, <2>1 DEF SockTypes
    <2>5. ASSUME NEW k \in Jobs PROVE sock'[k].in + sock'[k].left <= MaxIn
      <3>1. /\ sock[k].in \in 0..MaxIn /\ sock[k].left \in 0..MaxIn
            /\ sock[k].in + sock[k].left <= MaxIn
        BY <1>1 DEF SockTypes
      <3> QED
        BY <2>4, <3>1, EventLoopAssumption
    <2>6. SockTypes'
      BY <2>3, <2>5 DEF SockTypes
    <2> QED
      BY <1>2, <2>3, <2>6, ElementKeeps
  <1>4. CASE writeA_data(j)
    <2>1. PICK room \in BOOLEAN : sock' = [sock EXCEPT ![j].room = room]
      BY <1>4 DEF writeA_data
    <2>2. SockTypes' /\ \A k \in Jobs : sock'[k].open <=> sock[k].open
      BY <1>1, <2>1 DEF SockTypes
    <2> QED
      BY <1>2, <2>2, ElementKeeps
  <1>5. CASE readA_error(j) \/ writeA_error(j) \/ task(j)
    <2>1. sock' = sock
      BY <1>5 DEF readA_error, writeA_error, task
    <2>2. SockTypes' /\ \A k \in Jobs : sock'[k].open <=> sock[k].open
      BY <1>1, <2>1 DEF SockTypes
    <2> QED
      BY <1>2, <2>2, ElementKeeps
  <1> QED
    BY <1>3, <1>4, <1>5

\* waitA: the job waits, or fails because epoll_ctl does, or the process exits.
LEMMA WaitKeeps ==
  ASSUME LoopInv, NEW j \in Jobs, NEW op \in Op,
         run = j, epfd = "open", waitA(j, op)
  PROVE  LoopRest'
  <1>1. /\ UNCHANGED <<events, pc, ret, sock, signals>>
        /\ waitedAt' = [waitedAt EXCEPT ![j] = current[CircOf[j]]]
    BY DEF waitA
  <1>2. /\ job[j] = "running" /\ current[CircOf[j]] \in Nat
        /\ j # NULL /\ j \in Fds /\ pc \in {"main", "dispatch"}
    BY CircuitFacts, EventLoopAssumption
    DEF LoopInv, LoopRest, RunInv, LoopTypes, ControlInv
  <1>3. waitedAt' \in [Jobs -> Nat]
    BY <1>1, <1>2 DEF LoopInv, LoopRest, LoopTypes
  <1>4. SockTypes'
    BY <1>1 DEF LoopInv, LoopRest, SockTypes
  <1>5. CASE exit /\ UNCHANGED <<run, job, current, status>>
    <2>1. epfd' = "exited" /\ UNCHANGED <<run, job, current, status>>
      BY <1>5 DEF exit
    <2>2. LoopTypes' /\ RunInv'
      BY <1>1, <1>3, <2>1 DEF LoopInv, LoopRest, LoopTypes, RunInv
    <2>3. ControlInv' /\ WaiterInv' /\ RoomInv'
      BY <1>1, <1>2, <2>1 DEF ControlInv, WaiterInv, RoomInv, OneBagEach
    <2> QED
      BY <1>4, <2>2, <2>3 DEF LoopRest
  <1>6. ASSUME NEW b \in Bags, meloop_bag_new(b, j, j), UNCHANGED epfd,
               \/ /\ meloop_ev_arm(b, j, op)
                  /\ run' = NULL
                  /\ job' = [job EXCEPT ![j] = "waiting"]
                  /\ UNCHANGED <<current, status>>
               \/ /\ meloop_ev_arm_fails
                  /\ errorA(j)
        PROVE  LoopRest'
    <2>1. /\ b \notin DOMAIN heap
          /\ DOMAIN heap' = DOMAIN heap \cup {b}
          /\ heap'[b] = [fd |-> j, job |-> j]
          /\ \A x \in DOMAIN heap : heap'[x] = heap[x]
      BY <1>6 DEF meloop_bag_new
    <2>2. /\ run' = NULL
          /\ \/ /\ job' = [job EXCEPT ![j] = "waiting"]
                /\ interest' = [interest EXCEPT ![j] =
                                  [bag |-> b, op |-> op, on |-> TRUE]]
             \/ /\ job' = [job EXCEPT ![j] = "failed"]
                /\ interest' = interest
          /\ current' \in [Circuits -> Nat]
          /\ \A c \in Circuits : current'[c] <= Len(Net[c])
          /\ status' \in {"working", "EXIT_SUCCESS", "EXIT_FAILURE"}
      BY <1>6, ErrorFacts
      DEF LoopInv, LoopRest, LoopTypes, meloop_ev_arm, meloop_ev_arm_fails
    <2>3. /\ \A k \in Jobs : k # j => job'[k] = job[k]
          /\ job' \in [Jobs -> {"new", "running", "waiting", "done", "failed"}]
          /\ job'[j] \in {"waiting", "failed"}
      BY <2>2 DEF LoopInv, LoopRest, LoopTypes
    <2>4. /\ \A k \in Fds : k # j => interest'[k] = interest[k]
          /\ job'[j] = "waiting" => interest'[j].on
          /\ job'[j] = "failed" => interest'[j] = interest[j]
      BY <1>2, <2>2 DEF LoopInv, LoopRest, LoopTypes, RefInv, EvInv, EvTypeOK
    <2>5. LoopTypes'
      BY <1>1, <1>3, <2>2, <2>3 DEF LoopInv, LoopRest, LoopTypes
    <2>6. ControlInv'
      BY <1>1, <1>2, <1>6 DEF ControlInv
    <2>7. RunInv'
      BY <1>1, <1>2, <2>2, <2>3, CircuitFacts DEF LoopInv, LoopRest, RunInv
    <2>8. WaiterInv'
      <3>1. WaiterInv /\ Armed \subseteq Jobs /\ j \notin Armed
        BY <1>2, EventLoopAssumption DEF LoopInv, LoopRest, WaiterInv, Armed
      <3>2. /\ \A k \in Armed' : k \in Armed \/ (k = j /\ job'[j] = "waiting")
            /\ \A k \in Armed : k \in Armed'
            /\ job'[j] = "waiting" => j \in Armed'
        BY <1>2, <2>3, <2>4, <3>1 DEF Armed
      <3>3. \A ev \in events : /\ ev.bag \in DOMAIN heap
                               /\ heap[ev.bag].job \in Jobs
        BY DEF LoopInv, RefInv, EvInv, WatchInv, EvTypeOK, Content
      <3>4. \A ev \in events : heap[ev.bag].job # j
        BY <1>2, <3>1 DEF WaiterInv
      <3> QED
        BY <1>1, <1>2, <1>6, <2>1, <2>3, <3>1, <3>2, <3>3, <3>4 DEF WaiterInv
    <2>9. RoomInv'
      <3> SUFFICES ASSUME EnoughSlots
                   PROVE  /\ OneBagEach'
                          /\ \A k \in Jobs : job'[k] \in {"new", "running"} =>
                               BagsOf(k)' = {}
        BY DEF RoomInv
      <3>1. /\ OneBagEach
            /\ \A k \in Jobs : job[k] \in {"new", "running"} => BagsOf(k) = {}
        BY DEF LoopInv, LoopRest, RoomInv
      <3>2. OneBagEach'
        BY <1>2, <1>6, <3>1, WaitOneBagEach DEF LoopInv
      <3>3. \A k \in Jobs : k # j => BagsOf(k)' = BagsOf(k)
        BY <2>1 DEF BagsOf
      <3> QED
        BY <2>3, <3>1, <3>2, <3>3
    <2> QED
      BY <1>4, <2>5, <2>6, <2>7, <2>8, <2>9 DEF LoopRest
  <1> QED
    BY <1>5, <1>6 DEF waitA

-----------------------------------------------------------------------------
(* main and the loop.                                                      *)

\* The bag of an event is the only one of its job, and the job is the only one
\* that the event concerns.
LEMMA TakeKeeps ==
  ASSUME LoopInv, NEW ev \in events, take(ev),
         NEW j \in Jobs, j = heap[ev.bag].job,
         \A k \in Jobs : k # j => job'[k] = job[k],
         job'[j] \in {"running", "failed"}
  PROVE  WaiterInv' /\ RoomInv'
  <1>1. /\ epfd = "open" /\ epfd' = epfd /\ events' = events \ {ev}
        /\ meloop_bag_free(ev.bag) /\ ev.bag \in Bags /\ ev.bag \in DOMAIN heap
    BY DEF take, LoopInv, RefInv, EvInv, WatchInv, EvTypeOK
  <1>2. /\ WaiterInv /\ Armed \subseteq Jobs
        /\ heap[ev.bag].fd = j /\ job[j] = "waiting" /\ j \notin Armed
    BY <1>1, EventLoopAssumption DEF LoopInv, LoopRest, WaiterInv, Armed
  <1>3. heap' = heap \/ heap' = [x \in DOMAIN heap \ {ev.bag} |-> heap[x]]
    BY <1>1, FreeTable DEF LoopInv
  <1>4. /\ \A x \in DOMAIN heap' : x \in DOMAIN heap /\ heap'[x] = heap[x]
        /\ \A x \in DOMAIN heap : x # ev.bag => x \in DOMAIN heap'
    BY <1>3
  <1>5. Armed' = Armed
    <2>1. \/ interest' = interest
          \/ interest' = [interest EXCEPT ![j] = Unwatched]
      BY <1>2 DEF take, meloop_ev_dearm
    <2>2. ~Unwatched.on
      BY DEF Unwatched
    <2> QED
      BY <1>2, <2>1, <2>2, EventLoopAssumption
      DEF Armed, LoopInv, RefInv, EvInv, EvTypeOK
  <1>6. ASSUME NEW e \in events'
        PROVE  /\ e \in events /\ e.bag \in DOMAIN heap'
               /\ heap[e.bag].job \in Jobs /\ heap[e.bag].job # j
    <2>1. e \in events /\ e # ev /\ e.bag \in DOMAIN heap /\ e.bag # ev.bag
      BY <1>1 DEF LoopInv, RefInv, EvInv, WatchInv
    <2>2. heap[e.bag].fd # j
      BY <1>1, <1>2, <2>1 DEF LoopInv, RefInv, TableInv
    <2>3. heap[e.bag].job = heap[e.bag].fd /\ heap[e.bag].job \in Jobs
      BY <1>1, <1>2, <2>1 DEF WaiterInv, LoopInv, RefInv, EvInv, EvTypeOK, Content
    <2> QED
      BY <1>4, <2>1, <2>2, <2>3
  <1>7. WaiterInv'
    <2>1. \A b \in DOMAIN heap' : heap'[b].job = heap'[b].fd
      BY <1>1, <1>2, <1>4 DEF WaiterInv
    <2>2. \A k \in Armed' : job'[k] = "waiting"
      BY <1>1, <1>2, <1>5 DEF WaiterInv
    <2>3. \A e \in events' : /\ job'[heap'[e.bag].job] = "waiting"
                             /\ heap'[e.bag].job \notin Armed'
      BY <1>1, <1>2, <1>4, <1>5, <1>6 DEF WaiterInv
    <2>4. ASSUME NEW k \in Jobs, job'[k] = "waiting"
          PROVE  k \in Armed' \/ \E e \in events' : heap'[e.bag].job = k
      <3>1. k # j /\ job[k] = "waiting"
        BY <2>4
      <3>2. k \in Armed \/ \E e \in events : heap[e.bag].job = k
        BY <1>1, <1>2, <3>1 DEF WaiterInv
      <3>3. ASSUME NEW e \in events, heap[e.bag].job = k
            PROVE  e \in events' /\ heap'[e.bag].job = k
        BY <1>1, <1>4, <1>6, <3>1, <3>3
      <3> QED
        BY <1>5, <3>2, <3>3
    <2> QED
      BY <2>1, <2>2, <2>3, <2>4 DEF WaiterInv
  <1>8. RoomInv'
    <2> SUFFICES ASSUME EnoughSlots
                 PROVE  /\ OneBagEach'
                        /\ \A k \in Jobs : job'[k] \in {"new", "running"} =>
                             BagsOf(k)' = {}
      BY DEF RoomInv
    <2>1. /\ OneBagEach
          /\ \A k \in Jobs : job[k] \in {"new", "running"} => BagsOf(k) = {}
      BY <1>1 DEF LoopInv, LoopRest, RoomInv
    <2>2. OneBagEach' /\ heap' = [x \in DOMAIN heap \ {ev.bag} |-> heap[x]]
      BY <2>1, TakeOneBagEach DEF LoopInv
    <2>3. BagsOf(j)' = {}
      BY <1>1, <1>2, <2>1, <2>2 DEF BagsOf, OneBagEach
    <2>4. \A k \in Jobs : BagsOf(k)' \subseteq BagsOf(k)
      BY <2>2 DEF BagsOf
    <2> QED
      BY <2>1, <2>2, <2>3, <2>4
  <1> QED
    BY <1>7, <1>8

\* The loop runs the job of a ready file.
LEMMA LoopRunKeeps ==
  ASSUME LoopInv, NEW ev \in events, loop_run(ev)
  PROVE  LoopRest'
  <1>1. /\ pc = "dispatch" /\ pc' = "dispatch" /\ run = NULL
        /\ take(ev) /\ ev.flag = "ready" /\ runA(heap[ev.bag].job)
        /\ UNCHANGED <<waitedAt, status, ret, sock, signals>>
    BY DEF loop_run, Goto
  <1>2. /\ epfd = "open" /\ epfd' = epfd /\ events' = events \ {ev}
        /\ interest' = interest /\ meloop_bag_free(ev.bag)
    BY <1>1 DEF take
  <1>3. PICK j \in Jobs : j = heap[ev.bag].job
    BY <1>2 DEF LoopInv, RefInv, EvInv, WatchInv, EvTypeOK, Content
  <1>4. /\ current' \in [Circuits -> Nat]
        /\ \A c \in Circuits : current'[c] <= Len(Net[c])
        /\ current'[CircOf[j]] # 0
        /\ run' = j /\ job' = [job EXCEPT ![j] = "running"]
    BY <1>1, <1>3, RunFacts DEF LoopInv, LoopRest
  <1>5. /\ \A k \in Jobs : k # j => job'[k] = job[k]
        /\ job'[j] = "running" /\ job[j] = "waiting"
        /\ job' \in [Jobs -> {"new", "running", "waiting", "done", "failed"}]
    BY <1>2, <1>3, <1>4 DEF LoopInv, LoopRest, LoopTypes, WaiterInv
  <1>6. LoopTypes' /\ SockTypes'
    BY <1>1, <1>3, <1>4, <1>5 DEF LoopInv, LoopRest, LoopTypes, SockTypes
  <1>7. ControlInv'
    BY <1>1, <1>2 DEF ControlInv
  <1>8. RunInv'
    BY <1>1, <1>4, <1>5, CircuitFacts DEF LoopInv, LoopRest, RunInv
  <1>9. WaiterInv' /\ RoomInv'
    BY <1>1, <1>3, <1>5, TakeKeeps
  <1> QED
    BY <1>6, <1>7, <1>8, <1>9 DEF LoopRest

\* The loop closes the file of a job whose peer is gone, and the job fails.
LEMMA LoopErrorKeeps ==
  ASSUME LoopInv, NEW ev \in events, loop_error(ev)
  PROVE  LoopRest'
  <1>1. /\ pc = "dispatch" /\ pc' = "dispatch" /\ run = NULL
        /\ take(ev) /\ errorA(heap[ev.bag].job)
        /\ sock' = [sock EXCEPT ![heap[ev.bag].fd].open = FALSE]
        /\ UNCHANGED <<waitedAt, ret, signals>>
    BY DEF loop_error, Goto
  <1>2. epfd = "open" /\ epfd' = epfd
    BY <1>1 DEF take
  <1>3. PICK j \in Jobs : j = heap[ev.bag].job
    BY <1>2 DEF LoopInv, RefInv, EvInv, WatchInv, EvTypeOK, Content
  <1>4. /\ current' \in [Circuits -> Nat]
        /\ \A c \in Circuits : current'[c] <= Len(Net[c])
        /\ status' \in {"working", "EXIT_SUCCESS", "EXIT_FAILURE"}
        /\ run' = NULL /\ job' = [job EXCEPT ![j] = "failed"]
    BY <1>1, <1>3, ErrorFacts DEF LoopInv, LoopRest
  <1>5. /\ \A k \in Jobs : k # j => job'[k] = job[k]
        /\ job'[j] = "failed"
        /\ job' \in [Jobs -> {"new", "running", "waiting", "done", "failed"}]
    BY <1>3, <1>4 DEF LoopInv, LoopRest, LoopTypes
  <1>6. LoopTypes'
    BY <1>1, <1>3, <1>4, <1>5 DEF LoopInv, LoopRest, LoopTypes
  <1>7. /\ SockTypes'
        /\ \A k \in Jobs : k # j => sock'[k] = sock[k]
    <2>1. heap[ev.bag].fd = j
      BY <1>2, <1>3 DEF LoopInv, LoopRest, WaiterInv, RefInv, EvInv, WatchInv
    <2>2. SockTypes /\ sock' = [sock EXCEPT ![j].open = FALSE]
      BY <1>1, <2>1 DEF LoopInv, LoopRest
    <2>3. sock' \in [Jobs -> [in : 0..MaxIn, left : 0..MaxIn, room : BOOLEAN,
                              hup : BOOLEAN, err : BOOLEAN, open : BOOLEAN]]
      BY <2>2 DEF SockTypes
    <2>4. /\ \A k \in Jobs : k # j => sock'[k] = sock[k]
          /\ sock'[j].in = sock[j].in /\ sock'[j].left = sock[j].left
      BY <2>2 DEF SockTypes
    <2>5. \A k \in Jobs : sock'[k].in = sock[k].in /\ sock'[k].left = sock[k].left
      BY <2>4
    <2> QED
      BY <2>2, <2>3, <2>4, <2>5 DEF SockTypes
  <1>8. ControlInv'
    BY <1>1, <1>2 DEF ControlInv
  <1>9. RunInv'
    BY <1>1, <1>4, <1>5, <1>7, CircuitFacts DEF LoopInv, LoopRest, RunInv
  <1>10. WaiterInv' /\ RoomInv'
    BY <1>1, <1>3, <1>5, TakeKeeps
  <1> QED
    BY <1>6, <1>7, <1>8, <1>9, <1>10 DEF LoopRest

\* epoll_wait turns armed descriptors into events.
LEMMA LoopWaitKeeps == ASSUME LoopInv, loop_wait PROVE LoopRest'
  <1>1. /\ pc \in {"poll", "blocked"} /\ pc' = "dispatch" /\ run = NULL
        /\ UNCHANGED <<run, current, job, waitedAt, status, ret, sock, signals>>
    BY DEF loop_wait, Goto, program
  <1>2. PICK reported \in SUBSET Fds : poll(reported)
    BY DEF loop_wait
  <1>3. PICK flag \in [reported -> Flag] :
          events' = {[bag |-> interest[fd].bag, flag |-> flag[fd]] :
                       fd \in reported}
    BY <1>2 DEF poll, meloop_ev_wait
  <1>4. /\ epfd = "open" /\ UNCHANGED <<epfd, bags, waiting, heap>>
        /\ events = {} /\ reported \subseteq Armed
        /\ interest' = [fd \in Fds |-> IF fd \in reported
                                       THEN Unwatched
                                       ELSE interest[fd]]
    BY <1>2 DEF poll, meloop_ev_wait, memory, Armed
  <1>5. LoopTypes' /\ SockTypes' /\ ControlInv' /\ RunInv'
    BY <1>1, <1>4
    DEF LoopInv, LoopRest, LoopTypes, SockTypes, ControlInv, RunInv
  <1>6. WaiterInv'
    <2>1. WaiterInv
      BY DEF LoopInv, LoopRest
    <2>2. Armed' = Armed \ reported
      <3>1. ~Unwatched.on
        BY DEF Unwatched
      <3> QED
        BY <1>4, <3>1 DEF Armed
    <2>3. \A fd \in Armed : heap[interest[fd].bag].job = fd
      BY <1>4, <2>1 DEF WaiterInv, LoopInv, RefInv, EvInv, WatchInv
    <2>4. ASSUME NEW ev \in events'
          PROVE  heap[ev.bag].job \in reported
      BY <1>3, <1>4, <2>3
    <2>5. ASSUME NEW fd \in reported
          PROVE  \E ev \in events' : heap[ev.bag].job = fd
      <3>1. [bag |-> interest[fd].bag, flag |-> flag[fd]] \in events'
        BY <1>3
      <3> QED
        BY <1>4, <2>3, <3>1
    <2> QED
      BY <1>1, <1>4, <2>1, <2>2, <2>4, <2>5 DEF WaiterInv
  <1>7. RoomInv'
    BY <1>1, <1>4 DEF LoopInv, LoopRest, RoomInv, OneBagEach, InTable, BagsOf
  <1> QED
    BY <1>5, <1>6, <1>7 DEF LoopRest

\* The steps that leave the files of ev.c and the jobs alone.
LEMMA QuietKeeps ==
  ASSUME LoopInv, UNCHANGED <<evVars, run, current, job, waitedAt>>,
         LoopTypes', SockTypes', ControlInv',
         \A k \in Jobs : sock'[k].open <=> sock[k].open
  PROVE  LoopRest'
  <1>1. UNCHANGED <<epfd, bags, waiting, heap, interest, events>>
    BY DEF evVars, memory
  <1>2. RunInv'
    BY DEF LoopInv, LoopRest, RunInv
  <1>3. WaiterInv'
    BY <1>1 DEF LoopInv, LoopRest, WaiterInv, Armed
  <1>4. RoomInv'
    BY <1>1 DEF LoopInv, LoopRest, RoomInv, OneBagEach, InTable, BagsOf
  <1> QED
    BY <1>2, <1>3, <1>4 DEF LoopRest

\* The loop moves on, or a signal comes, and no file changes.
LEMMA MoveKeeps ==
  ASSUME LoopInv,
         main_loop \/ loop_check \/ loop_block \/ loop_next \/ signal
  PROVE  LoopRest'
  <1>1. /\ UNCHANGED <<evVars, run, current, job, waitedAt, sock>>
        /\ epfd' = epfd
    BY DEF main_loop, loop_check, loop_block, loop_next, signal, program, evVars
  <1>2. LoopTypes /\ SockTypes /\ ControlInv
    BY DEF LoopInv, LoopRest
  <1>3. SockTypes' /\ \A k \in Jobs : sock'[k].open <=> sock[k].open
    BY <1>1, <1>2 DEF SockTypes
  <1>4. CASE signal
    <2>1. /\ signals' = signals + 1 /\ signals < MaxSignals
          /\ status' = "EXIT_SUCCESS"
          /\ \/ pc = "blocked" /\ pc' = "returned" /\ ret' = "ERR"
             \/ UNCHANGED <<pc, ret>>
      BY <1>4 DEF signal
    <2>2. signals' \in 0..MaxSignals
      BY <1>2, <2>1, EventLoopAssumption DEF LoopTypes
    <2>3. LoopTypes'
      BY <1>1, <1>2, <2>1, <2>2 DEF LoopTypes
    <2>4. ControlInv'
      BY <1>1, <1>2, <2>1 DEF ControlInv
    <2> QED
      BY <1>1, <1>3, <2>3, <2>4, QuietKeeps
  <1>5. CASE main_loop \/ loop_check \/ loop_block \/ loop_next
    <2>1. /\ UNCHANGED <<status, ret, signals>> /\ run = NULL
          /\ epfd # "exited" /\ pc \in {"main", "check", "poll", "dispatch"}
          /\ pc' \in {"check", "poll", "blocked", "returned"}
      BY <1>5 DEF main_loop, loop_check, loop_block, loop_next, Goto
    <2>2. LoopTypes'
      BY <1>1, <1>2, <2>1 DEF LoopTypes
    <2>3. ControlInv'
      BY <1>1, <1>2, <2>1 DEF ControlInv
    <2> QED
      BY <1>1, <1>3, <2>2, <2>3, QuietKeeps
  <1> QED
    BY <1>4, <1>5

\* A peer acts: what it sends leaves it with less to send.
LEMMA PeerKeeps ==
  ASSUME LoopInv, NEW j \in Jobs, peer(j)
  PROVE  LoopRest'
  <1>1. UNCHANGED <<evVars, run, current, job, waitedAt, pc, status, ret, signals>>
    BY DEF peer, program
  <1>2. LoopTypes /\ SockTypes /\ ControlInv
    BY DEF LoopInv, LoopRest
  <1>3. LoopTypes' /\ ControlInv'
    BY <1>1, <1>2 DEF LoopTypes, ControlInv, evVars
  <1>4. SockTypes' /\ \A k \in Jobs : sock'[k].open <=> sock[k].open
    <2>1. CASE /\ sock[j].left > 0
               /\ sock' = [sock EXCEPT ![j].in = @ + 1, ![j].left = @ - 1]
      <3>1. /\ sock[j].in \in 0..MaxIn /\ sock[j].left \in 0..MaxIn
            /\ sock[j].in + sock[j].left <= MaxIn
            /\ sock[j].left > 0 /\ MaxIn \in Nat
        BY <1>2, <2>1, EventLoopAssumption DEF SockTypes
      <3>2. /\ sock[j].in + 1 \in 0..MaxIn /\ sock[j].left - 1 \in 0..MaxIn
            /\ (sock[j].in + 1) + (sock[j].left - 1) <= MaxIn
        BY <3>1
      <3>3. /\ \A k \in Jobs : sock'[k].open <=> sock[k].open
            /\ sock' \in [Jobs -> [in : 0..MaxIn, left : 0..MaxIn,
                                   room : BOOLEAN, hup : BOOLEAN,
                                   err : BOOLEAN, open : BOOLEAN]]
        BY <1>2, <2>1, <3>2 DEF SockTypes
      <3>4. /\ sock'[j].in = sock[j].in + 1 /\ sock'[j].left = sock[j].left - 1
            /\ \A k \in Jobs : k # j => sock'[k] = sock[k]
        BY <1>2, <2>1 DEF SockTypes
      <3>5. \A k \in Jobs : sock'[k].in + sock'[k].left <= MaxIn
        BY <1>2, <3>2, <3>4 DEF SockTypes
      <3> QED
        BY <3>3, <3>5 DEF SockTypes
    <2>2. CASE sock' = [sock EXCEPT ![j].room = TRUE]
      <3>1. sock' \in [Jobs -> [in : 0..MaxIn, left : 0..MaxIn, room : BOOLEAN,
                                hup : BOOLEAN, err : BOOLEAN, open : BOOLEAN]]
        BY <1>2, <2>2 DEF SockTypes
      <3>2. \A k \in Jobs : /\ sock'[k].open <=> sock[k].open
                           /\ sock'[k].in = sock[k].in
                           /\ sock'[k].left = sock[k].left
        BY <1>2, <2>2 DEF SockTypes
      <3> QED
        BY <1>2, <3>1, <3>2 DEF SockTypes
    <2>3. CASE sock' = [sock EXCEPT ![j].hup = TRUE]
      <3>1. sock' \in [Jobs -> [in : 0..MaxIn, left : 0..MaxIn, room : BOOLEAN,
                                hup : BOOLEAN, err : BOOLEAN, open : BOOLEAN]]
        BY <1>2, <2>3 DEF SockTypes
      <3>2. \A k \in Jobs : /\ sock'[k].open <=> sock[k].open
                           /\ sock'[k].in = sock[k].in
                           /\ sock'[k].left = sock[k].left
        BY <1>2, <2>3 DEF SockTypes
      <3> QED
        BY <1>2, <3>1, <3>2 DEF SockTypes
    <2>4. CASE sock' = [sock EXCEPT ![j].err = TRUE]
      <3>1. sock' \in [Jobs -> [in : 0..MaxIn, left : 0..MaxIn, room : BOOLEAN,
                                hup : BOOLEAN, err : BOOLEAN, open : BOOLEAN]]
        BY <1>2, <2>4 DEF SockTypes
      <3>2. \A k \in Jobs : /\ sock'[k].open <=> sock[k].open
                           /\ sock'[k].in = sock[k].in
                           /\ sock'[k].left = sock[k].left
        BY <1>2, <2>4 DEF SockTypes
      <3> QED
        BY <1>2, <3>1, <3>2 DEF SockTypes
    <2> QED
      BY <2>1, <2>2, <2>3, <2>4 DEF peer
  <1> QED
    BY <1>1, <1>3, <1>4, QuietKeeps

\* RUN_A of a job that has not run yet.
LEMMA MainRunKeeps ==
  ASSUME LoopInv, NEW j \in Jobs, main_run(j)
  PROVE  LoopRest'
  <1>1. /\ pc = "main" /\ pc' = "main" /\ run = NULL /\ job[j] = "new" /\ runA(j)
        /\ UNCHANGED <<evVars, waitedAt, status, ret, sock, signals>>
        /\ UNCHANGED <<epfd, bags, waiting, heap, interest, events>>
    BY DEF main_run, Goto, evVars, memory
  <1>2. /\ current' \in [Circuits -> Nat]
        /\ \A c \in Circuits : current'[c] <= Len(Net[c])
        /\ current'[CircOf[j]] # 0
        /\ run' = j /\ job' = [job EXCEPT ![j] = "running"]
    BY <1>1, RunFacts DEF LoopInv, LoopRest
  <1>3. /\ \A k \in Jobs : k # j => job'[k] = job[k]
        /\ job'[j] = "running"
        /\ job' \in [Jobs -> {"new", "running", "waiting", "done", "failed"}]
    BY <1>2 DEF LoopInv, LoopRest, LoopTypes
  <1>4. LoopTypes' /\ SockTypes' /\ ControlInv'
    BY <1>1, <1>2, <1>3
    DEF LoopInv, LoopRest, LoopTypes, SockTypes, ControlInv
  <1>5. RunInv'
    BY <1>1, <1>2, <1>3, CircuitFacts DEF LoopInv, LoopRest, RunInv
  <1>6. WaiterInv'
    <2>1. Armed' = Armed /\ Armed \subseteq Jobs
      BY <1>1, EventLoopAssumption DEF Armed
    <2>2. \A k \in Jobs : job[k] = "waiting" <=> job'[k] = "waiting"
      BY <1>1, <1>3
    <2>3. epfd = "open" => \A ev \in events : heap[ev.bag].job \in Jobs
      BY DEF LoopInv, RefInv, EvInv, WatchInv, EvTypeOK, Content
    <2> QED
      BY <1>1, <2>1, <2>2, <2>3 DEF LoopInv, LoopRest, WaiterInv
  <1>7. RoomInv'
    <2>1. (OneBagEach' <=> OneBagEach) /\ \A k \in Jobs : BagsOf(k)' = BagsOf(k)
      BY <1>1 DEF OneBagEach, InTable, BagsOf
    <2>2. \A k \in Jobs : job'[k] \in {"new", "running"} =>
            job[k] \in {"new", "running"}
      BY <1>1, <1>3
    <2> QED
      BY <1>1, <2>1, <2>2 DEF LoopInv, LoopRest, RoomInv
  <1> QED
    BY <1>4, <1>5, <1>6, <1>7 DEF LoopRest

\* main opens the epoll instance, closes it, or exits.
LEMMA MainKeeps ==
  ASSUME LoopInv, main_init \/ main_init_fails \/ main_deinit
  PROVE  LoopRest'
  <1>1. /\ UNCHANGED <<run, current, job, waitedAt, status, ret, sock, signals>>
        /\ run = NULL
    BY DEF main_init, main_init_fails, main_deinit, Goto, program, loopVars,
           LoopInv, LoopRest, ControlInv
  <1>2. pc' \in {"init", "main", "deinit"}
    BY DEF main_init, main_init_fails, main_deinit, Goto, loopVars
  <1>3. LoopTypes' /\ SockTypes' /\ RunInv'
    BY <1>1, <1>2 DEF LoopInv, LoopRest, LoopTypes, SockTypes, RunInv
  <1>4. CASE main_init
    <2>1. /\ pc = "init" /\ pc' = "main" /\ epfd = "none" /\ epfd' = "open"
          /\ UNCHANGED <<heap, interest, events>> /\ meloop_ev_init
      BY <1>4 DEF main_init, Goto, meloop_ev_init
    <2>2. Armed = {} /\ events = {} /\ DOMAIN heap = {}
      BY <2>1 DEF LoopInv, RefInv, EvInv, WatchInv, TableInv
    <2>3. Armed' = {} /\ events' = {} /\ DOMAIN heap' = {}
      BY <2>1, <2>2 DEF Armed
    <2>4. WaiterInv'
      <3>1. \A j \in Jobs : job[j] # "waiting"
        BY <2>1 DEF LoopInv, LoopRest, ControlInv
      <3> QED
        BY <1>1, <2>3, <3>1 DEF WaiterInv
    <2>5. OneBagEach' /\ \A k \in Jobs : BagsOf(k)' = {}
      BY <2>1, <2>3 DEF OneBagEach, BagsOf
    <2> QED
      BY <1>1, <1>3, <2>1, <2>4, <2>5 DEF LoopRest, ControlInv, RoomInv
  <1>5. CASE main_init_fails
    <2>1. pc = "init" /\ pc' = "init" /\ epfd' = "exited"
      BY <1>5 DEF main_init_fails, exit, loopVars
    <2> QED
      BY <1>1, <1>3, <2>1
      DEF LoopInv, LoopRest, ControlInv, WaiterInv, RoomInv, OneBagEach
  <1>6. CASE main_deinit
    <2>1. pc' = "deinit" /\ epfd = "open" /\ epfd' = "closed" /\ meloop_io_deinit
      BY <1>6 DEF main_deinit, Goto, meloop_io_deinit
    <2>2. OneBagEach => OneBagEach'
      BY <2>1, EndOneBagEach DEF LoopInv
    <2> QED
      BY <1>1, <1>3, <2>1, <2>2
      DEF LoopInv, LoopRest, ControlInv, WaiterInv, RoomInv
  <1> QED
    BY <1>4, <1>5, <1>6

-----------------------------------------------------------------------------
(* The invariant.                                                          *)

\* The initial state satisfies it.
LEMMA InitLoopInv == LoopInit => LoopInv
  <1> SUFFICES ASSUME LoopInit PROVE LoopInv
    OBVIOUS
  <1>1. EvInit /\ RefInv
    BY InitEvInv, InitTableInv DEF LoopInit, RefInv
  <1>2. PICK room \in [Jobs -> BOOLEAN] :
          sock = [j \in Jobs |-> [in |-> 0, left |-> MaxIn, room |-> room[j],
                                 hup |-> FALSE, err |-> FALSE, open |-> TRUE]]
    BY DEF LoopInit
  <1>3. SockTypes
    BY <1>2, EventLoopAssumption DEF SockTypes
  <1>4. \A j \in Jobs : sock[j].open
    BY <1>2
  <1>5. LoopTypes
    <2>1. \A c \in Circuits : 0 <= Len(Net[c])
      BY EventLoopAssumption, LenProperties
    <2> QED
      BY <2>1, EventLoopAssumption DEF LoopInit, LoopTypes
  <1>6. ControlInv /\ RunInv
    BY <1>1, <1>4, CircuitFacts DEF LoopInit, EvInit, ControlInv, RunInv
  <1>7. WaiterInv /\ RoomInv
    BY <1>1 DEF EvInit, WaiterInv, RoomInv, OneBagEach
  <1> QED
    BY <1>1, <1>3, <1>5, <1>6, <1>7 DEF LoopInv, LoopRest

\* Every step keeps it.
LEMMA StepLoopInv ==
  ASSUME MayWait
  PROVE  LoopInv /\ [LoopNext]_allVars => LoopInv'
  <1> SUFFICES ASSUME LoopInv, [LoopNext]_allVars PROVE LoopInv'
    OBVIOUS
  <1>1. RefInv'
    BY StepUsesEv, StepRefInv DEF LoopInv
  <1>2. CASE main_init \/ main_init_fails \/ main_deinit
    BY <1>1, <1>2, MainKeeps DEF LoopInv
  <1>3. CASE main_loop \/ loop_check \/ loop_block \/ loop_next \/ signal
    BY <1>1, <1>3, MoveKeeps DEF LoopInv
  <1>4. CASE loop_wait
    BY <1>1, <1>4, LoopWaitKeeps DEF LoopInv
  <1>5. ASSUME NEW ev \in events, loop_run(ev) \/ loop_error(ev)
        PROVE  LoopInv'
    BY <1>1, <1>5, LoopRunKeeps, LoopErrorKeeps DEF LoopInv
  <1>6. ASSUME NEW j \in Jobs, main_run(j) \/ peer(j) PROVE LoopInv'
    BY <1>1, <1>6, MainRunKeeps, PeerKeeps DEF LoopInv
  <1>7. ASSUME NEW j \in Jobs, element(j) PROVE LoopInv'
    <2>1. CASE readA_wait(j)
      BY <1>1, <2>1, WaitKeeps DEF readA_wait, Running, Op, LoopInv
    <2>2. CASE writeA_wait(j)
      BY <1>1, <2>2, WaitKeeps DEF writeA_wait, Running, Op, LoopInv
    <2> QED
      BY <1>1, <1>7, <2>1, <2>2, DoesNotWaitKeeps DEF element, LoopInv
  <1>8. CASE UNCHANGED allVars
    <2>1. /\ UNCHANGED <<evVars, run, current, job, waitedAt>>
          /\ UNCHANGED <<pc, status, ret, sock, signals, epfd>>
      BY <1>8 DEF allVars, loopVars, program, evVars
    <2>2. LoopTypes' /\ SockTypes' /\ ControlInv'
      BY <2>1 DEF LoopInv, LoopRest, LoopTypes, SockTypes, ControlInv
    <2> QED
      BY <1>1, <2>1, <2>2, QuietKeeps DEF LoopInv
  <1> QED
    BY <1>2, <1>3, <1>4, <1>5, <1>6, <1>7, <1>8 DEF LoopNext, ProcessStep

\* It holds in every reachable state.
LEMMA AlwaysLoopInv ==
  ASSUME MayWait
  PROVE  LoopSpec => []LoopInv
  BY InitLoopInv, StepLoopInv, PTL DEF LoopSpec

-----------------------------------------------------------------------------
(* The theorems.                                                           *)

\* The loop is a user of ev.c that Ev allows: it waits for no file that has a
\* bag, takes only what epoll_wait gave it, and closes an open instance.
THEOREM LoopUsesEv ==
  ASSUME MayWait
  PROVE  LoopSpec => UsesEv
  <1>1. LoopInit => EvInit
    BY DEF LoopInit
  <1>2. LoopInv /\ [LoopNext]_allVars => [EvNext]_evVars
    BY StepUsesEv
  <1> QED
    BY <1>1, <1>2, AlwaysLoopInv, PTL DEF LoopSpec, UsesEv, EvSpec

\* The variables of the loop keep their types: no circuit's current element
\* lies past its last one, and no peer exceeds its bound.
THEOREM LoopTypeCorrect ==
  ASSUME MayWait
  PROVE  LoopSpec => []TypeOK
  <1>1. LoopInv => TypeOK
    BY DEF LoopInv, RefInv, EvInv, LoopRest, LoopTypes, SockTypes, TypeOK
  <1> QED
    BY <1>1, AlwaysLoopInv, PTL

\* After the error callback was told, the job neither runs nor waits, and the
\* loop has closed no file of a job that is not over.
THEOREM FailedJobIsOver ==
  ASSUME MayWait
  PROVE  LoopSpec => []FailedIsOver
  <1>1. ASSUME LoopInv PROVE FailedIsOver
    <2> SUFFICES ASSUME NEW j \in Jobs, job[j] = "failed" \/ ~sock[j].open
                 PROVE  /\ job[j] = "failed"
                        /\ run # j
                        /\ epfd = "open" =>
                             /\ ~interest[j].on
                             /\ \A ev \in events : heap[ev.bag].job # j
      BY DEF FailedIsOver
    <2>1. job[j] = "failed" /\ run # j
      BY <1>1 DEF LoopInv, LoopRest, RunInv
    <2>2. epfd = "open" => j \notin Armed
      BY <1>1, <2>1 DEF LoopInv, LoopRest, WaiterInv
    <2>3. epfd = "open" => ~interest[j].on
      BY <2>2, EventLoopAssumption DEF Armed
    <2>4. epfd = "open" => \A ev \in events : heap[ev.bag].job # j
      BY <1>1, <2>1 DEF LoopInv, LoopRest, WaiterInv
    <2> QED
      BY <2>1, <2>3, <2>4
  <1> QED
    BY <1>1, AlwaysLoopInv, PTL

-----------------------------------------------------------------------------
(* A job goes on where it waited.                                          *)

\* One job at a time moves, and only it and its circuit are concerned.
Moves(k) ==
  /\ \A j \in Jobs : j # k => job'[j] = job[j] /\ waitedAt'[j] = waitedAt[j]
  /\ \A c \in Circuits : c # CircOf[k] => current'[c] = current[c]
  /\ \/ job'[k] # "waiting" /\ (job[k] = "waiting" => job'[k] = "failed")
     \/ /\ job[k] = "waiting" /\ job'[k] = "running"
        /\ current[CircOf[k]] # 0 => current'[CircOf[k]] = current[CircOf[k]]
     \/ /\ job'[k] = "waiting"
        /\ current'[CircOf[k]] = current[CircOf[k]]
        /\ waitedAt'[k] = current[CircOf[k]] /\ current[CircOf[k]] # 0

\* Every step moves one job or none.
LEMMA StepMoves ==
  ASSUME LoopInv, [LoopNext]_allVars
  PROVE  UNCHANGED <<current, job, waitedAt>> \/ \E k \in Jobs : Moves(k)
  <1>1. LoopTypes
    BY DEF LoopInv, LoopRest
  <1>2. ASSUME NEW j \in Jobs, run = j, epfd = "open", NEW op \in Op, waitA(j, op)
        PROVE  Moves(j)
    <2>1. job[j] = "running" /\ current[CircOf[j]] # 0
      BY <1>2 DEF LoopInv, LoopRest, RunInv
    <2>2. /\ waitedAt'[j] = current[CircOf[j]]
          /\ \A k \in Jobs : k # j => waitedAt'[k] = waitedAt[k]
      BY <1>1, <1>2 DEF waitA, LoopTypes
    <2>3. CASE errorA(j)
      BY <1>1, <2>1, <2>2, <2>3, ErrorFacts DEF Moves, LoopTypes
    <2>4. CASE job' = [job EXCEPT ![j] = "waiting"] /\ UNCHANGED current
      BY <1>1, <2>1, <2>2, <2>4 DEF Moves, LoopTypes
    <2>5. CASE UNCHANGED <<job, current>>
      BY <2>1, <2>2, <2>5 DEF Moves
    <2> QED
      BY <1>2, <2>3, <2>4, <2>5 DEF waitA
  <1>3. ASSUME NEW j \in Jobs, run = j, NoWait, returnA(j) \/ errorA(j)
        PROVE  Moves(j)
    <2>1. /\ job[j] = "running" /\ current[CircOf[j]] # 0 /\ waitedAt' = waitedAt
          /\ j # NULL
      BY <1>3, CircuitFacts DEF LoopInv, LoopRest, RunInv, NoWait
    <2>2. CASE returnA(j)
      BY <1>1, <2>1, <2>2, ReturnFacts DEF Moves, LoopTypes
    <2>3. CASE errorA(j)
      BY <1>1, <2>1, <2>3, ErrorFacts DEF Moves, LoopTypes
    <2> QED
      BY <1>3, <2>2, <2>3
  <1>4. ASSUME NEW j \in Jobs, element(j)
        PROVE  Moves(j)
    <2>1. run = j /\ epfd = "open"
      BY <1>4
      DEF element, readA_data, readA_error, readA_wait, writeA_data,
          writeA_error, writeA_wait, task, Running
    <2>2. CASE readA_wait(j)
      BY <1>2, <2>1, <2>2 DEF readA_wait, Op
    <2>3. CASE writeA_wait(j)
      BY <1>2, <2>1, <2>3 DEF writeA_wait, Op
    <2> QED
      BY <1>3, <1>4, <2>1, <2>2, <2>3
      DEF element, readA_data, readA_error, writeA_data, writeA_error, task
  <1>5. ASSUME NEW j \in Jobs, runA(j), waitedAt' = waitedAt
        PROVE  Moves(j)
    BY <1>1, <1>5, RunFacts DEF Moves, LoopTypes
  <1>6. ASSUME NEW j \in Jobs, main_run(j) PROVE Moves(j)
    BY <1>5, <1>6 DEF main_run
  <1>7. ASSUME NEW ev \in events, loop_run(ev) \/ loop_error(ev)
        PROVE  \E k \in Jobs : Moves(k)
    <2>1. epfd = "open" /\ waitedAt' = waitedAt
      BY <1>7 DEF loop_run, loop_error, take
    <2>2. PICK j \in Jobs : j = heap[ev.bag].job
      BY <2>1 DEF LoopInv, RefInv, EvInv, WatchInv, EvTypeOK, Content
    <2>3. CASE loop_run(ev)
      BY <1>5, <2>1, <2>2, <2>3 DEF loop_run
    <2>4. CASE loop_error(ev)
      <3>1. errorA(j)
        BY <2>2, <2>4 DEF loop_error
      <3>2. Moves(j)
        BY <1>1, <2>1, <3>1, ErrorFacts DEF Moves, LoopTypes
      <3> QED
        BY <3>2
    <2> QED
      BY <1>7, <2>3, <2>4
  <1>8. CASE \/ main_init \/ main_init_fails \/ main_loop \/ main_deinit
             \/ loop_check \/ loop_block \/ loop_wait \/ loop_next
             \/ signal \/ (\E j \in Jobs : peer(j)) \/ UNCHANGED allVars
    BY <1>8
    DEF main_init, main_init_fails, main_loop, main_deinit, loop_check,
        loop_block, loop_wait, loop_next, signal, peer, allVars, loopVars,
        program
  <1> QED
    BY <1>4, <1>6, <1>7, <1>8 DEF LoopNext, ProcessStep

\* A waiting job left its circuit at the element that waited.
ResumeInv ==
  \A j \in Jobs : job[j] = "waiting" =>
    current[CircOf[j]] = waitedAt[j] /\ waitedAt[j] # 0

\* No two jobs run through the same circuit.
OneJobPerCircuit == \A j, k \in Jobs : CircOf[j] = CircOf[k] => j = k

(***************************************************************************)
(* A job that waited goes on in the element that called waitA, when no two *)
(* jobs share a circuit: c->current belongs to the circuit.  The run       *)
(* event_loop_shared shows that the hypothesis is needed.                  *)
(***************************************************************************)
THEOREM JobResumesWhereItWaited ==
  ASSUME MayWait, OneJobPerCircuit
  PROVE  LoopSpec => ResumesWhereItWaited
  <1>1. LoopInit => ResumeInv
    BY DEF LoopInit, ResumeInv
  <1>2. ASSUME LoopInv, ResumeInv, [LoopNext]_allVars
        PROVE  /\ ResumeInv'
               /\ \A j \in Jobs :
                    (job[j] = "waiting" /\ job'[j] = "running") =>
                      current'[CircOf[j]] = waitedAt[j]
    <2>1. CASE UNCHANGED <<current, job, waitedAt>>
      BY <1>2, <2>1 DEF ResumeInv
    <2>2. ASSUME NEW k \in Jobs, Moves(k)
          PROVE  /\ ResumeInv'
                 /\ \A j \in Jobs :
                      (job[j] = "waiting" /\ job'[j] = "running") =>
                        current'[CircOf[j]] = waitedAt[j]
      <3>1. ASSUME NEW j \in Jobs, j # k
            PROVE  /\ job'[j] = job[j] /\ waitedAt'[j] = waitedAt[j]
                   /\ current'[CircOf[j]] = current[CircOf[j]]
        BY <2>2, <3>1, CircuitFacts DEF Moves, OneJobPerCircuit
      <3>2. job'[k] = "waiting" =>
              current'[CircOf[k]] = waitedAt'[k] /\ waitedAt'[k] # 0
        BY <2>2 DEF Moves
      <3>3. (job[k] = "waiting" /\ job'[k] = "running") =>
              current'[CircOf[k]] = waitedAt[k]
        BY <1>2, <2>2 DEF Moves, ResumeInv
      <3> QED
        BY <1>2, <3>1, <3>2, <3>3 DEF ResumeInv
    <2> QED
      BY <1>2, <2>1, <2>2, StepMoves
  <1>3. LoopInv /\ ResumeInv /\ [LoopNext]_allVars => ResumeInv'
    BY <1>2
  <1>4. LoopInv /\ ResumeInv /\ [LoopNext]_allVars =>
          [\A j \in Jobs :
             (job[j] = "waiting" /\ job'[j] = "running") =>
                current'[CircOf[j]] = waitedAt[j]]_allVars
    BY <1>2
  <1> QED
    BY <1>1, <1>3, <1>4, AlwaysLoopInv, PTL DEF LoopSpec, ResumesWhereItWaited

-----------------------------------------------------------------------------
(* No waiting job is abandoned.                                            *)

\* The loop returned OK for a program that wants to work: nothing was counted.
ReturnInv ==
  (pc = "returned" /\ ret = "OK" /\ status = "working") => waiting = 0

\* Every step keeps it.
LEMMA StepReturnInv ==
  ASSUME LoopInv, ReturnInv, [LoopNext]_allVars
  PROVE  ReturnInv'
  <1>1. CASE pc' # "returned"
    BY <1>1 DEF ReturnInv
  <1>2. CASE loop_check
    BY <1>2 DEF loop_check, ReturnInv, evVars, memory
  <1>3. CASE signal
    BY <1>3 DEF signal, ReturnInv
  <1>4. CASE UNCHANGED allVars
    BY <1>4 DEF allVars, loopVars, evVars, memory, ReturnInv
  <1>5. ASSUME NEW j \in Jobs, element(j) PROVE pc' # "returned"
    <2>1. run = j /\ pc' = pc /\ j # NULL
      BY <1>5, CircuitFacts
      DEF element, readA_data, readA_error, readA_wait, writeA_data,
          writeA_error, writeA_wait, task, Running, waitA, NoWait
    <2> QED
      BY <2>1 DEF LoopInv, LoopRest, ControlInv
  <1>6. ASSUME NEW ev \in events, loop_run(ev) \/ loop_error(ev)
        PROVE  pc' # "returned"
    BY <1>6 DEF loop_run, loop_error, Goto
  <1>7. ASSUME NEW j \in Jobs, main_run(j) \/ peer(j) PROVE pc' # "returned"
    BY <1>7 DEF main_run, peer, Goto
  <1>8. CASE \/ main_init \/ main_init_fails \/ main_loop \/ main_deinit
             \/ loop_block \/ loop_wait \/ loop_next
    BY <1>1, <1>8
    DEF main_init, main_init_fails, main_loop, main_deinit, loop_block,
        loop_wait, loop_next, Goto, loopVars
  <1> QED
    BY <1>1, <1>2, <1>3, <1>4, <1>5, <1>6, <1>7, <1>8 DEF LoopNext, ProcessStep

(***************************************************************************)
(* The loop does not return OK, while the program wants to work, with a    *)
(* job still waiting, when the table has a slot for every file.  Without   *)
(* it the run event_loop_overflow shows a job abandoned.                   *)
(***************************************************************************)
THEOREM NoJobAbandoned ==
  ASSUME EnoughSlots
  PROVE  LoopSpec => []NoWaiterAbandoned
  <1>1. MayWait
    BY DEF MayWait
  <1>2. LoopInit => ReturnInv
    BY DEF LoopInit, ReturnInv
  <1>3. ASSUME LoopInv, ReturnInv PROVE NoWaiterAbandoned
    <2> SUFFICES ASSUME pc = "returned", waiting = 0, NEW j \in Jobs,
                        job[j] = "waiting"
                 PROVE  FALSE
      BY <1>3 DEF ReturnInv, NoWaiterAbandoned
    <2>1. epfd = "open"
      BY <1>3 DEF LoopInv, LoopRest, ControlInv
    <2>2. Occupied = {}
      BY <1>3, <2>1, OccupiedFinite, FS_EmptySet
      DEF LoopInv, RefInv, EvInv, CounterExact
    <2>3. DOMAIN heap = {}
      BY <1>3, <2>1, <2>2, EvAssumption
      DEF LoopInv, LoopRest, RoomInv, OneBagEach, InTable, Occupied, RefInv,
          EvInv, EvTypeOK
    <2>4. Armed = {} /\ events = {}
      BY <1>3, <2>1, <2>3 DEF LoopInv, RefInv, EvInv, WatchInv
    <2> QED
      BY <1>3, <2>1, <2>4 DEF LoopInv, LoopRest, WaiterInv
  <1>4. LoopInv /\ ReturnInv /\ [LoopNext]_allVars => ReturnInv'
    BY StepReturnInv
  <1> QED
    BY <1>1, <1>2, <1>3, <1>4, AlwaysLoopInv, PTL DEF LoopSpec
=============================================================================
