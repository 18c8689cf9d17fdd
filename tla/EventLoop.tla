------------------------------ MODULE EventLoop ------------------------------
(***************************************************************************)
(* meloop/io.c on top of Ev: meloop_io_loop, waitA, readA and writeA, with *)
(* runA, returnA and errorA of meloop/arrow.c, which run the elements of a *)
(* circuit for a job.                                                      *)
(*                                                                         *)
(* A job is one (circuit, state, data) triple that the program runs with   *)
(* RUN_A: one open file on its way through a circuit.  Several jobs may    *)
(* run through one circuit, and the circuit has one c->current for all.    *)
(* Descriptor and job have the same name: Fds = Jobs.                      *)
(*                                                                         *)
(* An element runs in one step.  Between two steps the peers of the files  *)
(* and the signal handler may act.                                         *)
(***************************************************************************)
EXTENDS Ev, Sequences

CONSTANTS
  Circuits,
  CircOf,         \* The circuit each job runs through.
  Net,            \* The elements of each circuit: "read", "write" or "task".
  Back,           \* Where its last element leads: 0 (NULL) or an index.
  FatalCircuits,  \* Whose error callback makes the program stop.
  MaxIn,          \* Bounds the chunks a peer sends in all.
  MaxSignals      \* Bounds the signals.

ASSUME EventLoopAssumption ==
  /\ Fds = Jobs
  /\ NULL \notin Jobs
  /\ CircOf \in [Jobs -> Circuits]
  /\ \A c \in Circuits : /\ Net[c] \in Seq({"read", "write", "task"})
                         /\ Len(Net[c]) > 0
                         /\ Back[c] \in 0..Len(Net[c])
  /\ FatalCircuits \subseteq Circuits
  /\ MaxIn \in Nat
  /\ MaxSignals \in Nat

VARIABLES
  pc,         \* Where main is: "init", "main", the loop's "check", "poll",
              \* "blocked" and "dispatch", then "returned" and "deinit".
  run,        \* The job whose element is running, or NULL.
  current,    \* c->current, an index into Net[c], or 0 for NULL.
  status,     \* *status: "working", or one of the two exit codes.
  ret,        \* What meloop_io_loop returns.
  job,        \* Per job: "new", "running", "waiting", "done" or "failed".
  waitedAt,   \* Per job: the element that called waitA last (history).
  sock,       \* Per file: what the kernel holds for it.
  signals     \* Signals delivered.

program  == <<run, current, job, waitedAt>>
loopVars == <<pc, program, status, ret, sock, signals>>
allVars  == <<evVars, loopVars>>

TypeOK ==
  /\ EvTypeOK
  /\ pc \in {"init", "main", "check", "poll", "blocked", "dispatch",
             "returned", "deinit"}
  /\ run \in Jobs \cup {NULL}
  /\ current \in [Circuits -> Nat]
  /\ \A c \in Circuits : current[c] <= Len(Net[c])
  /\ status \in {"working", "EXIT_SUCCESS", "EXIT_FAILURE"}
  /\ ret \in {"OK", "ERR"}
  /\ job \in [Jobs -> {"new", "running", "waiting", "done", "failed"}]
  /\ waitedAt \in [Jobs -> Nat]
  /\ sock \in [Jobs -> [in : 0..MaxIn, left : 0..MaxIn, room : BOOLEAN,
                        hup : BOOLEAN, err : BOOLEAN, open : BOOLEAN]]
  /\ signals \in 0..MaxSignals

LoopInit ==
  /\ EvInit
  /\ pc = "init"
  /\ run = NULL
  /\ current = [c \in Circuits |-> 0]
  /\ status = "working"
  /\ ret = "OK"
  /\ job = [j \in Jobs |-> "new"]
  /\ waitedAt = [j \in Jobs |-> 0]
  \* A file that the program opens for the job; a full pipe has no room.
  /\ \E room \in [Jobs -> BOOLEAN] :
       sock = [j \in Jobs |-> [in |-> 0, left |-> MaxIn, room |-> room[j],
                              hup |-> FALSE, err |-> FALSE, open |-> TRUE]]
  /\ signals = 0

-----------------------------------------------------------------------------
(* arrow.c: running the elements of a circuit.                             *)

\* The element after element e of circuit c, 0 if there is none.
Following(c, e) == IF e = Len(Net[c]) THEN Back[c] ELSE e + 1

\* A bug: a circuit that is run anew starts over, wherever it waited.
runA_restarts(j) ==
  /\ current' = [current EXCEPT ![CircOf[j]] = 1]
  /\ run' = j
  /\ job' = [job EXCEPT ![j] = "running"]

\* The current element runs, the first one of a circuit that has none.
runA(j) ==
  LET c == CircOf[j] IN
  /\ current' = [current EXCEPT ![c] = IF current[c] = 0 THEN 1 ELSE @]
  /\ run' = j
  /\ job' = [job EXCEPT ![j] = "running"]

\* A bug: the element after the last one is not checked for.
returnA_runs_past(j) ==
  LET c == CircOf[j]
      n == current[c] + 1
  IN /\ current' = [current EXCEPT ![c] = n]
     /\ run' = IF n > Len(Net[c]) THEN NULL ELSE j
     /\ job' = [job EXCEPT ![j] = IF n > Len(Net[c]) THEN "done" ELSE @]

\* The next element runs, for the same job; after the last one, control goes
\* back to whoever ran the job.
returnA(j) ==
  LET c == CircOf[j]
      n == Following(c, current[c])
  IN /\ current' = [current EXCEPT ![c] = n]
     /\ run' = IF n = 0 THEN NULL ELSE j
     /\ job' = [job EXCEPT ![j] = IF n = 0 THEN "done" ELSE @]

\* A bug: an element goes on after its ERROR_A, for want of a return.
errorA_falls_through(j) ==
  LET c == CircOf[j] IN
  /\ current' = [current EXCEPT ![c] = 1]
  /\ run' = j
  /\ job' = [job EXCEPT ![j] = "failed"]
  /\ status' = IF c \in FatalCircuits THEN "EXIT_FAILURE" ELSE status

\* The error callback is told about the job, then the circuit has no current
\* element any more, whichever job that element was for.
errorA(j) ==
  LET c == CircOf[j] IN
  /\ current' = [current EXCEPT ![c] = 0]
  /\ run' = NULL
  /\ job' = [job EXCEPT ![j] = "failed"]
  /\ status' = IF c \in FatalCircuits THEN "EXIT_FAILURE" ELSE status

-----------------------------------------------------------------------------
(* io.c: the elements.                                                     *)

Running(j, kind) ==
  /\ run = j
  /\ epfd = "open"
  /\ Net[CircOf[j]][current[CircOf[j]]] = kind

\* waitA as the last thing an element does.
waitA(j, op) ==
  /\ \/ \E b \in Bags :
          /\ meloop_bag_new(b, j, j)
          /\ \/ /\ meloop_ev_arm(b, j, op)
                /\ run' = NULL
                /\ job' = [job EXCEPT ![j] = "waiting"]
                /\ UNCHANGED <<current, status>>
             \/ /\ meloop_ev_arm_fails
                /\ errorA(j)
          /\ UNCHANGED epfd
     \/ /\ exit
        /\ UNCHANGED <<run, job, current, status>>
  /\ waitedAt' = [waitedAt EXCEPT ![j] = current[CircOf[j]]]
  /\ UNCHANGED <<events, pc, ret, sock, signals>>

\* What an element leaves alone when it does not wait.
NoWait == UNCHANGED <<evVars, pc, ret, waitedAt, signals>>

\* A chunk is there: it is read and the next element gets it.
readA_data(j) ==
  /\ Running(j, "read")
  /\ ~sock[j].err
  /\ sock[j].in > 0
  /\ sock' = [sock EXCEPT ![j].in = @ - 1]
  /\ returnA(j)
  /\ UNCHANGED status
  /\ NoWait

\* The peer is gone and everything was read, or the read failed.  The file
\* stays open.
readA_error(j) ==
  /\ Running(j, "read")
  /\ sock[j].err \/ (sock[j].in = 0 /\ sock[j].hup)
  /\ errorA(j)
  /\ UNCHANGED sock
  /\ NoWait

\* EAGAIN.
readA_wait(j) ==
  /\ Running(j, "read")
  /\ ~sock[j].err /\ ~sock[j].hup
  /\ sock[j].in = 0
  /\ waitA(j, "EPOLLIN")

\* The kernel takes the chunk and may have no room for another.
writeA_data(j) ==
  /\ Running(j, "write")
  /\ ~sock[j].err
  /\ sock[j].room
  /\ \E room \in BOOLEAN : sock' = [sock EXCEPT ![j].room = room]
  /\ returnA(j)
  /\ UNCHANGED status
  /\ NoWait

writeA_error(j) ==
  /\ Running(j, "write")
  /\ sock[j].err
  /\ errorA(j)
  /\ UNCHANGED sock
  /\ NoWait

writeA_wait(j) ==
  /\ Running(j, "write")
  /\ ~sock[j].err
  /\ ~sock[j].room
  /\ waitA(j, "EPOLLOUT")

\* An element of the program's own: it returns or fails.
task(j) ==
  /\ Running(j, "task")
  /\ \/ returnA(j) /\ UNCHANGED status
     \/ errorA(j)
  /\ UNCHANGED sock
  /\ NoWait

element(j) ==
  \/ readA_data(j) \/ readA_error(j) \/ readA_wait(j)
  \/ writeA_data(j) \/ writeA_error(j) \/ writeA_wait(j)
  \/ task(j)

-----------------------------------------------------------------------------
(* main and meloop_io_loop.                                                *)

\* Control moves from one place to another while no element is running.
Goto(from, to) ==
  /\ pc = from
  /\ pc' = to
  /\ run = NULL
  /\ epfd # "exited"

main_init ==
  /\ Goto("init", "main")
  /\ meloop_ev_init
  /\ UNCHANGED <<program, status, ret, sock, signals>>

main_init_fails ==
  /\ pc = "init"
  /\ epfd = "none"
  /\ exit
  /\ UNCHANGED loopVars

\* RUN_A of the program, before the loop.
main_run(j) ==
  /\ Goto("main", "main")
  /\ job[j] = "new"
  /\ runA(j)
  /\ UNCHANGED <<evVars, waitedAt, status, ret, sock, signals>>

main_loop ==
  /\ Goto("main", "check")
  /\ \A j \in Jobs : job[j] # "new"
  /\ UNCHANGED <<evVars, program, status, ret, sock, signals>>

\* A bug: the loop goes on without asking for the status.
loop_check_ignores_status ==
  /\ run = NULL /\ epfd # "exited"
  /\ pc = "check"
  /\ pc' = IF waiting # 0 THEN "poll" ELSE "returned"
  /\ UNCHANGED <<evVars, program, status, ret, sock, signals>>

\* The condition of the while loop: *status > EXIT_FAILURE and
\* meloop_ev_more().
loop_check ==
  /\ run = NULL /\ epfd # "exited"
  /\ pc = "check"
  /\ pc' = IF status = "working" /\ waiting # 0 THEN "poll" ELSE "returned"
  /\ UNCHANGED <<evVars, program, status, ret, sock, signals>>

\* What epoll has to report for an armed descriptor.
Ready(fd) ==
  /\ interest[fd].on
  /\ \/ sock[fd].hup \/ sock[fd].err
     \/ interest[fd].op = "EPOLLIN" /\ sock[fd].in > 0
     \/ interest[fd].op = "EPOLLOUT" /\ sock[fd].room

\* The flag that meloop_io_loop looks at first.
FlagOf(fd) == IF sock[fd].hup THEN "EPOLLRDHUP"
              ELSE IF sock[fd].err THEN "EPOLLERR" ELSE "ready"

\* epoll_wait finds nothing and sleeps.
loop_block ==
  /\ Goto("poll", "blocked")
  /\ \A fd \in Fds : ~Ready(fd)
  /\ UNCHANGED <<evVars, program, status, ret, sock, signals>>

\* epoll_wait returns all that is ready, or as much as the array holds.
loop_wait ==
  LET ready == {fd \in Fds : Ready(fd)} IN
  /\ Goto("poll", "dispatch") \/ Goto("blocked", "dispatch")
  /\ \E reported \in SUBSET ready :
       /\ reported = ready \/ Cardinality(reported) = EV_MAXEVENTS
       /\ poll(reported)
       /\ \A ev \in events' : ev.flag = FlagOf(heap[ev.bag].fd)
  /\ UNCHANGED <<program, status, ret, sock, signals>>

\* A bug: the bag of a ready file is not freed.
loop_run_keeps_bag(ev) ==
  /\ Goto("dispatch", "dispatch")
  /\ ev.flag = "ready"
  /\ events' = events \ {ev}
  /\ UNCHANGED <<epfd, memory, interest>>
  /\ runA(heap[ev.bag].job)
  /\ UNCHANGED <<waitedAt, status, ret, sock, signals>>

\* A ready file: its job goes on.
loop_run(ev) ==
  /\ Goto("dispatch", "dispatch")
  /\ ev.flag = "ready"
  /\ take(ev)
  /\ runA(heap[ev.bag].job)
  /\ UNCHANGED <<waitedAt, status, ret, sock, signals>>

\* A file whose peer hung up or failed: it is closed, its job fails.  What
\* the peer sent before is lost.
loop_error(ev) ==
  /\ Goto("dispatch", "dispatch")
  /\ ev.flag # "ready"
  /\ take(ev)
  /\ errorA(heap[ev.bag].job)
  /\ sock' = [sock EXCEPT ![heap[ev.bag].fd].open = FALSE]
  /\ UNCHANGED <<waitedAt, ret, signals>>

\* A bug: the rest of the event array is dropped.
loop_next_drops ==
  /\ Goto("dispatch", "check")
  /\ events' = {}
  /\ UNCHANGED <<epfd, memory, interest, program, status, ret, sock, signals>>

loop_next ==
  /\ Goto("dispatch", "check")
  /\ events = {}
  /\ UNCHANGED <<evVars, program, status, ret, sock, signals>>

\* After the loop main ends; freeC follows (Circuit.tla).
main_deinit ==
  /\ Goto("returned", "deinit")
  /\ meloop_io_deinit
  /\ UNCHANGED <<program, status, ret, sock, signals>>

-----------------------------------------------------------------------------
(* The outside world.                                                      *)

\* The handler of SIGINT sets the status.  A signal that finds the program
\* asleep in epoll_wait makes it fail with EINTR, and the loop returns ERR.
signal ==
  /\ signals < MaxSignals
  /\ epfd = "open"
  /\ signals' = signals + 1
  /\ status' = "EXIT_SUCCESS"
  /\ IF pc = "blocked" THEN pc' = "returned" /\ ret' = "ERR"
                       ELSE UNCHANGED <<pc, ret>>
  /\ UNCHANGED <<evVars, program, sock>>

\* The peer of a file sends a chunk, makes room, shuts down or resets.  What it
\* does after the job is over, or the loop, concerns nobody.  It sends MaxIn
\* chunks at most: an echo job that is fed without end goes round readA and
\* writeA inside one call (arrow.c:229), and the loop never gets its turn.
peer(j) ==
  /\ job[j] \notin {"done", "failed"}
  /\ epfd = "open"
  /\ pc # "returned"
  /\ \/ /\ sock[j].left > 0 /\ ~sock[j].hup /\ ~sock[j].err
        /\ sock' = [sock EXCEPT ![j].in = @ + 1, ![j].left = @ - 1]
     \/ /\ ~sock[j].room
        /\ sock' = [sock EXCEPT ![j].room = TRUE]
     \/ /\ ~sock[j].hup
        /\ sock' = [sock EXCEPT ![j].hup = TRUE]
     \/ /\ ~sock[j].err
        /\ sock' = [sock EXCEPT ![j].err = TRUE]
  /\ UNCHANGED <<evVars, pc, program, status, ret, signals>>

\* The steps that the process takes by itself.
ProcessStep ==
  \/ main_init \/ main_init_fails \/ main_loop \/ main_deinit
  \/ \E j \in Jobs : main_run(j) \/ element(j)
  \/ loop_check \/ loop_block \/ loop_wait \/ loop_next
  \/ \E ev \in events : loop_run(ev) \/ loop_error(ev)

LoopNext == ProcessStep \/ signal \/ \E j \in Jobs : peer(j)

LoopSpec == LoopInit /\ [][LoopNext]_allVars

\* A process that can take a step takes one; peers and signals need not come.
LoopFairSpec == LoopSpec /\ WF_allVars(ProcessStep)

-----------------------------------------------------------------------------
(* Properties.                                                             *)

(***************************************************************************)
(* The loop uses ev.c as Ev says: every step of the program is a step of   *)
(* Ev or leaves it alone, so what is proved of Ev holds here.              *)
(***************************************************************************)
UsesEv == EvSpec

(***************************************************************************)
(* A job that waited in an element goes on in that same element: "A simple *)
(* bag which used by waitA to hold meloop's essential data" (ev.h:11) says *)
(* for which job, and c->current must still say where.                     *)
(***************************************************************************)
ResumesWhereItWaited ==
  [][\A j \in Jobs :
       (job[j] = "waiting" /\ job'[j] = "running") =>
          current'[CircOf[j]] = waitedAt[j]]_allVars

(***************************************************************************)
(* The error callback is the end of a job: it is told once, and afterwards *)
(* the job neither runs nor waits, so the callback may free its data.  And *)
(* the loop closes no file of a job that is not over.                      *)
(***************************************************************************)
FailedIsOver ==
  \A j \in Jobs : (job[j] = "failed" \/ ~sock[j].open) =>
    /\ job[j] = "failed"
    /\ run # j
    /\ epfd = "open" => /\ ~interest[j].on
                        /\ \A ev \in events : heap[ev.bag].job # j

(***************************************************************************)
(* The loop returns with OK while the program still wants to work only if  *)
(* no job is waiting: no counted bag is lost and no waiting job abandoned. *)
(***************************************************************************)
NoWaiterAbandoned ==
  (pc = "returned" /\ ret = "OK" /\ status = "working") =>
    \A j \in Jobs : job[j] # "waiting"

(***************************************************************************)
(* A waiting job whose file has become ready is run, or told of an error,  *)
(* unless the loop ends; for peers that send finitely much (see peer).     *)
(***************************************************************************)
ReadyIsServed ==
  \A j \in Jobs :
    (job[j] = "waiting" /\ Ready(j)) ~>
       (job[j] # "waiting" \/ pc \in {"returned", "deinit"} \/ epfd = "exited")

(***************************************************************************)
(* When every job is done or has failed, the loop ends and cleans up.  The *)
(* exception is a job that failed because epoll_ctl refused its file: its  *)
(* bag stays in the table, and the loop waits for it.                      *)
(***************************************************************************)
LoopEnds ==
  (DOMAIN heap = {} /\ \A j \in Jobs : job[j] \in {"done", "failed"}) ~>
     (pc = "deinit" \/ epfd = "exited")

(***************************************************************************)
(* When the error callback of a fatal circuit sets *status, the loop ends, *)
(* although other jobs still wait.                                         *)
(***************************************************************************)
FatalErrorStops ==
  (status = "EXIT_FAILURE") ~> (pc = "deinit" \/ epfd = "exited")

(***************************************************************************)
(* However a signal falls between the steps of the loop, the loop ends as  *)
(* soon as there is anything for it to handle.                             *)
(***************************************************************************)
SignalStopsAtNextEvent ==
  (signals > 0 /\ \E fd \in Fds : Ready(fd)) ~>
     (pc = "deinit" \/ epfd = "exited")

(***************************************************************************)
(* A signal ends the program: "Run desired example, signal it with CTRL+C" *)
(* (README.md:74).                                                         *)
(***************************************************************************)
SignalStops == (signals > 0) ~> (pc = "deinit" \/ epfd = "exited")
=============================================================================
