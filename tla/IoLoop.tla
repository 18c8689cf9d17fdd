------------------------------- MODULE IoLoop -------------------------------
(***************************************************************************)
(* The loop of meloop/io.c and the running of circuits of meloop/arrow.c,  *)
(* as the models of whole programs use them: on top of Waits, with one     *)
(* step per element, and without signals, which EventLoop.tla covers.      *)
(*                                                                         *)
(* A job is the data pointer that goes through a circuit.  An element that *)
(* has called into a circuit and has something left to do when that call   *)
(* comes back is the caller.                                               *)
(***************************************************************************)
EXTENDS Waits, Sequences

CONSTANTS
  Sockets,        \* The descriptors for which epoll reports EPOLLRDHUP.
  Circuits,
  Net,            \* The elements of each circuit, by the names of their tasks.
  Back,           \* Where its last element leads: 0 (NULL) or an index.
  FatalCircuits,  \* Whose error callback sets status to EXIT_FAILURE.
  ArmMayFail      \* Whether epoll_ctl may refuse a descriptor.

ASSUME IoLoopAssumption ==
  /\ Sockets \subseteq Fds
  /\ \A c \in Circuits : Len(Net[c]) > 0 /\ Back[c] \in 0..Len(Net[c])
  /\ FatalCircuits \subseteq Circuits
  /\ ArmMayFail \in BOOLEAN

VARIABLES
  run,       \* The job whose element is running, or NULL.
  caller,    \* The element that is waiting for run to come back, or NULL.
  current,   \* c->current, an index into Net[c], or 0 for NULL.
  status,    \* "working" or "EXIT_FAILURE".
  died,      \* "no", the signal that killed the process, or "undefined" once
             \* an element has been given data of another type.
  file       \* Kernel: what there is behind each descriptor.

control == <<run, caller, current>>
ioVars  == <<control, status, died, file>>

File == [open : BOOLEAN,  \* The descriptor is open.
         in   : Nat,      \* What can be read: chunks, connections, expiries.
         room : BOOLEAN,  \* Something can be written.
         hup  : BOOLEAN,  \* The peer has shut down.
         err  : BOOLEAN]  \* The connection has failed.

Closed == [open |-> FALSE, in |-> 0, room |-> FALSE, hup |-> FALSE,
           err |-> FALSE]

IoTypeOK ==
  /\ WaitsTypeOK
  /\ run \in Jobs \cup {NULL}
  /\ current \in [Circuits -> Nat]
  /\ \A c \in Circuits : current[c] <= Len(Net[c])
  /\ status \in {"working", "EXIT_FAILURE"}
  /\ died \in {"no", "SIGSEGV", "SIGPIPE", "undefined"}
  /\ file \in [Fds -> File]

IoInit ==
  /\ WaitsInit
  /\ run = NULL
  /\ caller = NULL
  /\ current = [c \in Circuits |-> 0]
  /\ status = "working"
  /\ died = "no"

Alive == epfd = "open" /\ died = "no"
Idle  == Alive /\ run = NULL /\ caller = NULL

\* Element kind of circuit c is running for job j.
Runs(c, j, kind) ==
  /\ Alive
  /\ run = j
  /\ current[c] # 0
  /\ Net[c][current[c]] = kind

-----------------------------------------------------------------------------
(* arrow.c.                                                                *)

Following(c, e) == IF e = Len(Net[c]) THEN Back[c] ELSE e + 1

runA(c, j) ==
  /\ current' = [current EXCEPT ![c] = IF @ = 0 THEN 1 ELSE @]
  /\ run' = j

\* The next element runs, with the data that this one hands on.  Nobody checks
\* that there is a current element: without one, NULL is dereferenced.
returnA(c, data) ==
  IF current[c] = 0
  THEN /\ died' = "SIGSEGV"
       /\ UNCHANGED <<run, current>>
  ELSE LET n == Following(c, current[c]) IN
       /\ current' = [current EXCEPT ![c] = n]
       /\ run' = IF n = 0 THEN NULL ELSE data
       /\ UNCHANGED died

\* A bug: the current element is one for all circuits.
errorA_clears_all(c) ==
  /\ current' = [x \in Circuits |-> 0]
  /\ run' = NULL
  /\ status' = IF c \in FatalCircuits THEN "EXIT_FAILURE" ELSE status

\* What the error callback does beyond the status is up to the program.
errorA(c) ==
  /\ current' = [current EXCEPT ![c] = 0]
  /\ run' = NULL
  /\ status' = IF c \in FatalCircuits THEN "EXIT_FAILURE" ELSE status

-----------------------------------------------------------------------------
(* io.c.                                                                   *)

\* waitA as the last thing an element does, when the descriptor gets armed.
waitA(j, fd, op) ==
  /\ arm(fd, j, op)
  /\ run' = NULL
  /\ UNCHANGED <<current, status>>

\* waitA when it is not: the program's error callback comes next.
waitA_fails(c) ==
  /\ ArmMayFail
  /\ refuse
  /\ errorA(c)

\* waitA in a circuit whose error callback does no more than set the status.
\* It exits the process when there is no memory for a bag.
waits(c, j, fd, op) ==
  \/ waitA(j, fd, op)
  \/ waitA_fails(c)
  \/ exit /\ UNCHANGED <<run, current, status>>

\* What read and write find.
Again(fd)   == ~file[fd].err /\ ~file[fd].hup /\ file[fd].in = 0
HasData(fd) == ~file[fd].err /\ file[fd].in > 0
AtEnd(fd)   == file[fd].err \/ (file[fd].hup /\ file[fd].in = 0)
Full(fd)    == ~file[fd].err /\ ~file[fd].room
HasRoom(fd) == ~file[fd].err /\ file[fd].room

Ready(fd) ==
  /\ armed[fd] # NULL
  /\ \/ file[fd].hup \/ file[fd].err
     \/ armed[fd].op = "EPOLLIN" /\ file[fd].in > 0
     \/ armed[fd].op = "EPOLLOUT" /\ file[fd].room

FlagOf(fd) == IF file[fd].hup /\ fd \in Sockets THEN "EPOLLRDHUP"
              ELSE IF file[fd].err THEN "EPOLLERR" ELSE "ready"

\* The loop goes on, and epoll_wait reports what is ready.
loop_wait ==
  LET ready == {fd \in Fds : Ready(fd)} IN
  /\ Idle
  /\ status = "working" /\ count # 0
  /\ \E reported \in SUBSET ready :
       /\ reported = ready \/ Cardinality(reported) = EV_MAXEVENTS
       /\ poll(reported)
       /\ \A ev \in batch' : ev.flag = FlagOf(ev.fd)
  /\ UNCHANGED ioVars

\* A ready descriptor: its job goes on.
loop_run(c, ev) ==
  /\ Idle
  /\ ev.flag = "ready"
  /\ take(ev)
  /\ runA(c, ev.job)
  /\ UNCHANGED <<caller, status, died, file>>

\* A bug: the job of a descriptor in error goes on.
loop_close_runs_on(c, ev) ==
  /\ Idle
  /\ ev.flag # "ready"
  /\ take(ev)
  /\ runA(c, ev.job)
  /\ file' = [file EXCEPT ![ev.fd] = Closed]
  /\ UNCHANGED <<caller, status, died>>

\* A descriptor in error is closed; the program's error callback comes next.
\* Whatever could still be read is gone.
loop_close(c, ev) ==
  /\ Idle
  /\ ev.flag # "ready"
  /\ take(ev)
  /\ errorA(c)
  /\ file' = [file EXCEPT ![ev.fd] = Closed]
  /\ UNCHANGED <<caller, died>>

\* The loop ends, and main cleans up.
loop_end ==
  /\ Idle
  /\ status # "working" \/ count = 0
  /\ deinit
  /\ UNCHANGED ioVars

Stopped == epfd \in {"closed", "exited"} \/ died # "no"
=============================================================================
