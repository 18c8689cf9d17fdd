# meloop: a TLA+ verification project

meloop is a small C library for event-driven programs on Linux. A program
strings tasks (`readA`, `writeA`, `acceptA`, ...) into a *circuit*, runs a *job*
(an open file with its data) through it, and calls `meloop_io_loop`. A task that
would block packs its job into a *bag*, arms the file in epoll and returns; the
loop runs the circuit again when the file is ready.

This directory models the library and its example programs in TLA+, checks them
with TLC on small instances, and proves the safety properties that the runs check
with TLAPS for every size. Line numbers refer to `src/meloop` unless another directory is named.

## Inventory

| part | state | operations | what makes it correct |
|---|---|---|---|
| circuits, building (`arrow.c`) | a singly linked list of elements, open or closed, one `last` mark | `newC`, `appendA`, `bindA`, `loopA`, `freeC` | the net has the shape the comments draw; `freeC` frees each element once; calls return |
| circuits, running (`arrow.c`) | `c->current`, one per circuit | `runA`, `returnA`, `errorA` | a job goes on where it waited; its error callback is the end of it |
| event table (`ev.c`) | `_epfd`, `_bags[16]`, `_waitingbags`, bags on the heap, the epoll registrations | `meloop_bag_new`, `meloop_bag_free`, `meloop_bags_freeall`, `meloop_ev_init/arm/dearm/wait/more/deinit` | the counter is exact; the address epoll hands back is a live bag; nothing leaks |
| loop and files (`io.c`) | the event array, `*status` | `meloop_io_loop`, `waitA`, `readA`, `writeA`, `meloop_io_init/deinit` | ready files are served, the loop ends when it should and not before |
| TCP server (`tcp.c`, `examples/echoserver.c`) | listening socket, client counter, one worker circuit for all clients | `listenA`, `acceptA`, `client_connected`, `client_error` | each connection gets its bytes back; counters and descriptors balance |
| TCP client (`tcp.c`) | `priv->status`, the socket of the address being tried | `connectA`, `_connect_continue` | the circuit goes on exactly once per connection; no socket is lost, and none used after it is closed |
| timer (`timer.c`) | `t->status`, `t->fd` | `timeropenA`, `timersleepA` | every sleep ends |
| random (`random.c`) | the shared buffer | `randopenA`, `randreadA`, `randencA` | only lower-case letters come out; read errors are reported |
| pipes (`pipe.c`) | two descriptors | `pipereadA`, `pipewriteA` | as `readA` and `writeA` |
| TLS (`tls.c`, `openssl_helpers.c`) | `priv->tlsstatus`, `priv->ssl`, the context | `tlsA`, `tlsreadA`, `tlswriteA` | nothing is sent to an unverified peer; a hangup ends the program |
| tun/tap (`tuntap.c`) | the device and a control socket | `tunopenA` | no descriptor is lost on an error path |
| addresses, logging | - | formatting | - |

How they interact. Everything runs in one thread. The loop calls `runA`, which
calls a task, which calls `returnA` (the next task, recursively), `errorA` (the
program's callback) or `waitA` (`ev.c`, then back to the loop). What is hard
about it: between `waitA` and the event everything else may run, and two jobs of
one circuit share `c->current`; the event array is a snapshot of addresses while
handlers free and allocate bags; the table is bounded; `epoll_ctl` may fail
after the bag was entered; a signal handler writes `*status` between any two
instructions. PROJECT.json lists these hazards with their lines.

## Modules

* **NetShape** is the abstract specification of a circuit: a chain of `len`
  elements whose last one leads nowhere or back to element `back`.
* **Circuit** is `arrow.c`'s implementation with `next` pointers and `last`
  marks. An element is named by the order of its `malloc`. A function that walks
  the list takes one step per turn of its loop (`pc`, `e1`, `e1last`, `e2`,
  `e2last` are its control point and locals). `Shape` maps it to NetShape; while
  `bindA` runs, the new element is not yet part of the net.
* **CircuitBind** extends Circuit: `bindA` called by the program on two nets,
  each an open chain or a ring. Only here does the inner loop of `bindA` turn
  more than once.
* **Ev** is `ev.c`. `bags` is the table, `waiting` the counter, `heap` the
  allocated bags with their contents (addresses are reused), `interest` what
  epoll knows of each descriptor, `events` the part of the loop's event array
  not yet handled, as a set because epoll's order is not specified. The functions
  are operators; `wait`, `poll`, `take` and `meloop_io_deinit` compose them the
  way `io.c` does. A program initialises first and deinitialises last. `waiting`
  and an armed file are all it relies on, so which file is ready is left open.
* **EventLoop** extends Ev with `io.c`'s loop and tasks and `arrow.c`'s `runA`,
  `returnA`, `errorA`. `pc` is where `main` and the loop are, `run` the job whose
  task is running, `current` is `c->current`, `sock` what the kernel holds for
  each file (chunks to read, room to write, hangup, error). A task is one step,
  `waitA` and `errorA` included; peers and the signal act between steps. The
  three places where a signal matters, before the test of `*status`, after it
  and asleep in `epoll_wait`, are the control points `check`, `poll` and
  `blocked`. Job and descriptor have the same name; a descriptor number is not
  reused.
* **MCEventLoop** gives EventLoop's constants their values: an echo job (ring of
  read and write, as the echo server's worker) and a reply job (a task that may
  fail, then a write, then done); or two echo jobs that share one worker.
* **Waits** is the abstract specification of `ev.c`: per descriptor the wait that
  is armed, the count, and the reported waits. `Ev!ImplementsWaits` maps the table,
  the heap and the epoll registrations to it: a wait is counted when its bag is in
  the table.
* **IoLoop** builds the loop of `io.c` and the running of circuits on Waits, for
  models of whole programs. A circuit is a sequence of the names of its elements
  (`Net`) and where the last one leads (`Back`); an element is one step; a
  `returnA` without a current element is a SIGSEGV. An element that has called
  into a circuit and still has something to do is the `caller`. The test of
  `*status` and `epoll_wait` are one step; signals are left to EventLoop.
* **EchoServer** is `examples/echoserver.c` with `listenA` and `acceptA`: `conn`
  is where each connection is, `mem` what is allocated for it, `clients` the
  counter, `buf` the chunk in its buffer, `echoed` what was written back.
  `client_connected` runs the worker inside `acceptA`.
* **Streams** (`readA`, `writeA`, `pipe.c`, `random.c`), **TcpClient**
  (`connectA`), **Timer**, **Tls** (`tls.c`, `openssl_helpers.c`) and **Tuntap**
  are the other elements, each with the status it keeps. `data` is what the
  buffer holds that the structs of a program share. An element that opens a
  descriptor takes one step per call that can fail, and a descriptor that so far
  only a local of the function knows is state: `sockets` are those of `connectA`,
  by the address (`tries`) they were opened for; `tunfds` those of `tunopenA`,
  which has made `calls` calls. `file[fd].open` is the descriptor of a struct; a
  timer that is open and not yet set is `Unset`.
* **Clients** composes them into the programs that run one circuit: `echoclient`,
  `tlsclient`, `random`, `echoshell`, and a `tunnel` of `tunopenA` alone, which
  no example uses. The chosen program is `prog`. A job is a struct; `Takes` says
  which structs an element can be given, and an element given another one ends in
  "undefined". The peer of `echoclient` is an echo server; that of `tlsclient`
  answers with chunks; `user` is whoever is behind stdin and stdout.
* **CircuitProofs**, **CircuitBindProofs**, **EvProofs**, **EvRefinement**,
  **WaitsProofs**, **EventLoopProofs**, **EchoServerProofs** and **ClientsProofs**
  hold the theorems.

Operators whose comment starts with "A bug" are not part of the model: they are
plausible mistakes in the definition that follows, used to show that a property
can fail (PROJECT.json, "mutants").

## Runs

| run | bounds | shows |
|---|---|---|
| `circuit` | 5 elements, `loopA` on any of them, any order of calls | `NoUseAfterFree`, `NoLeak`; `ImplementsNetShape`; `CallReturns` on open nets and rings |
| `circuit_bind` | two nets of 1 to 3 elements, all four open/closed combinations | `BindDrawings`: the four drawings of the comment at arrow.c:123; `NoLeak`, `NoUseAfterFree`, `BindReturns` |
| `circuit_lasso` | 3 elements | **violated** `AnyCallReturns`: once a net is closed at a later element, `appendA`, or `loopA` on the first element, never returns |
| `circuit_loop_result` | 3 elements | **violated** `LoopResult`: `loopA` of a closed circuit returns `ERR`, which is -1; its comment (arrow.c:185) says 1 |
| `ev_pressure` | 2 descriptors, 2 jobs, 2 slots, 3 addresses, overlapping waits, failures, overflow | `CounterExact`, `NoDanglingBag` under all of them; `ImplementsWaits` |
| `event_loop` | 2 jobs, 2 slots, 1 chunk per peer, 1 signal, failing `epoll_ctl` and `malloc` | `ResumesWhereItWaited`, `FailedIsOver`, `NoWaiterAbandoned`, `UsesEv`, and the liveness properties `ReadyIsServed`, `LoopEnds`, `FatalErrorStops`, `SignalStopsAtNextEvent` |
| `event_loop_signal` | 1 signal | **violated** `SignalStops`: a signal between the test of `*status` (io.c:94) and `epoll_wait` does not end the program |
| `event_loop_shared` | one worker for 2 jobs | **violated** `ResumesWhereItWaited`: the jobs overwrite each other's `c->current` |
| `event_loop_overflow` | 1 slot for 2 jobs | **violated** `NoWaiterAbandoned`: the loop returns OK while a job waits |
| `echo_server` | 2 connections, 3 chunks between them, hangups, resets, full and short writes, failing `epoll_ctl` and `malloc` | `ClientsCounted`, `NoNullReturn`, `BuffersLive`, `EchoIsFaithful`, `KeepsListening`; `PendingAccepted` and `EchoArrives` |
| `echo_server_heap` | the same | **violated** `HeapFreed`: `client_error` does not free `conn` |
| `clients` | 2 addresses to try, 2 unread chunks, intervals -1, 0, 1, every failure | `SoundCalls`, `ResumesItsElement`, `LockStep`, `VerifiedBeforeRequest`; for descriptors `NoOrphans`, `OpensOnce`, `OpenWhileUsed`; `SleepEnds` and `HangupEnds` |

Why the bounds are enough. The walks of `arrow.c` tell elements apart only by
"first", "last", "NULL" and "the one I started from"; three elements give each
its own, five add two in between, and the theorems cover every size. In Ev, two
descriptors give the interference of one event with another (an address freed by
the first and reused before the second is handled). The table size 16 is a
constant of the model; overflow happens at any size with one more waiter. In
EventLoop two jobs are the least that can disturb each other; one chunk, a hangup and an error each reach every branch of
`readA`, `writeA` and the loop, and a file may start without room, so both kinds
of wait occur. One signal shows every place it can fall. In EchoServer two
connections share the worker, and three chunks let one of them send a second
chunk while the other waits for its first. In Clients a second address comes
after one that failed, a second unread chunk after a line that came in parts;
the rounds of the circuits are not bounded.

The liveness properties of the loop are for finite input. `MaxIn` bounds what peers
send in EventLoop and EchoServer, and `ReadyIsServed`, `PendingAccepted` and
`EchoArrives` need it: `readA` returns to `writeA`, which returns to `readA`, inside
one call (arrow.c:229), so a peer that never stops sending, and never lets a read or
a write wait, keeps the loop from every other job. In Clients `MaxIn` bounds only
what is unread.

`CHECK_DEADLOCK FALSE` everywhere: a program may stop after `freeC`, after
`meloop_io_deinit` or in `err(3)`, and a loop whose peers are silent sleeps.

Fairness. `WF(Turn)` in Circuit and `WF(bindTurn)` in CircuitBind: a C function
that was called keeps running. `WF(ProcessStep)` in EventLoop: the kernel
schedules a runnable process; so do `WF(ServerStep)` in EchoServer and
`WF(ProgramStep)` in Clients, where `WF(Tick)` says that an armed timer expires.
Peers and signals are never assumed to act. While
the process sleeps in `epoll_wait` with nothing ready, no process step is
enabled, so fairness does not wake it.

## Proofs

Every invariant and every action property of a passing run is a theorem, and so
are the three refinements: `Circuit` implements `NetShape`, `Ev` implements
`Waits`, and the loop is a user of `Ev` (`UsesEv`). The proofs hold for every
value of the constants that satisfies the ASSUMEs of the modules, which TLC
evaluates on each run:

| assumption | says |
|---|---|
| `MaxElementsAssumption`, `LoopAtAssumption`, `SizesAssumption` | at least one element; `loopA` is given elements; the two nets of `CircuitBind` fit |
| `EvAssumption`, `NullAssumption`, `WaitsAssumption` | at least one slot; `NULL` is not an address, a registration or a wait |
| `EventLoopAssumption`, `IoLoopAssumption` | circuits have elements, and lead back to one of them or end |
| `EchoServerAssumption`, `EchoCircuitsAssumption` | finitely many connections, each with a descriptor and a struct of its own; the circuits are those of `echoserver.c` |
| `ClientsAssumption`, `ProgramsAssumption`, `TcpClientAssumption`, `TimerAssumption` | the circuits are those of the example programs; how many addresses are tried, how much is unread and the intervals are open |

A few theorems need more than that, as an `ASSUME` of their own. A run shows what
happens without the first two of them.

| hypothesis | theorems | without it |
|---|---|---|
| `EnoughSlots`: a slot for every descriptor | `NoJobAbandoned`, `DeinitFreesAll`, `TableCountsTheWatched` | `event_loop_overflow` |
| `OneJobPerCircuit` | `JobResumesWhereItWaited` | `event_loop_shared` |
| `~ArmMayFail` | `TableCountsTheWatched` | the refused `epoll_ctl` of "Divergences" |
| `~Overlap`: a program waits once per descriptor | `DeinitFreesAll`, `TableCountsTheWatched` | a second wait for a descriptor leaves the bag of the first counted |
| `Cardinality(Conns) < EV_MAXEVENTS` | `ServerKeepsListening` | the listener's wait may be one that is not counted |
| `MayWait`: `Overlap \/ EnoughSlots` | the other theorems of EventLoopProofs | a program that promised ev.c not to overlap could break its promise after an uncounted wait |

The inductive invariants, each checked by TLC on the run's instance before it was
proved:

* **CircuitProofs** (`MaxElements` arbitrary, `LoopAt` any set of elements).
  `NoUseAfterFree` and `NoLeak` say nothing about pointers, so they are not
  inductive. `IInv` adds `ChainInv` (element *i* of the bound elements leads to
  *i+1* and only the last carries the mark, which is where freeE stops), `WalkInv`
  (where each walk is, and that the element being bound is the newest and alone)
  and `FreedInv` (what is freed is a prefix of the chain). The lemmas
  `BindWalk`, `LoopWalk` and `FreeWalk` say what a walk can see; one lemma per
  function shows that it keeps `IInv`. Theorems: `TypeCorrect`, `MemorySafety`,
  `NothingLeaks`, and `Refinement`: every step is a step of NetShape or a
  stutter.
* **CircuitBindProofs** (two nets of any sizes). `BindInv` says that `bindA` touches
  only the last elements of the two nets (`InnerInv`) and where its two walks are
  (`WalkInv`). `FirstWalk` and `SecondWalk` are the heart: a walk that stops at
  NULL or at the element it started from is at the last element of its net.
  Theorems: `BindAsDrawn`, `BindMemorySafety`, `BindLeaksNothing`.
* **EvProofs** (any number of descriptors, addresses and slots, failures and
  overlapping waits allowed). `CounterIsExact` needs that remember and free
  change exactly one slot (`RememberCounts`, `FreeCounts`, with the cardinality
  theorems of the library). `BagsNeverDangle` needs `WatchInv`: a bag holds the
  descriptor it is registered for, which is why two descriptors reported
  together cannot have the same bag.
* **EvRefinement** shows that each step of Ev is a step of Waits or a stutter. Beyond
  EvProofs it needs `TableInv`: every bag in the table is allocated and is in it
  once, so that `malloc` cannot return the address of a counted bag, and freeing one
  uncounts one wait. `CountedAreWatched` and `NoBagLeak` need `OneBagEach` (a
  descriptor has at most one bag, and it is in the table) and `AllWatched`. These two
  hold for well-behaved programs only, and have theorems and no run.
* **WaitsProofs** proves `WaitsTypeCorrect`. That `count` does not become negative
  needs `ShareInv`: the counted waits, armed and reported, are no more than `count`
  says. EchoServerProofs and ClientsProofs use its lemmas.
* **EventLoopProofs** adds `LoopRest` to `RefInv` of Ev: which `pc` goes with which
  state of the epoll instance, that the running job is the only one, and `WaiterInv`,
  that the waiting jobs are exactly those whose descriptor is armed or reported.
  From it follow `LoopUsesEv`, `FailedJobIsOver` and, with an invariant each
  (`ResumeInv`: a waiting job's circuit is where it was; `ReturnInv`: nothing waits
  when the loop returns OK), `JobResumesWhereItWaited` and `NoJobAbandoned`.
* **EchoServerProofs** (any number of connections). `EchoInv` says that a job is at
  one place at a time (`PlaceInv`), that only live connections are anywhere and have
  their memory (`ConnInv`), that `clients` counts them (`CountInv`), and where the
  listener is (`ServerInv`). `FaithInv` relates, per connection, what was sent to
  what is in the kernel, in the buffer of the element that runs and echoed;
  `SlotsInv` bounds the count by the jobs that can have a part in it.
* **ClientsProofs**. `Given` names the struct that each element of a program is given;
  `ProgramsFit` shows that the chains, with their back edges, hand on what the next
  element takes. `ControlInv` says that the element that runs, or the one wait there
  is, has the struct of the current element; every element returns, fails, waits or
  dies (`Moves`), and `MovesKeep` shows once that each of these keeps `ControlInv`.
  `LockInv` places the line of `echoclient` in its round: an echo is owed, or there to
  be read, only while `readA` has the turn. `TlsInv` says that OpenSSL is up only with
  a verified peer. The three theorems about descriptors (`NoDescriptorLost`,
  `DescriptorsOpenedOnce`, `DescriptorsOpenWhileUsed`) need a second invariant,
  `FdInv`: that an element finds its descriptor open, or not yet open, depends on how
  the program got to it. `PlaceInv` says, for each place of a program, what is open
  there: what elements before it open is, what elements from it on open is not
  (`Fresh`), with `connectA` in between while it waits. The back edges keep it since
  they lead behind every element that opens; an error keeps it since it leaves no
  current element. `ArmedInv` says that only what is open is armed or reported, and
  that a program that is not running is at an element that waits; `OpeningInv` is
  `NoOrphans` with its reasons. The hard case is a `connectA` that returns twice: two
  waits can then be under way, and after an error of the first the second starts the
  circuit over (arrow.c:258), at its first element with a struct that this element
  does not take. `Restarted` is that state, which only undefined behaviour leaves, and
  `ImmediateInv` confines it to `echoclient`.

Only model-checked: the liveness properties (`CallReturns`, `BindReturns`,
`ReadyIsServed`, `LoopEnds`, `FatalErrorStops`, `SignalStopsAtNextEvent`,
`PendingAccepted`, `EchoArrives`, `SleepEnds`, `HangupEnds`), since fairness and
ENABLED are beyond the prover; and the six violations, which are counterexamples.

## Divergences met while modelling, without a run of their own

* The comment of `loopA` (arrow.c:182) calls it sugar for `bindA(e2, e1)`; `bindA` clears
  the `last` mark that `loopA` sets, and `freeC` of such a circuit does not stop.
* A refused `epoll_ctl` (io.c:17) leaves a counted bag behind: the loop then
  never ends by itself. `LoopEnds` makes the exception explicit.
* When `connect` succeeds at once, `connectA` returns to its circuit twice
  (tcp.c:121 and 206). In `echoclient` two waits are then under way and
  `timersleepA` can be given the connection; `SoundCalls`, `ResumesItsElement`
  and `LockStep` name this exception (`immediate`).
* `randreadA` compares an unsigned size with 0 (random.c:35): a failed read is
  SIZE_MAX bytes, and `randencA` runs off the buffer. The exception of
  `SoundCalls`.
* `tlsreadA` and `tlswriteA` assign in their conditions (tls.c:29, 57): they wait
  after every failure. A broken session spins until the peer hangs up.
* `echoshell` gives its `pipeS` to `writeA`, which takes `rfd` for `fd` and writes
  the echo to stdin.
* The control socket of `_configure_interface` (tuntap.c:52) is never closed; the
  exception of `NoOrphans`.
* A failing `getsockopt` (tcp.c:97) leaves the socket of `conn` open; `NoOrphans` says
  nothing of a socket that `conn` has got, since `main` may still close it.
* Each `main` replaces the EXIT_FAILURE of its error callback by EXIT_SUCCESS when
  the loop returns OK (echoserver.c:137 and the others).

## Not modelled

Descriptor numbers reused after `close`, `EPOLLHUP` on a socket without
`EPOLLRDHUP`, the depth of the recursion from `returnA`, an error callback that
runs a circuit itself, a second `meloop_io_init`, a stale `errno` at tcp.c:192,
the exit code of `main`, the letters of `randencA`, what `printA` and
`greetingA` print, the text of prompts and requests, counters, the messages of `errorA`, logging and address formatting.
`nfds == 0` (io.c:102) cannot happen without a timeout, nor `case OK` in `tlsA`
(tls.c:93), since `SSL_get_error` is not 0 after a failure. Signals are in
EventLoop only.

## Plan

1. Done: the core (Circuit, CircuitBind, Ev, EventLoop), Waits and the programs
   (IoLoop, EchoServer, Clients), and a theorem for every safety property of a passing
   run.
2. Left: the hazards of PROJECT.json without a property. Most of them are modelled, and
   excepted by name in the property that would speak of them; a program that closes
   a circuit with `bindA(last, first)` is one a model could still reach. And safety lemmas
   behind the liveness properties, such as a bound on the walks of `bindA`.
