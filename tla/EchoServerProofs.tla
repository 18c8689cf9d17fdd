-------------------------- MODULE EchoServerProofs --------------------------
(***************************************************************************)
(* Proofs about EchoServer, for any number of connections, chunks and      *)
(* waits, with epoll_ctl failures and without memory: the counter of       *)
(* clients is exact, buffers are freed once, acceptA returns to a circuit  *)
(* that has a current element, what is echoed is what was sent, and the    *)
(* server keeps listening.                                                 *)
(***************************************************************************)
EXTENDS EchoServer, WaitsProofs, SequenceTheorems

-----------------------------------------------------------------------------
(* The inductive invariant.                                                *)

\* Job j waits: its descriptor is armed, or reported and not handled yet.
Waiting(j) == armed[j] # NULL \/ \E ev \in batch : ev.fd = j

\* EchoTypeOK without Waits; echoed is a sequence.
ServerTypes ==
  /\ run \in Jobs \cup {NULL}
  /\ caller \in {NULL, "acceptA"}
  /\ current \in [Circuits -> 0..2]
  /\ status \in {"working", "EXIT_FAILURE"}
  /\ died \in {"no", "SIGSEGV", "SIGPIPE", "undefined"}
  /\ file \in [Fds -> File]
  /\ conn \in [Conns -> {"new", "pending", "live", "over"}]
  /\ mem \in [Conns -> {"none", "all", "some", "twice"}]
  /\ clients \in Nat
  /\ oom \in BOOLEAN

DataTypes ==
  /\ sent \in [Conns -> 0..MaxIn]
  /\ buf \in [Conns -> 0..MaxIn]
  /\ echoed \in [Conns -> Seq(1..MaxIn)]
  /\ stalled \in BOOLEAN

\* Before main has run, nothing has happened.
StartInv ==
  epfd = "none" =>
    /\ run = NULL /\ caller = NULL /\ died = "no" /\ ~oom /\ count = 0
    /\ \A j \in Jobs : ~Waiting(j)

\* A job is at one place at a time: it runs, or it is armed, or it is in the
\* batch once, or, the listener, it waits for client_connected to come back.
PlaceInv ==
  /\ \A j \in Jobs : armed[j] # NULL => armed[j].job = j
  /\ \A ev \in batch : ev.job = ev.fd /\ armed[ev.fd] = NULL
  /\ \A ev1, ev2 \in batch : ev1.fd = ev2.fd => ev1 = ev2
  /\ \A j \in Jobs : run = j => ~Waiting(j)
  /\ (caller = "acceptA" /\ died = "no") => run # Listener /\ ~Waiting(Listener)

\* Only a live connection is run, armed or reported, and its memory is there.
ConnInv ==
  \A j \in Conns :
    /\ (run = j \/ Waiting(j)) => conn[j] = "live"
    /\ conn[j] = "live" => mem[j] = "all"
    /\ conn[j] \in {"new", "pending"} => mem[j] = "none"
    /\ mem[j] # "twice"

Live    == {j \in Conns : conn[j] = "live"}
Pending == {j \in Conns : conn[j] = "pending"}

\* The counter is exact, but for the one connection that a client_connected
\* without memory leaves counted; after that the server is as good as dead.
CountInv ==
  /\ ~oom => clients = Cardinality(Live)
  /\ oom => clients = Cardinality(Live) + 1 /\ \E j \in Conns : conn[j] = "over"
  /\ oom => \/ died # "no"
            \/ run = NULL /\ caller = "acceptA" /\ current["server"] = 0

\* acceptA has a current element to return to, and the listener is somewhere.
ServerInv ==
  /\ caller = "acceptA" /\ ~oom => current["server"] = 2
  /\ died = "SIGSEGV" => oom
  /\ (Alive /\ status = "working") =>
       run = Listener \/ caller = "acceptA" \/ Waiting(Listener)

\* The kernel holds no more than was sent, and the backlog all that is pending.
KernelInv ==
  /\ \A j \in Conns : file[j].in <= sent[j]
  /\ \A j \in Conns : conn[j] = "new" => sent[j] = 0 /\ echoed[j] = << >>
  /\ Cardinality(Pending) <= file[Listener].in

\* Chunk by chunk: what was read of a connection is echoed, but for the chunk
\* that writeA is about to write.
Writing(j) == run = j /\ current["worker"] = 2

FaithInv ==
  ~stalled =>
    /\ current["worker"] = 2 => run \in Conns
    /\ \A j \in Conns : \A i \in 1..Len(echoed[j]) : echoed[j][i] = i
    /\ \A j \in Conns : (conn[j] # "over" /\ ~Writing(j)) =>
         Len(echoed[j]) + file[j].in = sent[j]
    /\ \A j \in Conns : Writing(j) =>
         /\ Len(echoed[j]) + file[j].in + 1 = sent[j]
         /\ buf[j] = Len(echoed[j]) + 1

\* The jobs that can have a part in the counter of waits.
Busy == {j \in Jobs : Waiting(j)} \cup {j \in Conns : conn[j] = "over"}

\* With a slot for every job, each wait is counted.
SlotsInv ==
  (Cardinality(Conns) < EV_MAXEVENTS /\ epfd = "open" /\ status = "working") =>
    /\ count <= Cardinality(Busy)
    /\ \A j \in Jobs : armed[j] # NULL => armed[j].counted
    /\ \A ev \in batch : ev.counted

EchoInv ==
  /\ WaitsInv /\ ServerTypes /\ DataTypes
  /\ StartInv /\ PlaceInv /\ ConnInv /\ CountInv /\ ServerInv
  /\ KernelInv /\ FaithInv /\ SlotsInv

-----------------------------------------------------------------------------
(* The circuits.                                                           *)

\* The two circuits of echoserver.c, and what follows each element.
LEMMA NetFacts ==
  /\ Circuits = {"server", "worker"} /\ FatalCircuits = {"server"}
  /\ Net["server"] = <<"listenA", "acceptA">>
  /\ Net["worker"] = <<"readA", "writeA">>
  /\ Following("server", 1) = 2 /\ Following("server", 2) = 2
  /\ Following("worker", 1) = 2 /\ Following("worker", 2) = 1
  <1>1. /\ Circuits = {"server", "worker"} /\ FatalCircuits = {"server"}
        /\ Net["server"] = <<"listenA", "acceptA">>
        /\ Net["worker"] = <<"readA", "writeA">>
        /\ Back["server"] = 2 /\ Back["worker"] = 1
    BY EchoCircuitsAssumption DEF EchoCircuits, EchoNet, EchoBack, EchoFatal
  <1>2. Len(Net["server"]) = 2 /\ Len(Net["worker"]) = 2
    BY <1>1
  <1> QED
    BY <1>1, <1>2 DEF Following

\* The listener and the connections are the jobs, each with a descriptor.
LEMMA JobFacts ==
  /\ Fds = Jobs /\ Listener \in Jobs /\ Conns \subseteq Jobs
  /\ Listener \notin Conns /\ NULL \notin Jobs /\ Listener # NULL
  /\ NULL # "acceptA" /\ IsFiniteSet(Conns)
  /\ \A j \in Jobs : j = Listener \/ j \in Conns
  /\ \A j \in Conns : j # Listener /\ j # NULL
  BY EchoServerAssumption

\* Each element runs at its place in its circuit.
LEMMA RunsFacts ==
  ASSUME ServerTypes, NEW j
  PROVE  /\ Runs("server", j, "listenA") => current["server"] = 1
         /\ Runs("server", j, "acceptA") => current["server"] = 2
         /\ Runs("worker", j, "readA") => current["worker"] = 1
         /\ Runs("worker", j, "writeA") => current["worker"] = 2
  <1>1. current["server"] \in 0..2 /\ current["worker"] \in 0..2
    BY NetFacts DEF ServerTypes
  <1>2. /\ current["server"] # 0 => current["server"] \in {1, 2}
        /\ current["worker"] # 0 => current["worker"] \in {1, 2}
    BY <1>1
  <1>3. /\ Net["server"][1] = "listenA" /\ Net["server"][2] = "acceptA"
        /\ Net["worker"][1] = "readA" /\ Net["worker"][2] = "writeA"
    BY NetFacts
  <1> QED
    BY <1>2, <1>3 DEF Runs

\* Control after RETURN_A of an element that runs at place e of circuit c.
LEMMA ReturnFacts ==
  ASSUME ServerTypes, NEW c \in Circuits, NEW j \in Jobs, NEW e \in {1, 2},
         current[c] = e, returnA(c, j)
  PROVE  /\ run' = j /\ died' = died
         /\ current' \in [Circuits -> 0..2]
         /\ current'[c] = Following(c, e)
         /\ \A d \in Circuits : d # c => current'[d] = current[d]
  <1>1. Following(c, e) \in {1, 2}
    BY NetFacts
  <1>2. current' = [current EXCEPT ![c] = Following(c, e)] /\ run' = j /\ died' = died
    BY <1>1 DEF returnA
  <1> QED
    BY <1>1, <1>2 DEF ServerTypes

\* Control after ERROR_A, and after runA.
LEMMA ErrorFacts ==
  ASSUME ServerTypes, NEW c \in Circuits, errorA(c)
  PROVE  /\ run' = NULL /\ current' \in [Circuits -> 0..2] /\ current'[c] = 0
         /\ \A d \in Circuits : d # c => current'[d] = current[d]
         /\ c = "server" => status' = "EXIT_FAILURE"
         /\ c = "worker" => status' = status
  BY NetFacts DEF errorA, ServerTypes

LEMMA RunFacts ==
  ASSUME ServerTypes, NEW c \in Circuits, NEW j, runA(c, j)
  PROVE  /\ run' = j /\ current' \in [Circuits -> 0..2]
         /\ current'[c] = IF current[c] = 0 THEN 1 ELSE current[c]
         /\ \A d \in Circuits : d # c => current'[d] = current[d]
  BY DEF runA, ServerTypes

-----------------------------------------------------------------------------
(* Steps that leave the waits and the connections alone.                   *)

\* The jobs that wait stay the same.
LEMMA SameWaits ==
  ASSUME UNCHANGED waitVars
  PROVE  /\ UNCHANGED <<epfd, armed, count, batch>>
         /\ \A j \in Jobs : Waiting(j)' <=> Waiting(j)
  BY DEF waitVars, Waiting

\* Control stays with its job, or ends, or goes back to acceptA.
LEMMA QuietPlaces ==
  ASSUME EchoInv, Alive, UNCHANGED <<waitVars, perClient>>,
         \/ run' = run /\ caller' = caller
         \/ run' = NULL /\ caller' = caller
         \/ run' = Listener /\ caller = "acceptA" /\ caller' = NULL,
         died' = "no" => died = "no",
         status' = "working" => status = "working"
  PROVE  WaitsInv' /\ StartInv' /\ PlaceInv' /\ ConnInv' /\ SlotsInv'
  <1>1. /\ UNCHANGED <<epfd, armed, count, batch, conn, mem, clients, oom>>
        /\ \A j \in Jobs : Waiting(j)' <=> Waiting(j)
        /\ epfd = "open" /\ died = "no"
    BY SameWaits DEF perClient, Alive
  <1>2. WaitsInv' /\ StartInv'
    BY <1>1, EndInv DEF EchoInv, StartInv
  <1>3. PlaceInv'
    BY <1>1, JobFacts DEF EchoInv, PlaceInv
  <1>4. ConnInv'
    BY <1>1, JobFacts DEF EchoInv, ConnInv
  <1>5. Busy' = Busy
    BY <1>1 DEF Busy
  <1>6. SlotsInv'
    BY <1>1, <1>5 DEF EchoInv, SlotsInv
  <1> QED
    BY <1>2, <1>3, <1>4, <1>6

\* The counter of clients is not touched while the server is well.
LEMMA QuietCount ==
  ASSUME EchoInv, UNCHANGED <<conn, clients, oom>>,
         oom => \/ died' # "no"
                \/ run' = NULL /\ caller' = "acceptA" /\ current'["server"] = 0
  PROVE  CountInv'
  <1>1. Live' = Live
    BY DEF Live
  <1> QED
    BY <1>1 DEF EchoInv, CountInv

\* The steps of the server circuit that do not wait.
LEMMA ListenKeeps ==
  ASSUME EchoInv, listenA \/ listenA_fails \/ acceptA_fails
  PROVE  EchoInv'
  <1>1. /\ Alive /\ run = Listener /\ died = "no" /\ epfd = "open"
        /\ UNCHANGED <<waitVars, perClient, data, caller>>
        /\ UNCHANGED <<conn, mem, clients, oom, sent, buf, echoed, stalled>>
        /\ epfd' = epfd
    BY DEF listenA, listenA_fails, acceptA_fails, Runs, Alive, perClient, data,
           waitVars
  <1>2. caller = NULL /\ ~oom
    BY <1>1, JobFacts DEF EchoInv, PlaceInv, CountInv, ServerTypes
  <1>3. /\ current' \in [Circuits -> 0..2] /\ current'["worker"] = current["worker"]
        /\ died' = died
        /\ \/ run' = Listener /\ status' = status
           \/ run' = NULL /\ status' = "EXIT_FAILURE"
    <2>1. CASE listenA
      <3>1. returnA("server", Listener) /\ current["server"] = 1 /\ status' = status
        BY <2>1, RunsFacts DEF listenA, EchoInv
      <3> QED
        BY <3>1, ReturnFacts, NetFacts, JobFacts DEF EchoInv
    <2>2. CASE listenA_fails \/ acceptA_fails
      <3>1. errorA("server") /\ died' = died
        BY <2>2 DEF listenA_fails, acceptA_fails
      <3> QED
        BY <3>1, ErrorFacts, NetFacts DEF EchoInv
    <2> QED
      BY <2>1, <2>2
  <1>4. /\ file' \in [Fds -> File]
        /\ \A j \in Fds : file'[j].in = file[j].in
    <2>1. file \in [Fds -> File]
      BY DEF EchoInv, ServerTypes
    <2>2. CASE file' = [file EXCEPT ![Listener].open = TRUE]
      <3>1. Listener \in Fds
        BY JobFacts
      <3>2. file' \in [Fds -> File]
        BY <2>1, <2>2, <3>1 DEF File
      <3>3. \A j \in Fds : file'[j].in = file[j].in
        BY <2>1, <2>2, <3>1 DEF File
      <3> QED
        BY <3>2, <3>3
    <2> QED
      BY <2>1, <2>2 DEF listenA, listenA_fails, acceptA_fails
  <1>5. ServerTypes' /\ DataTypes'
    BY <1>1, <1>3, <1>4, JobFacts DEF EchoInv, ServerTypes, DataTypes
  <1>6. WaitsInv' /\ StartInv' /\ PlaceInv' /\ ConnInv' /\ SlotsInv'
    BY <1>1, <1>3, QuietPlaces
  <1>7. CountInv'
    BY <1>1, <1>2, QuietCount
  <1>8. ServerInv'
    BY <1>1, <1>2, <1>3, JobFacts DEF EchoInv, ServerInv, Alive
  <1>9. KernelInv'
    BY <1>1, <1>4, JobFacts DEF EchoInv, KernelInv, Pending
  <1>10. FaithInv'
    BY <1>1, <1>3, <1>4, JobFacts DEF EchoInv, FaithInv, Writing
  <1> QED
    BY <1>5, <1>6, <1>7, <1>8, <1>9, <1>10 DEF EchoInv

\* acceptA returns: the server has a current element unless memory ran out.
LEMMA AcceptReturnsKeeps ==
  ASSUME EchoInv, acceptA_returns
  PROVE  EchoInv'
  <1>1. /\ Alive /\ run = NULL /\ died = "no" /\ epfd = "open"
        /\ caller = "acceptA" /\ caller' = NULL
        /\ UNCHANGED <<waitVars, perClient, data, status, file>>
        /\ UNCHANGED <<conn, mem, clients, oom, sent, buf, echoed, stalled>>
        /\ epfd' = epfd
    BY DEF acceptA_returns, Alive, perClient, data, waitVars
  <1>2. \/ /\ ~oom /\ run' = Listener /\ died' = died
           /\ current' \in [Circuits -> 0..2]
           /\ current'["worker"] = current["worker"]
        \/ /\ oom /\ died' = "SIGSEGV" /\ UNCHANGED <<run, current>>
    <2>1. CASE oom
      <3>1. current["server"] = 0
        BY <1>1, <2>1 DEF EchoInv, CountInv
      <3> QED
        BY <2>1, <3>1 DEF acceptA_returns, returnA
    <2>2. CASE ~oom
      <3>1. current["server"] = 2 /\ returnA("server", Listener)
        BY <1>1, <2>2 DEF EchoInv, ServerInv, acceptA_returns
      <3> QED
        BY <2>2, <3>1, ReturnFacts, NetFacts, JobFacts DEF EchoInv
    <2> QED
      BY <2>1, <2>2
  <1>3. ServerTypes' /\ DataTypes'
    BY <1>1, <1>2, JobFacts DEF EchoInv, ServerTypes, DataTypes
  <1>4. CASE oom
    <2>1. WaitsInv' /\ StartInv'
      BY <1>1, EndInv DEF EchoInv, StartInv
    <2>2. /\ \A j \in Jobs : Waiting(j)' <=> Waiting(j)
          /\ UNCHANGED <<armed, batch, count>>
      BY <1>1, SameWaits
    <2>3. PlaceInv' /\ ConnInv'
      BY <1>1, <1>2, <1>4, <2>2, JobFacts DEF EchoInv, PlaceInv, ConnInv
    <2>4. Busy' = Busy
      BY <1>1, <2>2 DEF Busy
    <2>5. SlotsInv'
      BY <1>1, <2>2, <2>4 DEF EchoInv, SlotsInv
    <2>6. CountInv' /\ ServerInv'
      BY <1>1, <1>2, <1>4, QuietCount DEF ServerInv, Alive
    <2>7. KernelInv' /\ FaithInv'
      BY <1>1, <1>2, <1>4 DEF EchoInv, KernelInv, Pending, FaithInv, Writing
    <2> QED
      BY <1>3, <2>1, <2>3, <2>5, <2>6, <2>7 DEF EchoInv
  <1>5. CASE ~oom
    <2>1. WaitsInv' /\ StartInv' /\ PlaceInv' /\ ConnInv' /\ SlotsInv'
      BY <1>1, <1>2, <1>5, QuietPlaces
    <2>2. CountInv'
      BY <1>1, <1>5, QuietCount
    <2>3. ServerInv'
      BY <1>1, <1>2, <1>5, JobFacts DEF EchoInv, ServerInv
    <2>4. KernelInv' /\ FaithInv'
      BY <1>1, <1>2, <1>5, JobFacts
      DEF EchoInv, KernelInv, Pending, FaithInv, Writing
    <2> QED
      BY <1>3, <2>1, <2>2, <2>3, <2>4 DEF EchoInv
  <1> QED
    BY <1>4, <1>5

-----------------------------------------------------------------------------
(* The clients.                                                            *)

\* There are finitely many connections of each kind.
LEMMA FiniteConns ==
  /\ IsFiniteSet(Live) /\ Cardinality(Live) \in Nat
  /\ IsFiniteSet(Pending) /\ Cardinality(Pending) \in Nat
  /\ Live # Conns => Cardinality(Live) < Cardinality(Conns)
  /\ Cardinality(Live) <= Cardinality(Conns) /\ Cardinality(Conns) \in Nat
  <1>1. Live \in SUBSET Conns /\ Pending \in SUBSET Conns /\ IsFiniteSet(Conns)
    BY JobFacts DEF Live, Pending
  <1>2. /\ IsFiniteSet(Live) /\ IsFiniteSet(Pending)
        /\ Cardinality(Live) <= Cardinality(Conns)
        /\ Cardinality(Conns) = Cardinality(Live) => Conns = Live
    BY <1>1, FS_Subset
  <1>3. /\ Cardinality(Live) \in Nat /\ Cardinality(Pending) \in Nat
        /\ Cardinality(Conns) \in Nat
    BY <1>1, <1>2, FS_CardinalityType
  <1> QED
    BY <1>2, <1>3

\* A client that may send has not reached the bound by itself.
LEMMA SentFacts ==
  ASSUME DataTypes, NEW j \in Conns, SentByAll < MaxIn
  PROVE  sent[j] < MaxIn
  <1> DEFINE all == {p \in Conns \X (1..MaxIn) : p[2] <= sent[p[1]]}
             mine == {j} \X (1..MaxIn)
  <1>1. MaxIn \in Nat /\ sent[j] \in 0..MaxIn /\ IsFiniteSet(Conns)
    BY EchoServerAssumption DEF DataTypes
  <1>2. IsFiniteSet(1..MaxIn) /\ Cardinality(1..MaxIn) = MaxIn
    BY <1>1, FS_Interval
  <1>3. IsFiniteSet(Conns \X (1..MaxIn))
    BY <1>1, <1>2, FS_Product
  <1>4. IsFiniteSet(all)
    BY <1>3, FS_Subset
  <1>5. Cardinality(mine) = MaxIn
    <2>1. IsFiniteSet({j}) /\ Cardinality({j}) = 1
      BY FS_Singleton
    <2>2. Cardinality(mine) = 1 * MaxIn
      <3>1. Cardinality({j} \X (1..MaxIn)) =
              Cardinality({j}) * Cardinality(1..MaxIn)
        BY <1>2, <2>1, FS_Product, Zenon
      <3> QED
        BY <1>2, <2>1, <3>1, Zenon
    <2>3. \A n \in Nat : 1 * n = n
      OBVIOUS
    <2> HIDE DEF mine
    <2> QED
      BY <1>1, <2>2, <2>3
  <1>6. SUFFICES ASSUME ~(sent[j] < MaxIn) PROVE FALSE
    OBVIOUS
  <1>7. sent[j] = MaxIn
    BY <1>1, <1>6
  <1>8. mine \in SUBSET all
    BY <1>1, <1>7
  <1>9. Cardinality(mine) <= Cardinality(all)
    BY <1>4, <1>8, FS_Subset
  <1>10. Cardinality(all) \in Nat /\ Cardinality(all) < MaxIn
    BY <1>4, FS_CardinalityType DEF SentByAll
  <1> QED
    BY <1>1, <1>5, <1>9, <1>10

\* A descriptor with more or less to read is like any other.
LEMMA InFacts ==
  ASSUME file \in [Fds -> File], NEW fd \in Fds, NEW n \in Nat,
         file' = [file EXCEPT ![fd].in = n]
  PROVE  /\ file' \in [Fds -> File]
         /\ file'[fd].in = n
         /\ \A g \in Fds : g # fd => file'[g] = file[g]
  <1>1. /\ file'[fd] = [file[fd] EXCEPT !.in = n]
        /\ \A g \in Fds : g # fd => file'[g] = file[g]
        /\ file' = [g \in Fds |-> file'[g]]
    OBVIOUS
  <1>2. file'[fd] \in File /\ file'[fd].in = n
    BY <1>1 DEF File
  <1> QED
    BY <1>1, <1>2

\* A client connects: one more in the backlog.
LEMMA ConnectKeeps ==
  ASSUME EchoInv, NEW j \in Conns, connect(j)
  PROVE  EchoInv'
  <1>1. /\ Alive /\ died = "no" /\ epfd = "open" /\ conn[j] = "new"
        /\ conn' = [conn EXCEPT ![j] = "pending"]
        /\ UNCHANGED <<waitVars, run, caller, current, status, died>>
        /\ UNCHANGED <<mem, clients, oom, sent, buf, echoed, stalled>>
        /\ epfd' = epfd
        /\ file' = [file EXCEPT ![j] = [Closed EXCEPT !.open = TRUE, !.room = TRUE],
                                ![Listener].in = @ + 1]
    BY DEF connect, Alive, control, data, waitVars
  <1>2. /\ conn' \in [Conns -> {"new", "pending", "live", "over"}]
        /\ conn'[j] = "pending"
        /\ \A k \in Conns : k # j => conn'[k] = conn[k]
    BY <1>1 DEF EchoInv, ServerTypes
  <1>3. /\ file' \in [Fds -> File]
        /\ file'[j].in = 0
        /\ file'[Listener].in = file[Listener].in + 1
        /\ \A k \in Conns : k # j => file'[k] = file[k]
    <2>1. file \in [Fds -> File] /\ file[Listener] \in File /\ file[Listener].in \in Nat
      BY JobFacts DEF EchoInv, ServerTypes, File
    <2>2. PICK fresh : fresh = [Closed EXCEPT !.open = TRUE, !.room = TRUE]
      OBVIOUS
    <2>3. fresh \in File /\ fresh.in = 0
      BY <2>2 DEF Closed, File
    <2>4. /\ file'[j] = fresh
          /\ file'[Listener] = [file[Listener] EXCEPT !.in = @ + 1]
          /\ \A k \in Fds : k # j /\ k # Listener => file'[k] = file[k]
          /\ DOMAIN file' = Fds /\ file' = [k \in Fds |-> file'[k]]
      BY <1>1, <2>1, <2>2, JobFacts
    <2>5. /\ file'[Listener] \in File
          /\ file'[Listener].in = file[Listener].in + 1
      BY <2>1, <2>4 DEF File
    <2> QED
      BY <2>3, <2>4, <2>5, <2>1, JobFacts
  <1>4. ServerTypes' /\ DataTypes'
    BY <1>1, <1>2, <1>3 DEF EchoInv, ServerTypes, DataTypes
  <1>5. /\ \A k \in Jobs : Waiting(k)' <=> Waiting(k)
        /\ UNCHANGED <<armed, batch, count>>
    BY <1>1, SameWaits
  <1>6. WaitsInv' /\ StartInv'
    BY <1>1, EndInv DEF EchoInv, StartInv
  <1>7. PlaceInv' /\ ConnInv'
    BY <1>1, <1>2, <1>5, JobFacts DEF EchoInv, PlaceInv, ConnInv
  <1>8. CountInv'
    <2>1. Live' = Live /\ \A k \in Conns : conn[k] = "over" => conn'[k] = "over"
      BY <1>1, <1>2 DEF Live
    <2> QED
      BY <1>1, <2>1 DEF EchoInv, CountInv
  <1>9. ServerInv'
    BY <1>1, <1>5, JobFacts DEF EchoInv, ServerInv, Alive
  <1>10. KernelInv'
    <2>1. Pending' = Pending \cup {j} /\ j \notin Pending
      BY <1>1, <1>2 DEF Pending
    <2>2. Cardinality(Pending') = Cardinality(Pending) + 1
      BY <2>1, FiniteConns, FS_AddElement
    <2>3. file[Listener].in \in Nat
      BY JobFacts DEF EchoInv, ServerTypes, File
    <2>4. Cardinality(Pending') <= file'[Listener].in
      BY <1>3, <2>2, <2>3, FiniteConns DEF EchoInv, KernelInv
    <2>5. sent[j] = 0 /\ sent' = sent /\ \A k \in Conns : file[k].in <= sent[k]
      BY <1>1 DEF EchoInv, KernelInv
    <2>6. \A k \in Conns : file'[k].in <= sent'[k]
      BY <1>3, <2>5
    <2> QED
      BY <1>1, <1>2, <2>4, <2>6 DEF EchoInv, KernelInv
  <1>11. FaithInv'
    <2>1. sent[j] = 0 /\ echoed[j] = << >> /\ run # j
      BY <1>1 DEF EchoInv, KernelInv, ConnInv
    <2>2. Len(echoed[j]) + file'[j].in = sent[j]
      BY <1>3, <2>1
    <2>3. /\ \A k \in Conns : Writing(k)' <=> Writing(k)
          /\ UNCHANGED <<stalled, current, run, echoed, sent, buf>>
          /\ ~Writing(j)
      BY <1>1, <2>1 DEF Writing
    <2>4. \A k \in Conns : k # j => conn'[k] = conn[k] /\ file'[k].in = file[k].in
      BY <1>2, <1>3
    <2> QED
      BY <2>2, <2>3, <2>4 DEF EchoInv, FaithInv
  <1>12. SlotsInv'
    <2>1. Busy' = Busy
      BY <1>1, <1>2, <1>5 DEF Busy
    <2> QED
      BY <1>1, <1>5, <2>1 DEF EchoInv, SlotsInv
  <1> QED
    BY <1>4, <1>6, <1>7, <1>8, <1>9, <1>10, <1>11, <1>12 DEF EchoInv

\* A client sends, makes room, shuts down or resets.
LEMMA ClientKeeps ==
  ASSUME EchoInv, NEW j \in Conns, client(j)
  PROVE  EchoInv'
  <1>1. /\ Alive /\ died = "no" /\ epfd = "open" /\ conn[j] \in {"pending", "live"}
        /\ UNCHANGED <<waitVars, perClient, run, caller, current, status, died>>
        /\ UNCHANGED <<conn, mem, clients, oom, buf, echoed, stalled>>
        /\ epfd' = epfd
    BY DEF client, Alive, control, perClient, waitVars
  <1>2. /\ file \in [Fds -> File] /\ j \in Fds /\ Listener \in Fds /\ j # Listener
        /\ sent \in [Conns -> 0..MaxIn] /\ MaxIn \in Nat /\ file[j].in \in Nat
        /\ echoed \in [Conns -> Seq(1..MaxIn)]
    BY JobFacts, EchoServerAssumption DEF EchoInv, ServerTypes, DataTypes, File
  <1>3. PICK n \in {0, 1} : /\ file' \in [Fds -> File]
                            /\ sent' \in [Conns -> 0..MaxIn]
                            /\ file'[j].in = file[j].in + n
                            /\ sent'[j] = sent[j] + n
                            /\ \A k \in Fds : k # j => file'[k] = file[k]
                            /\ \A k \in Conns : k # j => sent'[k] = sent[k]
    <2>1. CASE /\ SentByAll < MaxIn
               /\ sent' = [sent EXCEPT ![j] = @ + 1]
               /\ file' = [file EXCEPT ![j].in = @ + 1]
      <3>1. sent[j] < MaxIn
        BY <2>1, SentFacts DEF EchoInv
      <3>2. /\ sent' \in [Conns -> 0..MaxIn] /\ sent'[j] = sent[j] + 1
            /\ \A k \in Conns : k # j => sent'[k] = sent[k]
        BY <1>2, <2>1, <3>1
      <3>3. file[j].in + 1 \in Nat /\ file' = [file EXCEPT ![j].in = file[j].in + 1]
        BY <1>2, <2>1
      <3>4. /\ file' \in [Fds -> File] /\ file'[j].in = file[j].in + 1
            /\ \A k \in Fds : k # j => file'[k] = file[k]
        BY <1>2, <3>3, InFacts
      <3> QED
        BY <3>2, <3>4
    <2>2. ASSUME sent' = sent,
                 \/ file' = [file EXCEPT ![j].room = TRUE]
                 \/ file' = [file EXCEPT ![j].hup = TRUE]
                 \/ file' = [file EXCEPT ![j].err = TRUE]
          PROVE  /\ file' \in [Fds -> File] /\ file'[j].in = file[j].in + 0
                 /\ sent' \in [Conns -> 0..MaxIn] /\ sent'[j] = sent[j] + 0
                 /\ \A k \in Fds : k # j => file'[k] = file[k]
                 /\ \A k \in Conns : k # j => sent'[k] = sent[k]
      <3>1. /\ \/ file'[j] = [file[j] EXCEPT !.room = TRUE]
               \/ file'[j] = [file[j] EXCEPT !.hup = TRUE]
               \/ file'[j] = [file[j] EXCEPT !.err = TRUE]
            /\ \A k \in Fds : k # j => file'[k] = file[k]
            /\ file' = [k \in Fds |-> file'[k]]
        BY <1>2, <2>2
      <3>2. file[j] \in File
        BY <1>2
      <3>3. file'[j] \in File
        BY <3>1, <3>2 DEF File
      <3>4. file'[j].in = file[j].in
        BY <3>1, <3>2 DEF File
      <3>5. file' \in [Fds -> File]
        BY <1>2, <3>1, <3>3
      <3>6. file[j].in + 0 = file[j].in /\ sent[j] + 0 = sent[j]
        BY <1>2
      <3> QED
        BY <1>2, <2>2, <3>1, <3>4, <3>5, <3>6
    <2> QED
      BY <2>1, <2>2 DEF client
  <1>4. ServerTypes' /\ DataTypes'
    BY <1>1, <1>3 DEF EchoInv, ServerTypes, DataTypes
  <1>5. WaitsInv' /\ StartInv' /\ PlaceInv' /\ ConnInv' /\ SlotsInv'
    BY <1>1, QuietPlaces
  <1>6. CountInv'
    BY <1>1, QuietCount DEF EchoInv, CountInv
  <1>7. ServerInv'
    BY <1>1, SameWaits, JobFacts DEF EchoInv, ServerInv, Alive
  <1>8. KernelInv'
    <2>1. /\ \A k \in Conns : file[k].in <= sent[k]
          /\ \A k \in Conns : conn[k] = "new" => sent[k] = 0 /\ echoed[k] = << >>
          /\ Cardinality(Pending) <= file[Listener].in
      BY DEF EchoInv, KernelInv
    <2>2. file'[j].in <= sent'[j]
      BY <1>2, <1>3, <2>1
    <2>3. \A k \in Conns : file'[k].in <= sent'[k]
      BY <1>3, <2>1, <2>2, JobFacts
    <2>4. Pending' = Pending
      BY <1>1 DEF Pending
    <2> QED
      BY <1>1, <1>2, <1>3, <2>1, <2>3, <2>4 DEF KernelInv
  <1>9. FaithInv'
    <2> SUFFICES ASSUME ~stalled PROVE FaithInv'
      BY <1>1 DEF FaithInv
    <2>1. /\ current["worker"] = 2 => run \in Conns
          /\ \A k \in Conns : \A i \in 1..Len(echoed[k]) : echoed[k][i] = i
          /\ \A k \in Conns : (conn[k] # "over" /\ ~Writing(k)) =>
               Len(echoed[k]) + file[k].in = sent[k]
          /\ \A k \in Conns : Writing(k) =>
               /\ Len(echoed[k]) + file[k].in + 1 = sent[k]
               /\ buf[k] = Len(echoed[k]) + 1
      BY DEF EchoInv, FaithInv
    <2>2. \A k \in Conns : Writing(k)' <=> Writing(k)
      BY <1>1 DEF Writing
    <2>3. Len(echoed[j]) \in Nat /\ file[j].in \in Nat /\ sent[j] \in Nat
      BY <1>2, LenProperties
    <2>4. ~Writing(j) => Len(echoed[j]) + file'[j].in = sent'[j]
      <3>1. ~Writing(j) => Len(echoed[j]) + file[j].in = sent[j]
        BY <1>1, <2>1
      <3>2. file'[j].in = file[j].in + n /\ sent'[j] = sent[j] + n
        BY <1>3
      <3> QED
        BY <2>3, <3>1, <3>2
    <2>5. Writing(j) => Len(echoed[j]) + file'[j].in + 1 = sent'[j]
      <3>1. Writing(j) => Len(echoed[j]) + file[j].in + 1 = sent[j]
        BY <2>1
      <3>2. file'[j].in = file[j].in + n /\ sent'[j] = sent[j] + n
        BY <1>3
      <3> QED
        BY <2>3, <3>1, <3>2
    <2>6. \A k \in Conns : k # j => file'[k] = file[k] /\ sent'[k] = sent[k]
      BY <1>3, JobFacts
    <2> QED
      BY <1>1, <2>1, <2>2, <2>4, <2>5, <2>6 DEF FaithInv
  <1> QED
    BY <1>4, <1>5, <1>6, <1>7, <1>8, <1>9 DEF EchoInv

-----------------------------------------------------------------------------
(* Waiting.                                                                *)

\* Every job but one is as many as there are connections.
LEMMA BusyFacts ==
  /\ Busy \in SUBSET Jobs /\ IsFiniteSet(Busy) /\ Cardinality(Busy) \in Nat
  /\ \A j \in Jobs : j \notin Busy => Cardinality(Busy) <= Cardinality(Conns)
  /\ \A j \in Jobs : Cardinality(Busy \cup {j}) =
       IF j \in Busy THEN Cardinality(Busy) ELSE Cardinality(Busy) + 1
  /\ \A j \in Busy : Cardinality(Busy \ {j}) = Cardinality(Busy) - 1
  <1>1. Busy \in SUBSET Jobs
    BY JobFacts DEF Busy
  <1>2. IsFiniteSet(Conns) /\ Jobs = Conns \cup {Listener} /\ Listener \notin Conns
    BY EchoServerAssumption
  <1>3. /\ IsFiniteSet(Jobs) /\ Cardinality(Jobs) = Cardinality(Conns) + 1
        /\ Cardinality(Conns) \in Nat
    BY <1>2, FS_AddElement, FS_CardinalityType
  <1>4. IsFiniteSet(Busy) /\ Cardinality(Busy) \in Nat
    BY <1>1, <1>3, FS_Subset, FS_CardinalityType
  <1>5. ASSUME NEW j \in Jobs, j \notin Busy
        PROVE  Cardinality(Busy) <= Cardinality(Conns)
    <2>1. IsFiniteSet(Jobs \ {j}) /\ Cardinality(Jobs \ {j}) = Cardinality(Jobs) - 1
      BY <1>3, FS_RemoveElement
    <2>2. Cardinality(Busy) <= Cardinality(Jobs \ {j})
      BY <1>1, <1>5, <2>1, FS_Subset
    <2> QED
      BY <1>3, <2>1, <2>2
  <1>6. \A j \in Jobs : Cardinality(Busy \cup {j}) =
          IF j \in Busy THEN Cardinality(Busy) ELSE Cardinality(Busy) + 1
    BY <1>4, FS_AddElement
  <1>7. \A j \in Busy : Cardinality(Busy \ {j}) = Cardinality(Busy) - 1
    BY <1>4, FS_RemoveElement
  <1> QED
    BY <1>1, <1>4, <1>5, <1>6, <1>7

\* The job that runs waits now.
LEMMA ArmKeeps ==
  ASSUME EchoInv, NEW j \in Jobs, NEW op \in Op, Alive, run = j, waitA(j, j, op),
         UNCHANGED <<caller, died, file, perClient, sent, buf, echoed>>,
         stalled' = TRUE \/ (stalled' = stalled /\ (~stalled => current["worker"] # 2))
  PROVE  EchoInv'
  <1>1. /\ epfd = "open" /\ died = "no" /\ arm(j, j, op) /\ run' = NULL
        /\ UNCHANGED <<current, status, caller, died, file>>
        /\ UNCHANGED <<conn, mem, clients, oom, sent, buf, echoed>>
        /\ epfd' = epfd /\ batch' = batch
        /\ count' = IF count < EV_MAXEVENTS THEN count + 1 ELSE count
    BY DEF Alive, waitA, arm, enter, Counted, perClient
  <1>2. /\ j \in Fds /\ NULL \notin Jobs /\ Listener \in Jobs /\ j # NULL
        /\ ~Waiting(j) /\ ~oom
    BY <1>1, JobFacts DEF EchoInv, PlaceInv, CountInv
  <1>3. /\ armed' \in [Fds -> Wait \cup {NULL}]
        /\ armed'[j] # NULL
        /\ armed'[j].job = j
        /\ armed'[j].counted <=> count < EV_MAXEVENTS
        /\ \A k \in Jobs : k # j => armed'[k] = armed[k]
    BY <1>1, <1>2, ArmTypes, JobFacts DEF EchoInv
  <1>4. WaitsInv' /\ StartInv'
    BY <1>1, <1>2, ArmInv DEF EchoInv, StartInv
  <1>5. \A k \in Jobs : Waiting(k)' <=> (Waiting(k) \/ k = j)
    BY <1>1, <1>3 DEF Waiting
  <1>6. ServerTypes' /\ DataTypes'
    BY <1>1 DEF EchoInv, ServerTypes, DataTypes
  <1>7. PlaceInv'
    <2>1. \A k \in Jobs : armed'[k] # NULL => armed'[k].job = k
      BY <1>3 DEF EchoInv, PlaceInv
    <2>2. \A ev \in batch' : ev.job = ev.fd /\ armed'[ev.fd] = NULL
      <3> SUFFICES ASSUME NEW ev \in batch PROVE ev.job = ev.fd /\ armed'[ev.fd] = NULL
        BY <1>1
      <3>1. ev.fd \in Jobs /\ ev.job = ev.fd /\ armed[ev.fd] = NULL /\ ev.fd # j
        BY <1>2, JobFacts DEF EchoInv, PlaceInv, WaitsInv, WaitsTypeOK, Waiting
      <3> QED
        BY <1>3, <3>1
    <2>3. (caller' = "acceptA" /\ died' = "no") =>
            run' # Listener /\ ~Waiting(Listener)'
      BY <1>1, <1>2, <1>5 DEF EchoInv, PlaceInv
    <2> QED
      BY <1>1, <1>2, <2>1, <2>2, <2>3 DEF EchoInv, PlaceInv
  <1>8. ConnInv'
    BY <1>1, <1>2, <1>5, JobFacts DEF EchoInv, ConnInv
  <1>9. CountInv'
    BY <1>1, <1>2, QuietCount
  <1>10. ServerInv'
    BY <1>1, <1>2, <1>5 DEF EchoInv, ServerInv, Alive
  <1>11. KernelInv'
    BY <1>1 DEF EchoInv, KernelInv, Pending
  <1>12. FaithInv'
    BY <1>1, <1>2, JobFacts DEF EchoInv, FaithInv, Writing
  <1>13. SlotsInv'
    <2> SUFFICES ASSUME Cardinality(Conns) < EV_MAXEVENTS, status = "working"
                 PROVE  SlotsInv'
      BY <1>1 DEF SlotsInv
    <2>1. j \notin Busy
      BY <1>1, <1>2, JobFacts DEF Busy, EchoInv, ConnInv
    <2>2. Busy' = Busy \cup {j}
      BY <1>1, <1>2, <1>5 DEF Busy
    <2>3. /\ count <= Cardinality(Busy)
          /\ \A k \in Jobs : armed[k] # NULL => armed[k].counted
          /\ \A ev \in batch : ev.counted
      BY <1>1 DEF EchoInv, SlotsInv
    <2>4. /\ count \in Nat /\ EV_MAXEVENTS \in Nat
          /\ Cardinality(Busy) \in Nat /\ Cardinality(Conns) \in Nat
          /\ Cardinality(Busy) <= Cardinality(Conns)
          /\ Cardinality(Busy \cup {j}) = Cardinality(Busy) + 1
      BY <2>1, BusyFacts, FiniteConns, WaitsAssumption
      DEF EchoInv, WaitsInv, WaitsTypeOK
    <2>5. count < EV_MAXEVENTS /\ count' = count + 1
      BY <1>1, <2>3, <2>4
    <2>6. count' <= Cardinality(Busy')
      BY <2>2, <2>3, <2>4, <2>5
    <2>7. \A k \in Jobs : armed'[k] # NULL => armed'[k].counted
      BY <1>3, <2>3, <2>5
    <2> QED
      BY <1>1, <2>3, <2>6, <2>7 DEF SlotsInv
  <1> QED
    BY <1>4, <1>6, <1>7, <1>8, <1>9, <1>10, <1>11, <1>12, <1>13 DEF EchoInv

\* The loop, or the process, ends.
LEMMA EndKeeps ==
  ASSUME EchoInv, epfd = "open", deinit \/ exit,
         UNCHANGED <<run, caller, current, status, died, file, perClient>>,
         UNCHANGED <<sent, buf, echoed>>,
         stalled' = TRUE \/ stalled' = stalled
  PROVE  EchoInv'
  <1>1. /\ epfd' \in {"closed", "exited"} /\ batch' = batch /\ count' = count
        /\ \A k \in Jobs : armed'[k] \in {NULL, armed[k]}
        /\ UNCHANGED <<conn, mem, clients, oom>>
    BY JobFacts DEF deinit, exit, perClient
  <1>2. WaitsInv' /\ StartInv' /\ SlotsInv'
    BY <1>1, EndInv DEF EchoInv, StartInv, SlotsInv
  <1>3. ServerTypes' /\ DataTypes'
    BY <1>1 DEF EchoInv, ServerTypes, DataTypes
  <1>4. \A k \in Jobs : Waiting(k)' => Waiting(k)
    BY <1>1 DEF Waiting
  <1>5. PlaceInv'
    <2>1. \A ev \in batch' : ev.job = ev.fd /\ armed'[ev.fd] = NULL
      <3> SUFFICES ASSUME NEW ev \in batch PROVE ev.job = ev.fd /\ armed'[ev.fd] = NULL
        BY <1>1
      <3>1. ev.fd \in Jobs /\ ev.job = ev.fd /\ armed[ev.fd] = NULL
        BY JobFacts DEF EchoInv, PlaceInv, WaitsInv, WaitsTypeOK
      <3> QED
        BY <1>1, <3>1
    <2>2. \A k \in Jobs : armed'[k] # NULL => armed'[k].job = k
      BY <1>1 DEF EchoInv, PlaceInv
    <2> QED
      BY <1>1, <1>4, <2>1, <2>2, JobFacts DEF EchoInv, PlaceInv
  <1>6. ConnInv'
    BY <1>1, <1>4, JobFacts DEF EchoInv, ConnInv
  <1>7. CountInv'
    BY <1>1, QuietCount DEF EchoInv, CountInv
  <1>8. ServerInv'
    BY <1>1 DEF EchoInv, ServerInv, Alive
  <1>9. KernelInv' /\ FaithInv'
    BY <1>1 DEF EchoInv, KernelInv, Pending, FaithInv, Writing
  <1> QED
    BY <1>2, <1>3, <1>5, <1>6, <1>7, <1>8, <1>9 DEF EchoInv

-----------------------------------------------------------------------------
(* A connection ends.                                                      *)

\* client_error frees the data of a live connection, and uncounts it.
LEMMA ClientErrorFacts ==
  ASSUME EchoInv, NEW j \in Conns, conn[j] = "live", ~oom, client_error(j)
  PROVE  /\ conn' \in [Conns -> {"new", "pending", "live", "over"}]
         /\ mem' \in [Conns -> {"none", "all", "some", "twice"}]
         /\ conn'[j] = "over" /\ mem'[j] = "some" /\ oom' = oom
         /\ \A k \in Conns : k # j => conn'[k] = conn[k] /\ mem'[k] = mem[k]
         /\ Pending' = Pending
         /\ clients' \in Nat /\ clients' = Cardinality(Live')
  <1>1. /\ conn' = [conn EXCEPT ![j] = "over"] /\ oom' = oom
        /\ mem' = [mem EXCEPT ![j] = IF @ = "all" THEN "some" ELSE "twice"]
        /\ clients' = clients - 1
    BY DEF client_error
  <1>2. /\ conn \in [Conns -> {"new", "pending", "live", "over"}]
        /\ mem \in [Conns -> {"none", "all", "some", "twice"}]
        /\ mem[j] = "all" /\ clients = Cardinality(Live)
    BY DEF EchoInv, ServerTypes, ConnInv, CountInv
  <1>3. /\ conn' \in [Conns -> {"new", "pending", "live", "over"}]
        /\ conn'[j] = "over" /\ \A k \in Conns : k # j => conn'[k] = conn[k]
    BY <1>1, <1>2
  <1>4. /\ mem' \in [Conns -> {"none", "all", "some", "twice"}]
        /\ mem'[j] = "some" /\ \A k \in Conns : k # j => mem'[k] = mem[k]
    BY <1>1, <1>2
  <1>5. Pending' = Pending /\ Live' = Live \ {j} /\ j \in Live
    BY <1>3 DEF Pending, Live
  <1>6. /\ IsFiniteSet(Live \ {j}) /\ Cardinality(Live \ {j}) \in Nat
        /\ Cardinality(Live \ {j}) = Cardinality(Live) - 1
    BY <1>5, FiniteConns, FS_RemoveElement, FS_CardinalityType
  <1> QED
    BY <1>1, <1>2, <1>3, <1>4, <1>5, <1>6

\* The connection that ran, or was taken from the batch, is over; a wait that
\* was refused stays counted.
LEMMA OverKeeps ==
  ASSUME EchoInv, NEW j \in Conns, conn[j] = "live", Alive, ~oom,
         run = j \/ run = NULL,
         errorA("worker"), client_error(j), UNCHANGED <<caller, died>>,
         file' = file \/ file' = [file EXCEPT ![j] = Closed],
         UNCHANGED <<sent, buf, echoed>>, stalled' = TRUE \/ stalled' = stalled,
         WaitsInv', epfd' = epfd, batch' \subseteq batch,
         \A k \in Jobs : armed'[k] \in {NULL, armed[k]},
         \A k \in Jobs : Waiting(k)' <=> (Waiting(k) /\ k # j),
         /\ Cardinality(Conns) < EV_MAXEVENTS
         /\ status = "working"
         => count' <= Cardinality(Busy \cup {j})
  PROVE  EchoInv'
  <1>1. /\ run' = NULL /\ current' \in [Circuits -> 0..2] /\ current'["worker"] = 0
        /\ current'["server"] = current["server"] /\ status' = status
        /\ epfd = "open" /\ died = "no"
    BY ErrorFacts, NetFacts DEF EchoInv, Alive
  <1>2. /\ conn' \in [Conns -> {"new", "pending", "live", "over"}]
        /\ mem' \in [Conns -> {"none", "all", "some", "twice"}]
        /\ conn'[j] = "over" /\ mem'[j] = "some" /\ oom' = oom
        /\ \A k \in Conns : k # j => conn'[k] = conn[k] /\ mem'[k] = mem[k]
        /\ Pending' = Pending
        /\ clients' \in Nat /\ clients' = Cardinality(Live')
    BY ClientErrorFacts
  <1>3. /\ file' \in [Fds -> File]
        /\ \A k \in Jobs : k # j => file'[k] = file[k]
        /\ file'[j].in <= sent[j]
    <2>1. /\ file \in [Fds -> File] /\ file[j].in <= sent[j] /\ sent[j] \in Nat
          /\ j \in Fds
      BY JobFacts, EchoServerAssumption
      DEF EchoInv, ServerTypes, KernelInv, DataTypes
    <2>2. Closed \in File /\ Closed.in = 0
      BY DEF Closed, File
    <2> QED
      BY <2>1, <2>2, JobFacts
  <1>4. ServerTypes' /\ DataTypes'
    BY <1>1, <1>2, <1>3, JobFacts DEF EchoInv, ServerTypes, DataTypes
  <1>5. StartInv' /\ CountInv'
    BY <1>1, <1>2 DEF StartInv, CountInv, EchoInv
  <1>6. PlaceInv'
    <2>1. \A ev \in batch' : ev.job = ev.fd /\ armed'[ev.fd] = NULL
      <3> SUFFICES ASSUME NEW ev \in batch PROVE ev.job = ev.fd /\ armed'[ev.fd] = NULL
        OBVIOUS
      <3>1. ev.fd \in Jobs /\ ev.job = ev.fd /\ armed[ev.fd] = NULL
        BY JobFacts DEF EchoInv, PlaceInv, WaitsInv, WaitsTypeOK
      <3> QED
        BY <3>1
    <2>2. \A k \in Jobs : armed'[k] # NULL => armed'[k].job = k
      BY DEF EchoInv, PlaceInv
    <2>3. \A ev1, ev2 \in batch' : ev1.fd = ev2.fd => ev1 = ev2
      BY DEF EchoInv, PlaceInv
    <2> QED
      BY <1>1, <2>1, <2>2, <2>3, JobFacts DEF EchoInv, PlaceInv
  <1>7. ConnInv'
    BY <1>1, <1>2, JobFacts DEF EchoInv, ConnInv
  <1>8. ServerInv'
    BY <1>1, JobFacts DEF EchoInv, ServerInv, Alive
  <1>9. KernelInv'
    <2>1. \A k \in Conns : file'[k].in <= sent'[k]
      BY <1>3, JobFacts DEF EchoInv, KernelInv
    <2> QED
      BY <1>2, <1>3, <2>1, JobFacts DEF EchoInv, KernelInv
  <1>10. FaithInv'
    <2>1. \A k \in Conns : k # j => ~Writing(k)
      BY JobFacts DEF Writing
    <2> QED
      BY <1>1, <1>2, <1>3, <2>1, JobFacts DEF EchoInv, FaithInv, Writing
  <1>11. SlotsInv'
    <2>1. Busy' = Busy \cup {j}
      BY <1>2, JobFacts DEF Busy
    <2>2. (Cardinality(Conns) < EV_MAXEVENTS /\ status = "working") =>
            /\ \A k \in Jobs : armed'[k] # NULL => armed'[k].counted
            /\ \A ev \in batch' : ev.counted
      BY <1>1 DEF EchoInv, SlotsInv
    <2> QED
      BY <1>1, <2>1, <2>2 DEF SlotsInv
  <1> QED
    BY <1>4, <1>5, <1>6, <1>7, <1>8, <1>9, <1>10, <1>11 DEF EchoInv

\* The connection that runs is live, and it waits nowhere.
LEMMA WorkerFacts ==
  ASSUME EchoInv, NEW j \in Conns, Alive, run = j
  PROVE  /\ epfd = "open" /\ died = "no" /\ conn[j] = "live" /\ mem[j] = "all"
         /\ ~oom /\ ~Waiting(j) /\ j \notin Busy
         /\ SlotsInv => ((Cardinality(Conns) < EV_MAXEVENTS /\ status = "working") =>
              count <= Cardinality(Busy))
  BY JobFacts DEF EchoInv, Alive, ConnInv, CountInv, PlaceInv, Busy, SlotsInv

\* readA or writeA fails.
LEMMA WorkerFailsKeeps ==
  ASSUME EchoInv, NEW j \in Conns, Alive, run = j, errorA("worker"), client_error(j),
         UNCHANGED <<waitVars, caller, died, file, data>>
  PROVE  EchoInv'
  <1>1. /\ UNCHANGED <<epfd, armed, count, batch>>
        /\ \A k \in Jobs : Waiting(k)' <=> Waiting(k)
        /\ UNCHANGED <<sent, buf, echoed, stalled>>
        /\ WaitsInv'
    BY SameWaits, EndInv DEF data, EchoInv
  <1>2. /\ conn[j] = "live" /\ ~oom /\ ~Waiting(j) /\ j \notin Busy
        /\ (Cardinality(Conns) < EV_MAXEVENTS /\ status = "working") =>
              count <= Cardinality(Busy)
    BY WorkerFacts DEF EchoInv
  <1>3. /\ Cardinality(Busy) \in Nat /\ count \in Nat
        /\ Cardinality(Busy \cup {j}) = Cardinality(Busy) + 1
    BY <1>2, BusyFacts, JobFacts, WaitsAssumption DEF EchoInv, WaitsInv, WaitsTypeOK
  <1>4. (Cardinality(Conns) < EV_MAXEVENTS /\ status = "working") =>
           count' <= Cardinality(Busy \cup {j})
    BY <1>1, <1>2, <1>3
  <1> QED
    BY <1>1, <1>2, <1>4, OverKeeps

\* waitA of a worker's element: it waits, or fails, or there is no memory.
LEMMA WorkerWaitsKeeps ==
  ASSUME EchoInv, NEW j \in Conns, NEW op \in Op, Alive, run = j,
         worker_waits(j, op), UNCHANGED <<sent, buf, echoed>>,
         stalled' = TRUE \/ (stalled' = stalled /\ (~stalled => current["worker"] # 2))
  PROVE  EchoInv'
  <1>1. UNCHANGED <<caller, died, file>> /\ j \in Jobs /\ epfd = "open"
    BY JobFacts DEF worker_waits, Alive
  <1>2. CASE waitA(j, j, op) /\ UNCHANGED perClient
    BY <1>1, <1>2, ArmKeeps
  <1>3. CASE exit /\ UNCHANGED <<run, current, status, perClient>>
    BY <1>1, <1>3, EndKeeps
  <1>4. CASE waitA_fails("worker") /\ client_error(j)
    <2>1. /\ refuse /\ errorA("worker") /\ UNCHANGED <<epfd, armed, batch>>
          /\ count' = IF count < EV_MAXEVENTS THEN count + 1 ELSE count
      BY <1>4 DEF waitA_fails, refuse, enter, Counted
    <2>2. /\ conn[j] = "live" /\ ~oom /\ ~Waiting(j) /\ j \notin Busy
          /\ (Cardinality(Conns) < EV_MAXEVENTS /\ status = "working") =>
                count <= Cardinality(Busy)
      BY WorkerFacts DEF EchoInv
    <2>3. /\ Cardinality(Busy) \in Nat /\ count \in Nat
          /\ Cardinality(Busy \cup {j}) = Cardinality(Busy) + 1
      BY <1>1, <2>2, BusyFacts, WaitsAssumption DEF EchoInv, WaitsInv, WaitsTypeOK
    <2>4. (Cardinality(Conns) < EV_MAXEVENTS /\ status = "working") =>
             count' <= Cardinality(Busy \cup {j})
      BY <2>1, <2>2, <2>3
    <2>5. \A k \in Jobs : Waiting(k)' <=> (Waiting(k) /\ k # j)
      BY <2>1, <2>2 DEF Waiting
    <2>6. WaitsInv'
      BY <2>1, RefuseInv DEF EchoInv
    <2> QED
      BY <1>1, <1>4, <2>1, <2>2, <2>4, <2>5, <2>6, OverKeeps
  <1> QED
    BY <1>2, <1>3, <1>4 DEF worker_waits

-----------------------------------------------------------------------------
(* The server circuit, from main to the connections.                       *)

\* main opens the event loop and runs the server, once.
LEMMA MainKeeps ==
  ASSUME EchoInv, main
  PROVE  EchoInv'
  <1>1. /\ epfd = "none" /\ epfd' = "open" /\ init
        /\ UNCHANGED <<armed, count, batch, caller, status, died, file>>
        /\ UNCHANGED <<conn, mem, clients, oom, sent, buf, echoed, stalled>>
        /\ runA("server", Listener)
    BY DEF main, init, perClient, data
  <1>2. /\ run = NULL /\ caller = NULL /\ died = "no" /\ ~oom /\ count = 0
        /\ \A j \in Jobs : ~Waiting(j)
    BY <1>1 DEF EchoInv, StartInv
  <1>3. /\ run' = Listener /\ current' \in [Circuits -> 0..2]
        /\ current'["worker"] = current["worker"]
    BY <1>1, RunFacts, NetFacts DEF EchoInv
  <1>4. ServerTypes' /\ DataTypes'
    BY <1>1, <1>3, JobFacts DEF EchoInv, ServerTypes, DataTypes
  <1>5. \A j \in Jobs : ~Waiting(j)'
    BY <1>1, <1>2 DEF Waiting
  <1>6. WaitsInv' /\ StartInv'
    BY <1>1, EndInv DEF EchoInv, StartInv
  <1>7. PlaceInv' /\ ConnInv'
    BY <1>1, <1>2, <1>3, <1>5, JobFacts DEF EchoInv, PlaceInv, ConnInv
  <1>8. CountInv' /\ ServerInv'
    BY <1>1, <1>2, <1>3, QuietCount, JobFacts DEF EchoInv, ServerInv
  <1>9. KernelInv' /\ FaithInv'
    BY <1>1, <1>2, <1>3, JobFacts
    DEF EchoInv, KernelInv, Pending, FaithInv, Writing
  <1>10. SlotsInv'
    <2>1. Busy' = Busy
      BY <1>1, <1>2, <1>5 DEF Busy
    <2>2. \A ev \in batch : FALSE
      BY <1>2, JobFacts DEF Waiting, EchoInv, WaitsInv, WaitsTypeOK
    <2>3. count' <= Cardinality(Busy')
      BY <1>1, <1>2, <2>1, BusyFacts
    <2> QED
      BY <1>1, <1>2, <2>2, <2>3 DEF SlotsInv, Waiting
  <1> QED
    BY <1>4, <1>6, <1>7, <1>8, <1>9, <1>10 DEF EchoInv

\* The listener waits, or fails to.
LEMMA AcceptWaitsKeeps ==
  ASSUME EchoInv, acceptA_waits
  PROVE  EchoInv'
  <1>1. /\ Alive /\ run = Listener /\ epfd = "open" /\ died = "no"
        /\ UNCHANGED <<caller, died, file, perClient, data>>
        /\ UNCHANGED <<conn, mem, clients, oom, sent, buf, echoed, stalled>>
        /\ waits("server", Listener, Listener, "EPOLLIN")
    BY DEF acceptA_waits, Runs, Alive, perClient, data
  <1>2. /\ caller = NULL /\ ~oom /\ ~Waiting(Listener)
        /\ ~stalled => current["worker"] # 2
    BY <1>1, JobFacts DEF EchoInv, PlaceInv, CountInv, ServerTypes, FaithInv
  <1>3. CASE waitA(Listener, Listener, "EPOLLIN")
    BY <1>1, <1>2, <1>3, JobFacts, ArmKeeps DEF Op
  <1>4. CASE exit /\ UNCHANGED <<run, current, status>>
    BY <1>1, <1>4, EndKeeps
  <1>5. CASE waitA_fails("server")
    <2>1. refuse /\ errorA("server") /\ UNCHANGED <<epfd, armed, batch>>
      BY <1>5 DEF waitA_fails, refuse
    <2>2. /\ run' = NULL /\ current' \in [Circuits -> 0..2]
          /\ current'["worker"] = current["worker"] /\ status' = "EXIT_FAILURE"
      BY <2>1, ErrorFacts, NetFacts DEF EchoInv
    <2>3. \A k \in Jobs : Waiting(k)' <=> Waiting(k)
      BY <2>1 DEF Waiting
    <2>4. ServerTypes' /\ DataTypes'
      BY <1>1, <2>2 DEF EchoInv, ServerTypes, DataTypes
    <2>5. WaitsInv' /\ StartInv' /\ SlotsInv'
      BY <1>1, <2>1, <2>2, RefuseInv DEF EchoInv, StartInv, SlotsInv
    <2>6. PlaceInv' /\ ConnInv'
      BY <1>1, <1>2, <2>1, <2>2, <2>3, JobFacts DEF EchoInv, PlaceInv, ConnInv
    <2>7. CountInv' /\ ServerInv'
      BY <1>1, <1>2, <2>2, QuietCount, JobFacts DEF EchoInv, ServerInv
    <2>8. KernelInv' /\ FaithInv'
      BY <1>1, <1>2, <2>2, JobFacts
      DEF EchoInv, KernelInv, Pending, FaithInv, Writing
    <2> QED
      BY <2>4, <2>5, <2>6, <2>7, <2>8 DEF EchoInv
  <1> QED
    BY <1>1, <1>3, <1>4, <1>5 DEF waits

\* acceptA has taken a connection of the backlog.
LEMMA AcceptFacts ==
  ASSUME EchoInv, NEW j \in Conns, Accept(j)
  PROVE  /\ Alive /\ run = Listener /\ epfd = "open" /\ died = "no"
         /\ caller = NULL /\ caller' = "acceptA" /\ current["server"] = 2
         /\ conn[j] = "pending" /\ mem[j] = "none" /\ ~oom
         /\ ~Waiting(Listener) /\ ~Waiting(j)
         /\ clients = Cardinality(Live)
         /\ ~stalled => current["worker"] # 2
         /\ file \in [Fds -> File] /\ file[Listener].in - 1 \in Nat
         /\ Cardinality(Pending \ {j}) <= file[Listener].in - 1
         /\ Cardinality(Pending \ {j}) <= file[Listener].in
  <1>1. /\ Alive /\ run = Listener /\ epfd = "open" /\ died = "no"
        /\ caller' = "acceptA" /\ conn[j] = "pending" /\ current["server"] = 2
    BY RunsFacts DEF Accept, Runs, Alive, EchoInv
  <1>2. /\ caller = NULL /\ ~oom /\ ~Waiting(Listener)
        /\ ~stalled => current["worker"] # 2
    BY <1>1, JobFacts DEF EchoInv, PlaceInv, CountInv, ServerTypes, FaithInv
  <1>3. mem[j] = "none" /\ ~Waiting(j) /\ clients = Cardinality(Live)
    BY <1>1, <1>2 DEF EchoInv, ConnInv, CountInv
  <1>4. /\ file \in [Fds -> File] /\ file[Listener].in \in Nat
        /\ Cardinality(Pending) <= file[Listener].in
    BY JobFacts DEF EchoInv, ServerTypes, File, KernelInv
  <1>5. j \in Pending
    BY <1>1 DEF Pending
  <1>6. /\ IsFiniteSet(Pending \ {j}) /\ Cardinality(Pending \ {j}) \in Nat
        /\ Cardinality(Pending \ {j}) = Cardinality(Pending) - 1
    BY <1>5, FiniteConns, FS_RemoveElement, FS_CardinalityType
  <1>7. Cardinality(Pending) \in Nat
    BY FiniteConns
  <1>8. /\ file[Listener].in - 1 \in Nat
        /\ Cardinality(Pending \ {j}) <= file[Listener].in - 1
        /\ Cardinality(Pending \ {j}) <= file[Listener].in
    BY <1>4, <1>6, <1>7
  <1> QED
    BY <1>1, <1>2, <1>3, <1>4, <1>8

\* client_connected runs the worker for the connection.
LEMMA ConnectedKeeps ==
  ASSUME EchoInv, NEW j \in Conns, client_connected(j)
  PROVE  EchoInv'
  <1>1. /\ Accept(j) /\ clients' = clients + 1
        /\ conn' = [conn EXCEPT ![j] = "live"]
        /\ mem' = [mem EXCEPT ![j] = "all"]
        /\ file' = [file EXCEPT ![Listener].in = file[Listener].in - 1]
        /\ runA("worker", j)
        /\ UNCHANGED <<waitVars, status, died, oom, sent, buf, echoed, stalled>>
    BY DEF client_connected, data
  <1>2. /\ Alive /\ run = Listener /\ epfd = "open" /\ died = "no"
        /\ caller = NULL /\ caller' = "acceptA" /\ current["server"] = 2
        /\ conn[j] = "pending" /\ mem[j] = "none" /\ ~oom
        /\ ~Waiting(Listener) /\ ~Waiting(j)
        /\ clients = Cardinality(Live)
        /\ ~stalled => current["worker"] # 2
        /\ file \in [Fds -> File] /\ file[Listener].in - 1 \in Nat
        /\ Cardinality(Pending \ {j}) <= file[Listener].in - 1
    BY <1>1, AcceptFacts
  <1>3. /\ conn' \in [Conns -> {"new", "pending", "live", "over"}]
        /\ mem' \in [Conns -> {"none", "all", "some", "twice"}]
        /\ conn'[j] = "live" /\ mem'[j] = "all"
        /\ \A k \in Conns : k # j => conn'[k] = conn[k] /\ mem'[k] = mem[k]
    BY <1>1 DEF EchoInv, ServerTypes
  <1>4. /\ file' \in [Fds -> File] /\ file'[Listener].in = file[Listener].in - 1
        /\ \A k \in Conns : file'[k] = file[k]
    <2>1. Listener \in Fds /\ \A k \in Conns : k \in Fds /\ k # Listener
      BY JobFacts
    <2>2. /\ file' \in [Fds -> File] /\ file'[Listener].in = file[Listener].in - 1
          /\ \A k \in Fds : k # Listener => file'[k] = file[k]
      BY <1>1, <1>2, <2>1, InFacts
    <2> QED
      BY <2>1, <2>2
  <1>5. /\ run' = j /\ current' \in [Circuits -> 0..2]
        /\ current'["worker"] = IF current["worker"] = 0 THEN 1 ELSE current["worker"]
        /\ current'["server"] = 2
    BY <1>1, <1>2, RunFacts, NetFacts DEF EchoInv
  <1>6. /\ Live' = Live \cup {j} /\ j \notin Live /\ Pending' = Pending \ {j}
    BY <1>2, <1>3 DEF Live, Pending
  <1>7. clients' = Cardinality(Live') /\ clients' \in Nat
    <2>1. Cardinality(Live') = Cardinality(Live) + 1
      BY <1>6, FiniteConns, FS_AddElement
    <2>2. clients' = Cardinality(Live) + 1 /\ Cardinality(Live) \in Nat
      BY <1>1, <1>2, FiniteConns
    <2> QED
      BY <2>1, <2>2
  <1>8. ServerTypes' /\ DataTypes'
    BY <1>1, <1>2, <1>3, <1>4, <1>5, <1>7, JobFacts
    DEF EchoInv, ServerTypes, DataTypes
  <1>9. /\ \A k \in Jobs : Waiting(k)' <=> Waiting(k)
        /\ UNCHANGED <<epfd, armed, batch, count>>
    BY <1>1, SameWaits
  <1>10. WaitsInv' /\ StartInv'
    BY <1>1, <1>2, <1>9, EndInv DEF EchoInv, StartInv
  <1>11. PlaceInv' /\ ConnInv'
    BY <1>1, <1>2, <1>3, <1>5, <1>9, JobFacts DEF EchoInv, PlaceInv, ConnInv
  <1>12. CountInv' /\ ServerInv'
    BY <1>1, <1>2, <1>5, <1>7 DEF EchoInv, CountInv, ServerInv
  <1>13. KernelInv'
    BY <1>1, <1>2, <1>3, <1>4, <1>6 DEF EchoInv, KernelInv
  <1>14. FaithInv'
    <2>1. \A k \in Conns : ~Writing(k)
      BY <1>2, JobFacts DEF Writing
    <2>2. ~stalled => current'["worker"] # 2
      BY <1>2, <1>5
    <2>3. /\ UNCHANGED <<sent, echoed, stalled>> /\ conn[j] = "pending"
          /\ \A k \in Conns : file'[k] = file[k]
          /\ \A k \in Conns : k # j => conn'[k] = conn[k]
      BY <1>1, <1>2, <1>3, <1>4
    <2> QED
      BY <2>1, <2>2, <2>3 DEF EchoInv, FaithInv, Writing
  <1>15. SlotsInv'
    <2>1. Busy' = Busy
      BY <1>2, <1>3, <1>9 DEF Busy
    <2> QED
      BY <1>1, <1>9, <2>1 DEF EchoInv, SlotsInv
  <1> QED
    BY <1>8, <1>10, <1>11, <1>12, <1>13, <1>14, <1>15 DEF EchoInv

\* client_connected without memory: the server fails, or the process dies.
LEMMA ConnectedOomKeeps ==
  ASSUME EchoInv, NEW j \in Conns, client_connected_oom(j)
  PROVE  EchoInv'
  <1>1. /\ Accept(j) /\ clients' = clients + 1 /\ oom' = TRUE
        /\ conn' = [conn EXCEPT ![j] = "over"]
        /\ UNCHANGED <<waitVars, sent, buf, echoed, stalled>>
    BY DEF client_connected_oom, data
  <1>2. /\ Alive /\ run = Listener /\ epfd = "open" /\ died = "no"
        /\ caller = NULL /\ caller' = "acceptA" /\ current["server"] = 2
        /\ conn[j] = "pending" /\ mem[j] = "none" /\ ~oom
        /\ ~Waiting(Listener) /\ ~Waiting(j)
        /\ clients = Cardinality(Live)
        /\ ~stalled => current["worker"] # 2
        /\ file \in [Fds -> File] /\ file[Listener].in - 1 \in Nat
        /\ Cardinality(Pending \ {j}) <= file[Listener].in - 1
        /\ Cardinality(Pending \ {j}) <= file[Listener].in
    BY <1>1, AcceptFacts
  <1>3. /\ conn' \in [Conns -> {"new", "pending", "live", "over"}]
        /\ conn'[j] = "over"
        /\ \A k \in Conns : k # j => conn'[k] = conn[k]
    BY <1>1 DEF EchoInv, ServerTypes
  <1>4. /\ mem' \in [Conns -> {"none", "all", "some", "twice"}]
        /\ mem'[j] \in {"none", "some"}
        /\ \A k \in Conns : k # j => mem'[k] = mem[k]
    <2>1. mem \in [Conns -> {"none", "all", "some", "twice"}]
      BY DEF EchoInv, ServerTypes
    <2>2. mem' = mem \/ mem' = [mem EXCEPT ![j] = "some"]
      BY DEF client_connected_oom
    <2> QED
      BY <1>2, <2>1, <2>2
  <1>5. /\ file' \in [Fds -> File]
        /\ Cardinality(Pending \ {j}) <= file'[Listener].in
        /\ file'[j].in <= sent[j]
        /\ \A k \in Conns : k # j => file'[k] = file[k]
    <2>1. /\ Listener \in Fds /\ j \in Fds /\ j # Listener
          /\ \A k \in Conns : k \in Fds /\ k # Listener
          /\ file[j].in <= sent[j] /\ sent[j] \in Nat
      BY JobFacts, EchoServerAssumption DEF EchoInv, KernelInv, DataTypes
    <2>2. CASE file' = file
      BY <1>2, <2>1, <2>2
    <2>3. CASE file' = [file EXCEPT ![Listener].in = file[Listener].in - 1]
      <3>1. /\ file' \in [Fds -> File] /\ file'[Listener].in = file[Listener].in - 1
            /\ \A k \in Fds : k # Listener => file'[k] = file[k]
        BY <1>2, <2>1, <2>3, InFacts
      <3> QED
        BY <1>2, <2>1, <3>1
    <2>4. CASE file' = [file EXCEPT ![Listener].in = file[Listener].in - 1,
                                    ![j] = Closed]
      <3>1. PICK l : l = [file[Listener] EXCEPT !.in = file[Listener].in - 1]
        OBVIOUS
      <3>2. file[Listener] \in File /\ file[Listener].in - 1 \in Nat
        BY <1>2, <2>1
      <3>3. l \in File /\ l.in = file[Listener].in - 1
        BY <3>1, <3>2 DEF File
      <3>4. /\ file'[Listener] = l /\ file'[j] = Closed
            /\ \A k \in Fds : k # Listener /\ k # j => file'[k] = file[k]
            /\ file' = [k \in Fds |-> file'[k]]
        BY <1>2, <2>1, <2>4, <3>1
      <3>5. Closed \in File /\ Closed.in = 0
        BY DEF Closed, File
      <3>6. file' \in [Fds -> File]
        BY <1>2, <3>3, <3>4, <3>5
      <3> QED
        BY <1>2, <2>1, <3>3, <3>4, <3>5, <3>6
    <2> QED
      BY <2>2, <2>3, <2>4 DEF client_connected_oom
  <1>6. /\ current' \in [Circuits -> 0..2] /\ current'["worker"] = current["worker"]
        /\ \/ /\ run' = NULL /\ current'["server"] = 0 /\ died' = "no"
              /\ status' = "EXIT_FAILURE"
           \/ run' = Listener /\ died' = "SIGSEGV" /\ status' = status
    <2>1. CASE errorA("server") /\ died' = died
      BY <1>2, <2>1, ErrorFacts, NetFacts DEF EchoInv
    <2>2. CASE died' = "SIGSEGV" /\ UNCHANGED <<run, current, status>>
      BY <1>2, <2>2, NetFacts DEF EchoInv, ServerTypes
    <2> QED
      BY <2>1, <2>2 DEF client_connected_oom
  <1>7. Live' = Live /\ Pending' = Pending \ {j}
    BY <1>2, <1>3 DEF Live, Pending
  <1>8. clients' = Cardinality(Live') + 1 /\ clients' \in Nat
    BY <1>1, <1>2, <1>7, FiniteConns
  <1>9. ServerTypes' /\ DataTypes'
    BY <1>1, <1>2, <1>3, <1>4, <1>5, <1>6, <1>8, JobFacts
    DEF EchoInv, ServerTypes, DataTypes
  <1>10. /\ \A k \in Jobs : Waiting(k)' <=> Waiting(k)
         /\ UNCHANGED <<epfd, armed, batch, count>>
    BY <1>1, SameWaits
  <1>11. WaitsInv' /\ StartInv'
    BY <1>1, <1>2, <1>10, EndInv DEF EchoInv, StartInv
  <1>12. PlaceInv' /\ ConnInv'
    BY <1>1, <1>2, <1>3, <1>4, <1>6, <1>10, JobFacts DEF EchoInv, PlaceInv, ConnInv
  <1>13. CountInv' /\ ServerInv'
    BY <1>1, <1>2, <1>3, <1>6, <1>8 DEF EchoInv, CountInv, ServerInv
  <1>14. KernelInv'
    <2>1. \A k \in Conns : file'[k].in <= sent'[k]
      BY <1>1, <1>5 DEF EchoInv, KernelInv
    <2> QED
      BY <1>1, <1>3, <1>5, <1>7, <2>1 DEF EchoInv, KernelInv
  <1>15. FaithInv'
    <2>1. \A k \in Conns : ~Writing(k)
      BY <1>2, JobFacts DEF Writing
    <2>2. \A k \in Conns : ~Writing(k)'
      BY <1>6, JobFacts DEF Writing
    <2>3. /\ UNCHANGED <<sent, echoed, stalled>> /\ conn'[j] = "over"
          /\ ~stalled => current'["worker"] # 2
          /\ \A k \in Conns : k # j => file'[k] = file[k] /\ conn'[k] = conn[k]
      BY <1>1, <1>2, <1>3, <1>5, <1>6
    <2> QED
      BY <2>1, <2>2, <2>3 DEF EchoInv, FaithInv
  <1>16. SlotsInv'
    <2>1. Busy' = Busy \cup {j} /\ j \in Jobs
      BY <1>2, <1>3, <1>10, JobFacts DEF Busy
    <2>2. /\ Cardinality(Busy) \in Nat /\ count \in Nat
          /\ \/ Cardinality(Busy') = Cardinality(Busy)
             \/ Cardinality(Busy') = Cardinality(Busy) + 1
      BY <2>1, BusyFacts, WaitsAssumption DEF EchoInv, WaitsInv, WaitsTypeOK
    <2>3. count <= Cardinality(Busy) => count' <= Cardinality(Busy')
      BY <1>10, <2>2
    <2> QED
      BY <1>6, <1>10, <2>3 DEF EchoInv, SlotsInv
  <1> QED
    BY <1>9, <1>11, <1>12, <1>13, <1>14, <1>15, <1>16 DEF EchoInv

-----------------------------------------------------------------------------
(* The worker circuit: from the connection to the buffer and back.         *)

\* What the next two lemmas share: the worker goes on with its connection.
LEMMA WorkerGoesOn ==
  ASSUME EchoInv, NEW j \in Conns, Alive, run = j,
         run' = j, died' = died, current' \in [Circuits -> 0..2],
         current'["server"] = current["server"],
         UNCHANGED <<waitVars, caller, status, perClient>>,
         file' \in [Fds -> File]
  PROVE  /\ WaitsInv' /\ ServerTypes' /\ StartInv' /\ PlaceInv' /\ ConnInv'
         /\ CountInv' /\ ServerInv' /\ SlotsInv'
  <1>1. /\ conn[j] = "live" /\ ~oom /\ UNCHANGED <<conn, mem, clients, oom, run>>
        /\ died = "no" /\ epfd = "open"
    BY WorkerFacts DEF perClient
  <1>2. WaitsInv' /\ StartInv' /\ PlaceInv' /\ ConnInv' /\ SlotsInv'
    BY <1>1, QuietPlaces
  <1>3. CountInv'
    BY <1>1, QuietCount
  <1>4. ServerTypes'
    BY <1>1 DEF EchoInv, ServerTypes
  <1>5. ServerInv'
    BY <1>1, SameWaits, JobFacts DEF EchoInv, ServerInv, Alive, waitVars
  <1> QED
    BY <1>2, <1>3, <1>4, <1>5

\* readA takes a chunk out of the kernel.
LEMMA ReadKeeps ==
  ASSUME EchoInv, NEW j \in Conns, readA_data(j)
  PROVE  EchoInv'
  <1>1. /\ Alive /\ run = j /\ file[j].in > 0 /\ returnA("worker", j)
        /\ current["worker"] = 1
        /\ file' = [file EXCEPT ![j].in = file[j].in - 1]
        /\ buf' = [buf EXCEPT ![j] = sent[j] - file[j].in + 1]
        /\ UNCHANGED <<waitVars, caller, status, perClient, sent, echoed, stalled>>
    BY RunsFacts DEF readA_data, Runs, HasData, EchoInv
  <1>2. /\ file \in [Fds -> File] /\ j \in Fds /\ j \in Jobs /\ file[j].in \in Nat
        /\ file[j].in <= sent[j] /\ sent[j] \in 0..MaxIn /\ MaxIn \in Nat
        /\ conn[j] = "live"
    BY <1>1, JobFacts, EchoServerAssumption
    DEF EchoInv, ServerTypes, DataTypes, KernelInv, File, ConnInv
  <1>3. /\ run' = j /\ died' = died /\ current' \in [Circuits -> 0..2]
        /\ current'["worker"] = 2 /\ current'["server"] = current["server"]
    BY <1>1, <1>2, ReturnFacts, NetFacts DEF EchoInv
  <1>4. file[j].in - 1 \in Nat /\ sent[j] - file[j].in + 1 \in 0..MaxIn
    BY <1>1, <1>2
  <1>5. /\ file' \in [Fds -> File] /\ file'[j].in = file[j].in - 1
        /\ \A k \in Fds : k # j => file'[k] = file[k]
    BY <1>1, <1>2, <1>4, InFacts
  <1>6. /\ buf' \in [Conns -> 0..MaxIn] /\ buf'[j] = sent[j] - file[j].in + 1
        /\ DataTypes'
    BY <1>1, <1>4 DEF EchoInv, DataTypes
  <1>7. /\ WaitsInv' /\ ServerTypes' /\ StartInv' /\ PlaceInv' /\ ConnInv'
        /\ CountInv' /\ ServerInv' /\ SlotsInv'
    BY <1>1, <1>3, <1>5, WorkerGoesOn
  <1>8. conn' = conn /\ sent' = sent /\ echoed' = echoed /\ stalled' = stalled
    BY <1>1 DEF perClient
  <1>9. KernelInv'
    <2>1. file'[j].in <= sent[j]
      BY <1>2, <1>5
    <2>2. \A k \in Conns : file'[k].in <= sent'[k]
      BY <1>5, <1>8, <2>1, JobFacts DEF EchoInv, KernelInv
    <2>3. file'[Listener] = file[Listener] /\ Pending' = Pending
      BY <1>5, <1>8, JobFacts DEF Pending
    <2> QED
      BY <1>8, <2>2, <2>3 DEF EchoInv, KernelInv
  <1>10. FaithInv'
    <2> SUFFICES ASSUME ~stalled PROVE FaithInv'
      BY <1>8 DEF FaithInv
    <2>1. Len(echoed[j]) + file[j].in = sent[j] /\ Len(echoed[j]) \in Nat
      BY <1>1, <1>2, LenProperties DEF EchoInv, FaithInv, Writing, DataTypes
    <2>2. /\ Len(echoed[j]) + file'[j].in + 1 = sent[j]
          /\ buf'[j] = Len(echoed[j]) + 1
      <3>1. file'[j].in = file[j].in - 1 /\ buf'[j] = sent[j] - file[j].in + 1
        BY <1>5, <1>6
      <3>2. file[j].in \in Nat /\ sent[j] \in Nat
        BY <1>2
      <3>3. \A l, i, s \in Nat : l + i = s =>
              l + (i - 1) + 1 = s /\ s - i + 1 = l + 1
        OBVIOUS
      <3>4. /\ Len(echoed[j]) + (file[j].in - 1) + 1 = sent[j]
            /\ sent[j] - file[j].in + 1 = Len(echoed[j]) + 1
        BY <2>1, <3>2, <3>3
      <3> QED
        BY <3>1, <3>4
    <2>3. \A k \in Conns : k # j => ~Writing(k) /\ ~Writing(k)' /\ file'[k] = file[k]
      BY <1>1, <1>3, <1>5, JobFacts DEF Writing
    <2>4. Writing(j)'
      BY <1>3 DEF Writing
    <2> QED
      BY <1>3, <1>8, <2>2, <2>3, <2>4 DEF EchoInv, FaithInv
  <1> QED
    BY <1>6, <1>7, <1>9, <1>10 DEF EchoInv

\* writeA hands the chunk to the kernel; a short write is not faithful.
LEMMA WriteKeeps ==
  ASSUME EchoInv, NEW j \in Conns, writeA_data(j)
  PROVE  EchoInv'
  <1>1. /\ Alive /\ run = j /\ returnA("worker", j)
        /\ current["worker"] = 2
        /\ UNCHANGED <<waitVars, caller, status, perClient, sent, buf>>
    BY RunsFacts DEF writeA_data, Runs, EchoInv
  <1>2. /\ file \in [Fds -> File] /\ j \in Fds /\ j \in Jobs
        /\ buf[j] \in 0..MaxIn /\ echoed \in [Conns -> Seq(1..MaxIn)]
        /\ stalled \in BOOLEAN /\ echoed[j] \in Seq(1..MaxIn) /\ MaxIn \in Nat
    BY JobFacts, EchoServerAssumption DEF EchoInv, ServerTypes, DataTypes
  <1>3. /\ run' = j /\ died' = died /\ current' \in [Circuits -> 0..2]
        /\ current'["worker"] = 1 /\ current'["server"] = current["server"]
    BY <1>1, <1>2, ReturnFacts, NetFacts DEF EchoInv
  <1>4. /\ file' \in [Fds -> File]
        /\ \A k \in Fds : file'[k].in = file[k].in
    <2>1. ASSUME NEW room \in BOOLEAN, file' = [file EXCEPT ![j].room = room]
          PROVE  file' \in [Fds -> File]
      BY <1>2, <2>1 DEF File
    <2>2. ASSUME NEW room \in BOOLEAN, file' = [file EXCEPT ![j].room = room]
          PROVE  \A k \in Fds : file'[k].in = file[k].in
      BY <1>2, <2>2 DEF File
    <2>3. file' = file \/ \E room \in BOOLEAN : file' = [file EXCEPT ![j].room = room]
      BY DEF writeA_data
    <2> QED
      BY <1>2, <2>1, <2>2, <2>3
  <1>5. /\ stalled' \in BOOLEAN
        /\ ~stalled' => ~stalled
        /\ \/ echoed' = echoed /\ (~stalled' => buf[j] = 0)
           \/ buf[j] # 0 /\ echoed' = [echoed EXCEPT ![j] = Append(echoed[j], buf[j])]
    <2>1. CASE HasRoom(j) /\ buf[j] # 0
      <3>1. PICK room, whole \in BOOLEAN : stalled' = (stalled \/ ~whole)
        BY <2>1 DEF writeA_data
      <3>2. echoed' = IF stalled' THEN echoed
                      ELSE [echoed EXCEPT ![j] = Append(echoed[j], buf[j])]
        BY <2>1 DEF writeA_data
      <3> QED
        BY <1>2, <2>1, <3>1, <3>2
    <2>2. CASE UNCHANGED <<file, stalled, echoed>> /\ buf[j] = 0
      BY <1>2, <2>2
    <2> QED
      BY <2>1, <2>2 DEF writeA_data
  <1>6. echoed' \in [Conns -> Seq(1..MaxIn)]
    <2>1. buf[j] # 0 => Append(echoed[j], buf[j]) \in Seq(1..MaxIn)
      BY <1>2, AppendProperties
    <2> QED
      BY <1>2, <1>5, <2>1
  <1>7. DataTypes'
    <2>1. stalled' \in BOOLEAN /\ sent' = sent /\ buf' = buf
      BY <1>1, <1>5
    <2> QED
      BY <1>6, <2>1 DEF EchoInv, DataTypes
  <1>8. /\ WaitsInv' /\ ServerTypes' /\ StartInv' /\ PlaceInv' /\ ConnInv'
        /\ CountInv' /\ ServerInv' /\ SlotsInv'
    BY <1>1, <1>3, <1>4, WorkerGoesOn
  <1>9. conn' = conn /\ sent' = sent /\ buf' = buf /\ conn[j] = "live"
    BY <1>1, WorkerFacts DEF perClient
  <1>10. \A k \in Conns : k # j => echoed'[k] = echoed[k]
    BY <1>2, <1>5
  <1>11. KernelInv'
    <2>1. Pending' = Pending /\ \A k \in Conns : conn[k] = "new" => k # j
      BY <1>9 DEF Pending
    <2> QED
      BY <1>4, <1>9, <1>10, <2>1, JobFacts DEF EchoInv, KernelInv
  <1>12. FaithInv'
    <2> SUFFICES ASSUME ~stalled' PROVE FaithInv'
      BY DEF FaithInv
    <2>1. /\ ~stalled /\ Writing(j)
          /\ Len(echoed[j]) + file[j].in + 1 = sent[j]
          /\ buf[j] = Len(echoed[j]) + 1
          /\ \A i \in 1..Len(echoed[j]) : echoed[j][i] = i
      <3>1. ~stalled /\ Writing(j)
        BY <1>1, <1>5 DEF Writing
      <3> QED
        BY <3>1 DEF EchoInv, FaithInv
    <2>2. Len(echoed[j]) \in Nat /\ file[j].in \in Nat /\ sent[j] \in Nat
      BY <1>2, LenProperties DEF File, EchoInv, DataTypes
    <2>3. echoed'[j] = Append(echoed[j], buf[j]) /\ buf[j] \in 1..MaxIn
      <3>1. buf[j] # 0
        BY <2>1, <2>2
      <3>2. echoed' = [echoed EXCEPT ![j] = Append(echoed[j], buf[j])]
        BY <1>5, <3>1
      <3>3. echoed'[j] = Append(echoed[j], buf[j])
        BY <1>2, <3>2
      <3> QED
        BY <1>2, <3>1, <3>3
    <2>4. /\ Len(echoed'[j]) = Len(echoed[j]) + 1
          /\ \A i \in 1..Len(echoed[j]) : echoed'[j][i] = echoed[j][i]
          /\ echoed'[j][Len(echoed[j]) + 1] = buf[j]
      BY <1>2, <2>3, AppendProperties
    <2>5. ASSUME NEW i \in 1..Len(echoed'[j]) PROVE echoed'[j][i] = i
      <3>1. i \in 1..Len(echoed[j]) \/ i = Len(echoed[j]) + 1
        BY <2>2, <2>4
      <3>2. CASE i \in 1..Len(echoed[j])
        BY <2>1, <2>4, <3>2
      <3>3. CASE i = Len(echoed[j]) + 1
        BY <2>1, <2>4, <3>3
      <3> QED
        BY <3>1, <3>2, <3>3
    <2>6. file'[j].in = file[j].in /\ \A k \in Conns : file'[k].in = file[k].in
      BY <1>2, <1>4, JobFacts
    <2>7. Len(echoed'[j]) + file'[j].in = sent'[j]
      BY <1>9, <2>1, <2>2, <2>4, <2>6
    <2>8. \A k \in Conns : ~Writing(k)' /\ (k # j => ~Writing(k))
      BY <1>1, <1>3 DEF Writing
    <2>9. \A k \in Conns : k # j =>
            /\ \A i \in 1..Len(echoed'[k]) : echoed'[k][i] = i
            /\ conn'[k] # "over" => Len(echoed'[k]) + file'[k].in = sent'[k]
      BY <1>9, <1>10, <2>1, <2>6, <2>8 DEF EchoInv, FaithInv
    <2> QED
      BY <1>3, <2>5, <2>7, <2>8, <2>9 DEF FaithInv
  <1> QED
    BY <1>7, <1>8, <1>11, <1>12 DEF EchoInv

-----------------------------------------------------------------------------
(* The loop.                                                               *)

\* A reported job still waits, now in the batch.
LEMMA PollKeeps ==
  ASSUME EchoInv, loop_wait, UNCHANGED <<perClient, data>>
  PROVE  EchoInv'
  <1>1. PICK reported \in SUBSET Fds : poll(reported)
    BY DEF loop_wait
  <1>2. /\ Idle /\ UNCHANGED <<run, caller, current, status, died, file>>
        /\ UNCHANGED <<conn, mem, clients, oom, sent, buf, echoed, stalled>>
    BY DEF loop_wait, ioVars, control, perClient, data
  <1>3. /\ epfd' = epfd /\ count' = count /\ batch = {}
        /\ \A fd \in reported : armed[fd] # NULL
        /\ \A fd \in Fds :
             armed'[fd] = IF fd \in reported THEN NULL ELSE armed[fd]
        /\ batch' \subseteq [fd : Fds, job : Jobs, counted : BOOLEAN, flag : Flag]
        /\ \A ev \in batch' : /\ ev.fd \in reported
                              /\ ev.job = armed[ev.fd].job
                              /\ ev.counted = armed[ev.fd].counted
        /\ \A fd \in reported : \E ev \in batch' : ev.fd = fd
        /\ \A ev1, ev2 \in batch' : ev1.fd = ev2.fd => ev1 = ev2
    BY <1>1, PollTypes DEF EchoInv
  <1>4. /\ epfd = "open" /\ died = "no" /\ run = NULL /\ caller = NULL /\ ~oom
    BY <1>2, JobFacts DEF Idle, Alive, EchoInv, CountInv
  <1>5. \A k \in Jobs : Waiting(k)' <=> Waiting(k)
    <2> SUFFICES ASSUME NEW k \in Jobs PROVE Waiting(k)' <=> Waiting(k)
      OBVIOUS
    <2>1. k \in Fds /\ ~\E ev \in batch : ev.fd = k
      BY <1>3, JobFacts
    <2>2. (\E ev \in batch' : ev.fd = k) <=> k \in reported
      BY <1>3
    <2> QED
      BY <1>3, <2>1, <2>2 DEF Waiting
  <1>6. WaitsInv' /\ StartInv'
    BY <1>1, <1>3, <1>4, PollInv DEF EchoInv, StartInv
  <1>7. ServerTypes' /\ DataTypes'
    BY <1>2 DEF EchoInv, ServerTypes, DataTypes
  <1>8. PlaceInv'
    <2>1. \A ev \in batch' : ev.job = ev.fd /\ armed'[ev.fd] = NULL
      BY <1>3, JobFacts DEF EchoInv, PlaceInv
    <2>2. \A k \in Jobs : armed'[k] # NULL => armed'[k].job = k
      BY <1>3, JobFacts DEF EchoInv, PlaceInv
    <2> QED
      BY <1>2, <1>3, <1>4, <2>1, <2>2, JobFacts DEF PlaceInv
  <1>9. ConnInv'
    BY <1>2, <1>5, JobFacts DEF EchoInv, ConnInv
  <1>10. CountInv' /\ ServerInv'
    BY <1>2, <1>3, <1>4, <1>5, QuietCount, JobFacts DEF EchoInv, ServerInv, Alive
  <1>11. KernelInv' /\ FaithInv'
    BY <1>2 DEF EchoInv, KernelInv, Pending, FaithInv, Writing
  <1>12. SlotsInv'
    <2>1. Busy' = Busy
      BY <1>2, <1>5 DEF Busy
    <2> SUFFICES ASSUME Cardinality(Conns) < EV_MAXEVENTS, status = "working"
                 PROVE  SlotsInv'
      BY <1>2 DEF SlotsInv
    <2>2. count <= Cardinality(Busy) /\ \A k \in Jobs : armed[k] # NULL => armed[k].counted
      BY <1>4 DEF EchoInv, SlotsInv
    <2>3. \A ev \in batch' : ev.counted
      BY <1>3, <2>2, JobFacts
    <2>4. \A k \in Jobs : armed'[k] # NULL => armed'[k].counted
      BY <1>3, <2>2, JobFacts
    <2> QED
      BY <1>3, <2>1, <2>2, <2>3, <2>4 DEF SlotsInv
  <1> QED
    BY <1>6, <1>7, <1>8, <1>9, <1>10, <1>11, <1>12 DEF EchoInv

\* What the loop takes from the batch was a job that waited nowhere else.
LEMMA TakeFacts ==
  ASSUME EchoInv, Idle, NEW ev \in batch, take(ev)
  PROVE  /\ ev.job \in Jobs /\ ev.fd = ev.job
         /\ epfd = "open" /\ died = "no" /\ run = NULL /\ caller = NULL /\ ~oom
         /\ epfd' = epfd /\ batch' = batch \ {ev} /\ WaitsInv'
         /\ Waiting(ev.job) /\ ev.job \in Busy
         /\ \A k \in Jobs : armed'[k] = armed[k]
         /\ \A k \in Jobs : Waiting(k)' <=> (Waiting(k) /\ k # ev.job)
         /\ ~stalled => current["worker"] # 2
         /\ (Cardinality(Conns) < EV_MAXEVENTS /\ status = "working") =>
              count' = count - 1 /\ count <= Cardinality(Busy)
  <1>1. /\ epfd = "open" /\ died = "no" /\ run = NULL /\ caller = NULL /\ ~oom
        /\ epfd' = epfd /\ batch' = batch \ {ev}
        /\ count' = IF ev.counted THEN count - 1 ELSE count
    BY JobFacts DEF take, Idle, Alive, EchoInv, CountInv
  <1>2. WaitsInv'
    BY TakeInv DEF EchoInv
  <1>3. /\ ev.job \in Jobs /\ ev.fd = ev.job /\ armed[ev.fd] = NULL
        /\ armed \in [Fds -> Wait \cup {NULL}]
    BY DEF EchoInv, WaitsInv, WaitsTypeOK, PlaceInv
  <1>4. Waiting(ev.job) /\ ev.job \in Busy
    BY <1>3 DEF Waiting, Busy
  <1>5. \A k \in Jobs : armed'[k] = armed[k]
    BY <1>3, JobFacts DEF take
  <1>6. \A k \in Jobs : Waiting(k)' <=> (Waiting(k) /\ k # ev.job)
    <2> SUFFICES ASSUME NEW k \in Jobs
                 PROVE  Waiting(k)' <=> (Waiting(k) /\ k # ev.job)
      OBVIOUS
    <2>1. CASE k = ev.job
      <3>1. \A e \in batch' : e.fd # k
        BY <1>1, <1>3, <2>1 DEF EchoInv, PlaceInv
      <3> QED
        BY <1>3, <1>5, <2>1, <3>1 DEF Waiting
    <2>2. CASE k # ev.job
      <3>1. (\E e \in batch' : e.fd = k) <=> (\E e \in batch : e.fd = k)
        BY <1>1, <1>3, <2>2
      <3> QED
        BY <1>5, <2>2, <3>1 DEF Waiting
    <2> QED
      BY <2>1, <2>2
  <1>7. ~stalled => current["worker"] # 2
    BY <1>1, JobFacts DEF EchoInv, FaithInv
  <1>8. (Cardinality(Conns) < EV_MAXEVENTS /\ status = "working") =>
          count' = count - 1 /\ count <= Cardinality(Busy)
    BY <1>1 DEF EchoInv, SlotsInv
  <1> QED
    BY <1>1, <1>2, <1>3, <1>4, <1>5, <1>6, <1>7, <1>8

\* The job of a ready descriptor goes on.
LEMMA LoopRunKeeps ==
  ASSUME EchoInv, NEW ev \in batch, loop_run(CircOf(ev.job), ev),
         UNCHANGED <<perClient, data>>
  PROVE  EchoInv'
  <1>1. /\ Idle /\ take(ev) /\ runA(CircOf(ev.job), ev.job)
        /\ UNCHANGED <<caller, status, died, file>>
        /\ UNCHANGED <<conn, mem, clients, oom, sent, buf, echoed, stalled>>
    BY DEF loop_run, perClient, data
  <1>2. PICK j \in Jobs : j = ev.job
    BY <1>1, TakeFacts
  <1>3. /\ epfd = "open" /\ died = "no" /\ run = NULL /\ caller = NULL /\ ~oom
        /\ epfd' = epfd /\ batch' = batch \ {ev} /\ WaitsInv'
        /\ Waiting(j) /\ j \in Busy
        /\ \A k \in Jobs : armed'[k] = armed[k]
        /\ \A k \in Jobs : Waiting(k)' <=> (Waiting(k) /\ k # j)
        /\ ~stalled => current["worker"] # 2
        /\ (Cardinality(Conns) < EV_MAXEVENTS /\ status = "working") =>
             count' = count - 1 /\ count <= Cardinality(Busy)
    BY <1>1, <1>2, TakeFacts
  <1>4. /\ CircOf(j) \in Circuits /\ runA(CircOf(j), j)
        /\ CircOf(j) = "worker" => j \in Conns
    BY <1>1, <1>2, NetFacts, JobFacts DEF CircOf
  <1>5. /\ run' = j /\ current' \in [Circuits -> 0..2]
        /\ \A d \in Circuits :
             current'[d] = current[d] \/ (current[d] = 0 /\ current'[d] = 1)
    BY <1>4, RunFacts DEF EchoInv
  <1>6. ~stalled => current'["worker"] # 2
    BY <1>3, <1>5, NetFacts
  <1>7. ServerTypes' /\ DataTypes'
    BY <1>1, <1>5 DEF EchoInv, ServerTypes, DataTypes
  <1>8. StartInv'
    BY <1>3 DEF StartInv
  <1>9. PlaceInv'
    <2>1. \A e \in batch' : e.job = e.fd /\ armed'[e.fd] = NULL
      <3> SUFFICES ASSUME NEW e \in batch PROVE e.job = e.fd /\ armed'[e.fd] = NULL
        BY <1>3
      <3>1. e.fd \in Jobs /\ e.job = e.fd /\ armed[e.fd] = NULL
        BY JobFacts DEF EchoInv, PlaceInv, WaitsInv, WaitsTypeOK
      <3> QED
        BY <1>3, <3>1
    <2>2. \A k \in Jobs : armed'[k] # NULL => armed'[k].job = k
      BY <1>3 DEF EchoInv, PlaceInv
    <2>3. \A e1, e2 \in batch' : e1.fd = e2.fd => e1 = e2
      BY <1>3 DEF EchoInv, PlaceInv
    <2> QED
      BY <1>1, <1>3, <1>5, <2>1, <2>2, <2>3, JobFacts DEF PlaceInv
  <1>10. ConnInv'
    BY <1>1, <1>3, <1>5, JobFacts DEF EchoInv, ConnInv
  <1>11. CountInv' /\ ServerInv'
    BY <1>1, <1>3, <1>5, QuietCount, JobFacts DEF EchoInv, ServerInv, Alive
  <1>12. KernelInv'
    BY <1>1 DEF EchoInv, KernelInv, Pending
  <1>13. FaithInv'
    <2>1. \A k \in Conns : ~Writing(k)
      BY <1>3, JobFacts DEF Writing
    <2> QED
      BY <1>1, <1>6, <2>1 DEF EchoInv, FaithInv, Writing
  <1>14. SlotsInv'
    <2> SUFFICES ASSUME Cardinality(Conns) < EV_MAXEVENTS, status = "working"
                 PROVE  SlotsInv'
      BY <1>1 DEF SlotsInv
    <2>1. j \in Conns => conn[j] = "live"
      BY <1>3 DEF EchoInv, ConnInv
    <2>2. Busy' = Busy \ {j}
      BY <1>1, <1>3, <2>1 DEF Busy
    <2>3. /\ Cardinality(Busy \ {j}) = Cardinality(Busy) - 1
          /\ Cardinality(Busy) \in Nat /\ count \in Nat
      BY <1>3, BusyFacts, WaitsAssumption DEF EchoInv, WaitsInv, WaitsTypeOK
    <2>4. count' = count - 1 /\ count <= Cardinality(Busy)
      BY <1>3
    <2>5. count' <= Cardinality(Busy')
      BY <2>2, <2>3, <2>4
    <2>6. /\ \A k \in Jobs : armed[k] # NULL => armed[k].counted
          /\ \A e \in batch : e.counted
      BY <1>3 DEF EchoInv, SlotsInv
    <2> QED
      BY <1>3, <2>5, <2>6 DEF SlotsInv
  <1> QED
    BY <1>3, <1>7, <1>8, <1>9, <1>10, <1>11, <1>12, <1>13, <1>14 DEF EchoInv

\* A connection in error is closed by the loop.
LEMMA LoopCloseKeeps ==
  ASSUME EchoInv, NEW ev \in batch, ev.job # Listener, loop_close("worker", ev),
         client_error(ev.job), UNCHANGED data
  PROVE  EchoInv'
  <1>1. /\ Idle /\ take(ev) /\ errorA("worker") /\ UNCHANGED <<caller, died>>
        /\ file' = [file EXCEPT ![ev.fd] = Closed]
        /\ UNCHANGED <<sent, buf, echoed, stalled>> /\ Alive
    BY DEF loop_close, data, Idle
  <1>2. PICK j \in Conns : j = ev.job
    BY <1>1, TakeFacts, JobFacts
  <1>3. /\ epfd' = epfd /\ batch' = batch \ {ev} /\ WaitsInv' /\ run = NULL /\ ~oom
        /\ Waiting(j) /\ j \in Busy /\ ev.fd = j
        /\ \A k \in Jobs : armed'[k] = armed[k]
        /\ \A k \in Jobs : Waiting(k)' <=> (Waiting(k) /\ k # j)
        /\ (Cardinality(Conns) < EV_MAXEVENTS /\ status = "working") =>
             count' = count - 1 /\ count <= Cardinality(Busy)
    BY <1>1, <1>2, TakeFacts
  <1>4. conn[j] = "live"
    BY <1>3 DEF EchoInv, ConnInv
  <1>5. /\ Busy \cup {j} = Busy /\ Cardinality(Busy) \in Nat /\ count \in Nat
    BY <1>3, BusyFacts, WaitsAssumption DEF EchoInv, WaitsInv, WaitsTypeOK
  <1>6. (Cardinality(Conns) < EV_MAXEVENTS /\ status = "working") =>
          count' <= Cardinality(Busy \cup {j})
    BY <1>3, <1>5
  <1>7. client_error(j) /\ file' = [file EXCEPT ![j] = Closed] /\ batch' \subseteq batch
    BY <1>1, <1>2, <1>3
  <1> QED
    BY <1>1, <1>3, <1>4, <1>6, <1>7, OverKeeps

-----------------------------------------------------------------------------
(* The specification.                                                      *)

\* Nothing has happened yet.
LEMMA InitEchoInv == EchoInit => EchoInv
  <1> SUFFICES ASSUME EchoInit PROVE EchoInv
    OBVIOUS
  <1>1. /\ WaitsInit /\ epfd = "none" /\ count = 0 /\ batch = {}
        /\ armed = [fd \in Fds |-> NULL]
        /\ run = NULL /\ caller = NULL /\ status = "working" /\ died = "no"
        /\ current = [c \in Circuits |-> 0]
    BY DEF EchoInit, IoInit, WaitsInit
  <1>2. /\ file = [fd \in Fds |-> Closed]
        /\ conn = [j \in Conns |-> "new"] /\ mem = [j \in Conns |-> "none"]
        /\ clients = 0 /\ oom = FALSE
    BY DEF EchoInit
  <1>3. /\ sent = [j \in Conns |-> 0] /\ buf = [j \in Conns |-> 0]
        /\ echoed = [j \in Conns |-> <<>>] /\ stalled = FALSE /\ MaxIn \in Nat
    BY EchoServerAssumption DEF EchoInit
  <1>4. WaitsInv
    BY <1>1, InitWaitsInv
  <1>5. Closed \in File /\ Closed.in = 0
    BY DEF Closed, File
  <1>6. ServerTypes
    <2>1. current \in [Circuits -> 0..2] /\ file \in [Fds -> File]
      BY <1>1, <1>2, <1>5
    <2>2. /\ conn \in [Conns -> {"new", "pending", "live", "over"}]
          /\ mem \in [Conns -> {"none", "all", "some", "twice"}]
      BY <1>2
    <2>3. oom \in BOOLEAN
      BY <1>2
    <2> QED
      BY <1>1, <1>2, <2>1, <2>2, <2>3 DEF ServerTypes
  <1>7. DataTypes
    <2>1. <<>> \in Seq(1..MaxIn)
      OBVIOUS
    <2>2. echoed \in [Conns -> Seq(1..MaxIn)]
      BY <1>3, <2>1
    <2>3. sent \in [Conns -> 0..MaxIn] /\ buf \in [Conns -> 0..MaxIn]
      BY <1>3
    <2>4. stalled \in BOOLEAN
      BY <1>3
    <2> QED
      BY <2>2, <2>3, <2>4 DEF DataTypes
  <1>8. \A j \in Jobs : armed[j] = NULL /\ ~Waiting(j)
    BY <1>1, JobFacts DEF Waiting
  <1>9. StartInv /\ PlaceInv /\ ConnInv /\ SlotsInv
    BY <1>1, <1>2, <1>8, JobFacts DEF StartInv, PlaceInv, ConnInv, SlotsInv
  <1>10. Live = {} /\ Pending = {} /\ Cardinality({}) = 0
    BY <1>2, FS_EmptySet DEF Live, Pending
  <1>11. CountInv /\ ServerInv
    BY <1>1, <1>2, <1>10, JobFacts DEF CountInv, ServerInv, Alive
  <1>12. \A j \in Jobs : file[j].in = 0
    BY <1>2, <1>5, JobFacts
  <1>13. \A j \in Conns : sent[j] = 0 /\ echoed[j] = <<>> /\ file[j].in = 0
    BY <1>3, <1>12, JobFacts
  <1>14. file[Listener].in = 0
    BY <1>12, JobFacts
  <1>15. KernelInv
    BY <1>10, <1>13, <1>14 DEF KernelInv
  <1>16. FaithInv
    <2>1. current["worker"] = 0 /\ \A j \in Conns : ~Writing(j)
      BY <1>1, NetFacts DEF Writing
    <2>2. Len(<<>>) = 0
      OBVIOUS
    <2> QED
      BY <1>13, <2>1, <2>2 DEF FaithInv
  <1> QED
    BY <1>4, <1>6, <1>7, <1>9, <1>11, <1>15, <1>16 DEF EchoInv

\* A step of the server keeps the invariant.
LEMMA ServerKeeps ==
  ASSUME EchoInv, ServerStep
  PROVE  EchoInv'
  <1>1. CASE main
    BY <1>1, MainKeeps
  <1>2. CASE listenA \/ listenA_fails \/ acceptA_fails
    BY <1>2, ListenKeeps
  <1>3. CASE acceptA_returns
    BY <1>3, AcceptReturnsKeeps
  <1>4. CASE acceptA_waits
    BY <1>4, AcceptWaitsKeeps
  <1>5. ASSUME NEW j \in Conns,
               \/ client_connected(j) \/ client_connected_oom(j)
               \/ readA_data(j) \/ writeA_data(j)
        PROVE  EchoInv'
    BY <1>5, ConnectedKeeps, ConnectedOomKeeps, ReadKeeps, WriteKeeps
  <1>6. ASSUME NEW j \in Conns, readA_fails(j)
        PROVE  EchoInv'
    BY <1>6, WorkerFailsKeeps DEF readA_fails, Runs
  <1>7. ASSUME NEW j \in Conns, readA_waits(j)
        PROVE  EchoInv'
    <2>1. /\ Alive /\ run = j /\ worker_waits(j, "EPOLLIN") /\ current["worker"] = 1
          /\ UNCHANGED <<sent, buf, echoed>> /\ stalled' = stalled
      BY <1>7, RunsFacts DEF readA_waits, Runs, data, EchoInv
    <2> QED
      BY <2>1, WorkerWaitsKeeps DEF Op
  <1>8. ASSUME NEW j \in Conns, writeA_fails(j)
        PROVE  EchoInv'
    <2>1. /\ Alive /\ run = j /\ UNCHANGED <<waitVars, caller, file, data>>
          /\ UNCHANGED <<sent, buf, echoed, stalled>>
      BY <1>8 DEF writeA_fails, Runs, data
    <2>2. CASE errorA("worker") /\ client_error(j) /\ UNCHANGED died
      BY <2>1, <2>2, WorkerFailsKeeps
    <2>3. CASE died' = "SIGPIPE" /\ UNCHANGED <<run, current, status, perClient>>
      <3>1. UNCHANGED <<conn, mem, clients, oom>> /\ epfd' = epfd
        BY <2>1, <2>3 DEF perClient, waitVars
      <3>2. WaitsInv' /\ StartInv' /\ PlaceInv' /\ ConnInv' /\ SlotsInv'
        BY <2>1, <2>3, QuietPlaces DEF Alive
      <3>3. CountInv'
        BY <2>3, <3>1, QuietCount
      <3>4. ServerTypes' /\ DataTypes' /\ ServerInv'
        BY <2>1, <2>3, <3>1 DEF EchoInv, ServerTypes, DataTypes, ServerInv, Alive
      <3>5. KernelInv' /\ FaithInv'
        BY <2>1, <2>3, <3>1 DEF EchoInv, KernelInv, Pending, FaithInv, Writing
      <3> QED
        BY <3>2, <3>3, <3>4, <3>5 DEF EchoInv
    <2> QED
      BY <1>8, <2>2, <2>3 DEF writeA_fails
  <1>9. ASSUME NEW j \in Conns, writeA_waits(j)
        PROVE  EchoInv'
    BY <1>9, WorkerWaitsKeeps DEF writeA_waits, Runs, Op
  <1>10. CASE loop
    <2>1. CASE loop_wait /\ UNCHANGED <<perClient, data>>
      BY <2>1, PollKeeps
    <2>2. ASSUME NEW ev \in batch, loop_run(CircOf(ev.job), ev),
                 UNCHANGED <<perClient, data>>
          PROVE  EchoInv'
      BY <2>2, LoopRunKeeps
    <2>3. ASSUME NEW ev \in batch, ev.job # Listener, loop_close("worker", ev),
                 client_error(ev.job), UNCHANGED data
          PROVE  EchoInv'
      BY <2>3, LoopCloseKeeps
    <2>4. CASE loop_end /\ UNCHANGED <<perClient, data>>
      <3>1. /\ epfd = "open" /\ deinit
            /\ UNCHANGED <<run, caller, current, status, died, file, perClient>>
            /\ UNCHANGED <<sent, buf, echoed>> /\ stalled' = stalled
        BY <2>4 DEF loop_end, Idle, Alive, ioVars, control, data
      <3> QED
        BY <3>1, EndKeeps
    <2> QED
      BY <1>10, <2>1, <2>2, <2>3, <2>4 DEF loop
  <1> QED
    BY <1>1, <1>2, <1>3, <1>4, <1>5, <1>6, <1>7, <1>8, <1>9, <1>10 DEF ServerStep

\* Every step keeps it.
LEMMA StepEchoInv == EchoInv /\ [EchoNext]_echoVars => EchoInv'
  <1> SUFFICES ASSUME EchoInv, [EchoNext]_echoVars PROVE EchoInv'
    OBVIOUS
  <1>1. CASE ServerStep
    BY <1>1, ServerKeeps
  <1>2. ASSUME NEW j \in Conns, connect(j) \/ client(j)
        PROVE  EchoInv'
    BY <1>2, ConnectKeeps, ClientKeeps
  <1>3. CASE UNCHANGED echoVars
    <2>1. /\ UNCHANGED waitVars /\ UNCHANGED <<epfd, armed, count, batch>>
          /\ UNCHANGED <<run, caller, current, status, died, file>>
          /\ UNCHANGED <<conn, mem, clients, oom, sent, buf, echoed, stalled>>
      BY <1>3 DEF echoVars, waitVars, ioVars, control, perClient, data
    <2>2. \A k \in Jobs : Waiting(k)' <=> Waiting(k)
      BY <2>1, SameWaits
    <2>3. WaitsInv' /\ StartInv' /\ PlaceInv' /\ ConnInv'
      BY <2>1, <2>2, EndInv, JobFacts DEF EchoInv, StartInv, PlaceInv, ConnInv
    <2>4. Busy' = Busy /\ Live' = Live /\ Pending' = Pending
      BY <2>1, <2>2 DEF Busy, Live, Pending
    <2>5. CountInv' /\ ServerInv' /\ SlotsInv'
      BY <2>1, <2>2, <2>4, JobFacts DEF EchoInv, CountInv, ServerInv, SlotsInv, Alive
    <2>6. ServerTypes' /\ DataTypes' /\ KernelInv' /\ FaithInv'
      BY <2>1, <2>4
      DEF EchoInv, ServerTypes, DataTypes, KernelInv, FaithInv, Writing
    <2> QED
      BY <2>3, <2>5, <2>6 DEF EchoInv
  <1> QED
    BY <1>1, <1>2, <1>3 DEF EchoNext

\* The invariant holds as long as the program runs.
LEMMA AlwaysEchoInv == EchoSpec => []EchoInv
  BY InitEchoInv, StepEchoInv, PTL DEF EchoSpec

\* Type correctness of the echo server: in particular the counter of clients
\* never goes below 0, nor above the number of connections.
THEOREM EchoTypeCorrect == EchoSpec => []EchoTypeOK
  <1>1. EchoInv => EchoTypeOK
    <2> SUFFICES ASSUME EchoInv PROVE EchoTypeOK
      OBVIOUS
    <2>1. Len(Net["server"]) = 2 /\ Len(Net["worker"]) = 2
      BY NetFacts
    <2>2. \A c \in Circuits : Len(Net[c]) = 2
      BY <2>1, NetFacts
    <2>3. /\ current \in [Circuits -> Nat] /\ \A c \in Circuits : current[c] <= Len(Net[c])
      BY <2>2 DEF EchoInv, ServerTypes
    <2>4. IoTypeOK
      BY <2>3 DEF EchoInv, WaitsInv, ServerTypes, IoTypeOK
    <2>5. clients \in 0..Cardinality(Conns)
      <3>1. CASE ~oom
        BY <3>1, FiniteConns DEF EchoInv, CountInv
      <3>2. CASE oom
        <4>1. clients = Cardinality(Live) + 1 /\ Live # Conns
          BY <3>2 DEF EchoInv, CountInv, Live
        <4> QED
          BY <4>1, FiniteConns
      <3> QED
        BY <3>1, <3>2
    <2>6. \A j \in Conns : \A i \in 1..Len(echoed[j]) : echoed[j][i] \in 1..MaxIn
      BY ElementOfSeq DEF EchoInv, DataTypes
    <2> QED
      BY <2>4, <2>5, <2>6 DEF EchoInv, ServerTypes, DataTypes, EchoTypeOK
  <1> QED
    BY <1>1, AlwaysEchoInv, PTL

\* client_connected and client_error count the connections that are served,
\* whichever way each of them ends.
THEOREM ClientsAreCounted == EchoSpec => []ClientsCounted
  <1>1. EchoInv => ClientsCounted
    BY DEF EchoInv, CountInv, ClientsCounted, Live
  <1> QED
    BY <1>1, AlwaysEchoInv, PTL

\* acceptA never returns to a circuit without a current element, unless
\* client_connected ran out of memory.
THEOREM NoNullDereference == EchoSpec => []NoNullReturn
  <1>1. EchoInv => NoNullReturn
    BY DEF EchoInv, ServerInv, NoNullReturn
  <1> QED
    BY <1>1, AlwaysEchoInv, PTL

\* client_error frees a connection's data once, and no element runs, waits or
\* is reported for a connection whose data was freed.
THEOREM BuffersOutliveTheirUse == EchoSpec => []BuffersLive
  <1>1. EchoInv => BuffersLive
    <2> SUFFICES ASSUME EchoInv, NEW j \in Conns
                 PROVE  /\ mem[j] # "twice"
                        /\ (\/ run = j
                            \/ \E fd \in Fds : armed[fd] # NULL /\ armed[fd].job = j
                            \/ \E ev \in batch : ev.job = j) => mem[j] = "all"
      BY DEF BuffersLive
    <2>1. (\E fd \in Fds : armed[fd] # NULL /\ armed[fd].job = j) => Waiting(j)
      BY JobFacts DEF EchoInv, PlaceInv, Waiting
    <2>2. (\E ev \in batch : ev.job = j) => Waiting(j)
      BY DEF EchoInv, PlaceInv, Waiting
    <2> QED
      BY <2>1, <2>2 DEF EchoInv, ConnInv
  <1> QED
    BY <1>1, AlwaysEchoInv, PTL

\* Until a write is short or has to wait, every client gets back what it sent,
\* in order, although all connections share one worker and its c->current.
THEOREM FaithfulEcho == EchoSpec => []EchoIsFaithful
  <1>1. EchoInv => EchoIsFaithful
    BY DEF EchoInv, FaithInv, EchoIsFaithful
  <1> QED
    BY <1>1, AlwaysEchoInv, PTL

\* With room in the table for every connection and the listener, nothing that
\* clients do makes the server stop listening: the wait of the listener is
\* there between two events, and it is counted.
THEOREM ServerKeepsListening ==
  ASSUME Cardinality(Conns) < EV_MAXEVENTS
  PROVE  EchoSpec => []KeepsListening
  <1>1. EchoInv => KeepsListening
    <2> SUFFICES ASSUME EchoInv, Idle, status = "working"
                 PROVE  \/ armed[Listener] # NULL /\ armed[Listener].counted
                        \/ \E ev \in batch : ev.job = Listener /\ ev.counted
      BY DEF KeepsListening
    <2>1. Waiting(Listener)
      BY JobFacts DEF Idle, EchoInv, ServerInv
    <2>2. /\ \A j \in Jobs : armed[j] # NULL => armed[j].counted
          /\ \A ev \in batch : ev.counted /\ ev.job = ev.fd
      BY DEF Idle, Alive, EchoInv, SlotsInv, PlaceInv
    <2> QED
      BY <2>1, <2>2, JobFacts DEF Waiting
  <1> QED
    BY <1>1, AlwaysEchoInv, PTL
=============================================================================
