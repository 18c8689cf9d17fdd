----------------------------- MODULE EchoServer -----------------------------
(***************************************************************************)
(* examples/echoserver.c with listenA and acceptA of meloop/tcp.c, readA   *)
(* and writeA of meloop/io.c, on top of IoLoop.                            *)
(*                                                                         *)
(* The circuit "server" listens and accepts for ever.  For each connection *)
(* acceptA calls client_connected, which runs the one circuit "worker" for *)
(* it, inside the call: acceptA goes on when the worker waits or fails.    *)
(* All connections share the worker and its c->current.                    *)
(*                                                                         *)
(* Job and descriptor have the same name: the listener, or a connection,   *)
(* which no later connection reuses.  A chunk is what one read takes.      *)
(***************************************************************************)
EXTENDS IoLoop

CONSTANTS
  Listener,  \* The fileS of the server.
  Conns,     \* The tcpconnS of the connections.
  MaxIn      \* Bounds the chunks that all clients send.

ASSUME EchoServerAssumption ==
  /\ Listener \notin Conns
  /\ Jobs = Conns \cup {Listener}
  /\ Fds = Jobs
  /\ NULL \notin Jobs /\ NULL # "acceptA"
  /\ IsFiniteSet(Conns)
  /\ MaxIn \in Nat

\* The circuits that main builds.
EchoCircuits == {"server", "worker"}
EchoNet  == [c \in EchoCircuits |-> IF c = "server" THEN <<"listenA", "acceptA">>
                                                 ELSE <<"readA", "writeA">>]
EchoBack == [c \in EchoCircuits |-> IF c = "server" THEN 2 ELSE 1]

\* The error callback of the server ends the program.
EchoFatal == {"server"}

ASSUME EchoCircuitsAssumption ==
  /\ Circuits = EchoCircuits
  /\ Net = EchoNet
  /\ Back = EchoBack
  /\ FatalCircuits = EchoFatal

VARIABLES
  conn,     \* "new", "pending" in the backlog, "live" or "over".
  mem,      \* What is allocated for a connection: "none"; "all" of conn, data
            \* and blob; only "some" of it; or data was freed "twice".
  clients,  \* The counter in main.
  sent,     \* Chunks a client has sent.
  buf,      \* conn->data: the number of the chunk in it, 0 if its size is 0.
  echoed,   \* Per connection, the chunks written to it (history).
  stalled,  \* Whether a write has ever been short or had to wait (history).
  oom       \* Whether client_connected has ever run out of memory (history).

perClient == <<conn, mem, clients, oom>>
data      == <<sent, buf, echoed, stalled>>
echoVars  == <<waitVars, ioVars, perClient, data>>

EchoTypeOK ==
  /\ IoTypeOK
  /\ caller \in {NULL, "acceptA"}
  /\ conn \in [Conns -> {"new", "pending", "live", "over"}]
  /\ mem \in [Conns -> {"none", "all", "some", "twice"}]
  /\ clients \in 0..Cardinality(Conns)
  /\ sent \in [Conns -> 0..MaxIn]
  /\ buf \in [Conns -> 0..MaxIn]
  /\ \A j \in Conns : \A i \in 1..Len(echoed[j]) : echoed[j][i] \in 1..MaxIn
  /\ stalled \in BOOLEAN
  /\ oom \in BOOLEAN

EchoInit ==
  /\ IoInit
  /\ file = [fd \in Fds |-> Closed]
  /\ conn = [j \in Conns |-> "new"]
  /\ mem = [j \in Conns |-> "none"]
  /\ clients = 0
  /\ sent = [j \in Conns |-> 0]
  /\ buf = [j \in Conns |-> 0]
  /\ echoed = [j \in Conns |-> <<>>]
  /\ stalled = FALSE
  /\ oom = FALSE

CircOf(j) == IF j = Listener THEN "server" ELSE "worker"

-----------------------------------------------------------------------------
(* The server circuit.                                                     *)

main ==
  /\ init
  /\ runA("server", Listener)
  /\ UNCHANGED <<caller, status, died, file, perClient, data>>

listenA ==
  /\ Runs("server", Listener, "listenA")
  /\ file' = [file EXCEPT ![Listener].open = TRUE]
  /\ returnA("server", Listener)
  /\ UNCHANGED <<waitVars, caller, status, perClient, data>>

\* bind or listen fails.  The socket stays open, but nobody knows its number.
listenA_fails ==
  /\ Runs("server", Listener, "listenA")
  /\ errorA("server")
  /\ UNCHANGED <<waitVars, caller, died, file, perClient, data>>

\* accept4 takes a connection of the backlog.
Accept(j) ==
  /\ Runs("server", Listener, "acceptA")
  /\ conn[j] = "pending"
  /\ caller' = "acceptA"

\* A bug: the connection is not counted.
client_connected_uncounted(j) ==
  /\ Accept(j)
  /\ conn' = [conn EXCEPT ![j] = "live"]
  /\ mem' = [mem EXCEPT ![j] = "all"]
  /\ file' = [file EXCEPT ![Listener].in = @ - 1]
  /\ runA("worker", j)
  /\ UNCHANGED <<waitVars, status, died, clients, oom, data>>

\* client_connected runs the worker, from wherever its current element is.
client_connected(j) ==
  /\ Accept(j)
  /\ clients' = clients + 1
  /\ conn' = [conn EXCEPT ![j] = "live"]
  /\ mem' = [mem EXCEPT ![j] = "all"]
  /\ file' = [file EXCEPT ![Listener].in = @ - 1]
  /\ runA("worker", j)
  /\ UNCHANGED <<waitVars, status, died, oom, data>>

\* A malloc fails.  Without conn the connection is closed, without blob it is
\* not; both are an error of the server circuit.  A missing data is not checked.
client_connected_oom(j) ==
  /\ Accept(j)
  /\ clients' = clients + 1
  /\ oom' = TRUE
  /\ conn' = [conn EXCEPT ![j] = "over"]
  /\ \/ /\ file' = [file EXCEPT ![Listener].in = @ - 1, ![j] = Closed]
        /\ errorA("server")
        /\ UNCHANGED <<mem, died>>
     \/ /\ died' = "SIGSEGV"
        /\ UNCHANGED <<mem, file, run, current, status>>
     \/ /\ file' = [file EXCEPT ![Listener].in = @ - 1]
        /\ mem' = [mem EXCEPT ![j] = "some"]
        /\ errorA("server")
        /\ UNCHANGED died
  /\ UNCHANGED <<waitVars, data>>

\* A bug: acceptA does not go on accepting after it has served a connection.
acceptA_returns_once ==
  /\ Alive /\ run = NULL
  /\ caller = "acceptA"
  /\ caller' = NULL
  /\ UNCHANGED <<waitVars, run, current, status, died, file, perClient, data>>

\* client_connected comes back, and acceptA returns to its circuit.
acceptA_returns ==
  /\ Alive /\ run = NULL
  /\ caller = "acceptA"
  /\ caller' = NULL
  /\ returnA("server", Listener)
  /\ UNCHANGED <<waitVars, status, file, perClient, data>>

\* A bug: the listener waits until it can be written to.
acceptA_waits_to_write ==
  /\ Runs("server", Listener, "acceptA")
  /\ \A j \in Conns : conn[j] # "pending"
  /\ waitA(Listener, Listener, "EPOLLOUT")
  /\ UNCHANGED <<caller, died, file, perClient, data>>

\* EAGAIN: the listener waits.
acceptA_waits ==
  /\ Runs("server", Listener, "acceptA")
  /\ \A j \in Conns : conn[j] # "pending"
  /\ waits("server", Listener, Listener, "EPOLLIN")
  /\ UNCHANGED <<caller, died, file, perClient, data>>

\* accept4 fails for any other reason.
acceptA_fails ==
  /\ Runs("server", Listener, "acceptA")
  /\ errorA("server")
  /\ UNCHANGED <<waitVars, caller, died, file, perClient, data>>

-----------------------------------------------------------------------------
(* The worker circuit.                                                     *)

\* A bug: a connection that ends is not counted.
client_error_uncounted(j) ==
  /\ mem' = [mem EXCEPT ![j] = IF @ = "all" THEN "some" ELSE "twice"]
  /\ conn' = [conn EXCEPT ![j] = "over"]
  /\ UNCHANGED <<clients, oom>>

\* The error callback of the worker frees data and blob, and not conn.
client_error(j) ==
  /\ clients' = clients - 1
  /\ mem' = [mem EXCEPT ![j] = IF @ = "all" THEN "some" ELSE "twice"]
  /\ conn' = [conn EXCEPT ![j] = "over"]
  /\ UNCHANGED oom

\* waitA of a worker's element.
worker_waits(j, op) ==
  /\ \/ waitA(j, j, op) /\ UNCHANGED perClient
     \/ waitA_fails("worker") /\ client_error(j)
     \/ exit /\ UNCHANGED <<run, current, status, perClient>>
  /\ UNCHANGED <<caller, died, file>>

\* A bug: data still describes the first chunk.
readA_keeps_data(j) ==
  /\ Runs("worker", j, "readA")
  /\ HasData(j)
  /\ file' = [file EXCEPT ![j].in = @ - 1]
  /\ buf' = [buf EXCEPT ![j] = IF @ = 0 THEN 1 ELSE @]
  /\ returnA("worker", j)
  /\ UNCHANGED <<waitVars, caller, status, perClient, sent, echoed, stalled>>

readA_data(j) ==
  /\ Runs("worker", j, "readA")
  /\ HasData(j)
  /\ file' = [file EXCEPT ![j].in = @ - 1]
  /\ buf' = [buf EXCEPT ![j] = sent[j] - file[j].in + 1]
  /\ returnA("worker", j)
  /\ UNCHANGED <<waitVars, caller, status, perClient, sent, echoed, stalled>>

\* A bug: readA goes on after its ERROR_A, and waits.
readA_fails_and_waits(j) ==
  /\ Runs("worker", j, "readA")
  /\ AtEnd(j)
  /\ waitA(j, j, "EPOLLIN")
  /\ client_error(j)
  /\ UNCHANGED <<caller, died, file, data>>

\* End of file or a failed read.  The connection stays open.
readA_fails(j) ==
  /\ Runs("worker", j, "readA")
  /\ AtEnd(j)
  /\ errorA("worker") /\ client_error(j)
  /\ UNCHANGED <<waitVars, caller, died, file, data>>

\* A bug: readA waits until it can write.
readA_waits_to_write(j) ==
  /\ Runs("worker", j, "readA")
  /\ Again(j)
  /\ worker_waits(j, "EPOLLOUT")
  /\ UNCHANGED data

readA_waits(j) ==
  /\ Runs("worker", j, "readA")
  /\ Again(j)
  /\ worker_waits(j, "EPOLLIN")
  /\ UNCHANGED data

\* The kernel takes the chunk, or a part of it; the rest is not kept.  After
\* that it may have no room left.  Nothing to write needs no room.
writeA_data(j) ==
  /\ Runs("worker", j, "writeA")
  /\ \/ /\ HasRoom(j) /\ buf[j] # 0
        /\ \E room, whole \in BOOLEAN :
             /\ file' = [file EXCEPT ![j].room = room]
             /\ stalled' = (stalled \/ ~whole)
        /\ echoed' = IF stalled' THEN echoed
                     ELSE [echoed EXCEPT ![j] = Append(@, buf[j])]
     \/ /\ ~file[j].err /\ buf[j] = 0
        /\ UNCHANGED <<file, stalled, echoed>>
  /\ returnA("worker", j)
  /\ UNCHANGED <<waitVars, caller, status, perClient, sent, buf>>

\* A reset connection.  A write to one that was also shut down is EPIPE, and
\* nobody has asked not to be killed by SIGPIPE.
writeA_fails(j) ==
  /\ Runs("worker", j, "writeA")
  /\ file[j].err
  /\ \/ errorA("worker") /\ client_error(j) /\ UNCHANGED died
     \/ /\ file[j].hup
        /\ died' = "SIGPIPE"
        /\ UNCHANGED <<run, current, status, perClient>>
  /\ UNCHANGED <<waitVars, caller, file, data>>

writeA_waits(j) ==
  /\ Runs("worker", j, "writeA")
  /\ Full(j) /\ buf[j] # 0
  /\ worker_waits(j, "EPOLLOUT")
  /\ stalled' = TRUE
  /\ UNCHANGED <<sent, buf, echoed>>

-----------------------------------------------------------------------------
(* The loop and the clients.                                               *)

loop ==
  \/ loop_wait /\ UNCHANGED <<perClient, data>>
  \/ \E ev \in batch :
       \/ loop_run(CircOf(ev.job), ev) /\ UNCHANGED <<perClient, data>>
       \/ /\ ev.job # Listener
          /\ loop_close("worker", ev)
          /\ client_error(ev.job)
          /\ UNCHANGED data
  \/ loop_end /\ UNCHANGED <<perClient, data>>

\* A client connects.
connect(j) ==
  /\ Alive /\ status = "working"
  /\ file[Listener].open
  /\ conn[j] = "new"
  /\ conn' = [conn EXCEPT ![j] = "pending"]
  /\ file' = [file EXCEPT ![j] = [Closed EXCEPT !.open = TRUE, !.room = TRUE],
                          ![Listener].in = @ + 1]
  /\ UNCHANGED <<waitVars, control, status, died, mem, clients, oom, data>>

SentByAll == Cardinality({p \in Conns \X (1..MaxIn) : p[2] <= sent[p[1]]})

\* A connected client sends a chunk, makes room, shuts down, or resets.  MaxIn
\* bounds the chunks of all: one that is served without end keeps the server in
\* the worker (arrow.c:229), and no other connection is served.
client(j) ==
  /\ Alive
  /\ conn[j] \in {"pending", "live"}
  /\ ~file[j].err
  /\ \/ /\ SentByAll < MaxIn /\ ~file[j].hup
        /\ sent' = [sent EXCEPT ![j] = @ + 1]
        /\ file' = [file EXCEPT ![j].in = @ + 1]
     \/ ~file[j].room /\ file' = [file EXCEPT ![j].room = TRUE] /\ UNCHANGED sent
     \/ ~file[j].hup /\ file' = [file EXCEPT ![j].hup = TRUE] /\ UNCHANGED sent
     \/ file' = [file EXCEPT ![j].err = TRUE] /\ UNCHANGED sent
  /\ UNCHANGED <<waitVars, control, status, died, perClient, buf, echoed, stalled>>

ServerStep ==
  \/ main
  \/ listenA \/ listenA_fails
  \/ acceptA_returns \/ acceptA_waits \/ acceptA_fails
  \/ \E j \in Conns :
       \/ client_connected(j) \/ client_connected_oom(j)
       \/ readA_data(j) \/ readA_fails(j) \/ readA_waits(j)
       \/ writeA_data(j) \/ writeA_fails(j) \/ writeA_waits(j)
  \/ loop

EchoNext == ServerStep \/ \E j \in Conns : connect(j) \/ client(j)

EchoSpec == EchoInit /\ [][EchoNext]_echoVars

\* The server takes a step whenever it can; clients need not.
EchoFairSpec == EchoSpec /\ WF_echoVars(ServerStep)

-----------------------------------------------------------------------------
(* Properties.                                                             *)

(***************************************************************************)
(* The counter that client_connected and client_error keep is the number   *)
(* of connections being served, whichever way each of them ends: in the    *)
(* loop, in readA, in writeA, in waitA, or inside the call of acceptA.     *)
(***************************************************************************)
ClientsCounted ==
  (Alive /\ ~oom) => clients = Cardinality({j \in Conns : conn[j] = "live"})

(***************************************************************************)
(* acceptA returns to its circuit after client_connected, which may have   *)
(* run the worker into an error: the server still has a current element,   *)
(* unless client_connected itself ran out of memory (tcp.c:76).            *)
(***************************************************************************)
NoNullReturn == died = "SIGSEGV" => oom

(***************************************************************************)
(* client_error frees the data of a connection once, and no element runs,  *)
(* waits or is reported for a connection whose data was freed.             *)
(***************************************************************************)
BuffersLive ==
  \A j \in Conns :
    /\ mem[j] # "twice"
    /\ (\/ run = j
        \/ \E fd \in Fds : armed[fd] # NULL /\ armed[fd].job = j
        \/ \E ev \in batch : ev.job = j) => mem[j] = "all"

(***************************************************************************)
(* As long as every write has taken its chunk whole and at once, each      *)
(* client gets back what it sent, in order, nothing lost and nothing       *)
(* twice, although all connections share one worker.  A write that waits   *)
(* leaves the shared worker in writeA, and a short one drops the rest.     *)
(***************************************************************************)
EchoIsFaithful ==
  ~stalled => \A j \in Conns : \A i \in 1..Len(echoed[j]) : echoed[j][i] = i

(***************************************************************************)
(* Between two events the listener waits, and its wait is counted: nothing *)
(* that clients do makes the server stop accepting or the loop end.        *)
(***************************************************************************)
KeepsListening ==
  (Idle /\ status = "working") =>
    \/ armed[Listener] # NULL /\ armed[Listener].counted
    \/ \E ev \in batch : ev.job = Listener /\ ev.counted

(***************************************************************************)
(* Every connection in the backlog is accepted, unless the server ends; for *)
(* clients that send finitely much (see client).                           *)
(***************************************************************************)
PendingAccepted ==
  \A j \in Conns : (conn[j] = "pending") ~> (conn[j] # "pending" \/ Stopped)

(***************************************************************************)
(* What a client has sent is echoed, unless its connection ends first, the *)
(* server ends, or a write stalls; for clients that send finitely much.    *)
(***************************************************************************)
EchoArrives ==
  \A j \in Conns :
    (conn[j] = "live" /\ Len(echoed[j]) < sent[j]) ~>
      (\/ conn[j] = "over" \/ Len(echoed[j]) = sent[j]
       \/ stalled \/ Stopped)

(***************************************************************************)
(* "Will be free at client_error()" (echoserver.c:67), of conn: nothing    *)
(* stays allocated for a connection that is over.                          *)
(***************************************************************************)
HeapFreed ==
  \A j \in Conns : (conn[j] = "over" /\ ~oom) => mem[j] = "none"
=============================================================================
