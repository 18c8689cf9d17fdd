------------------------------ MODULE Clients -------------------------------
(***************************************************************************)
(* The programs that run a single circuit: examples/echoclient.c,          *)
(* tlsclient.c, random.c and echoshell.c, and the smallest program with a  *)
(* tunopenA ("tunnel"; no example has one).  Each is a chain of the        *)
(* elements of Streams, TcpClient, Timer, Tls and Tuntap, and of elements  *)
(* of its own that hand one struct for another or work on the buffer.      *)
(*                                                                         *)
(* A job is a struct, "ctx" or the one of a descriptor; "pipe" is that of  *)
(* stdin and stdout.                                                       *)
(***************************************************************************)
EXTENDS TcpClient, Timer, Tls, Tuntap

CONSTANT MaxIn  \* Bounds the chunks that a peer has sent and nobody has read.

VARIABLE prog   \* The program.

ASSUME ClientsAssumption == MaxIn \in Nat \ {0}

ClientFds  == {"conn", "timer", "rand", "stdin", "stdout", "tun"}
ClientJobs == {"ctx", "conn", "timer", "rand", "pipe", "tun"}

\* echoclient has a positive one.
ClientIntervals == -1..1

ClientCircuits == {"echoclient", "tlsclient", "random", "echoshell", "tunnel"}

echoclient ==
  <<"timerA", "timeropenA", "ctxA", "connA", "connectA", "greetingA",
    "ctxA", "randA", "randopenA", "randreadA", "randencA", "newlineA",
    "ctxA", "connA", "writeA", "readA", "printA",
    "ctxA", "timerA", "timersleepA", "ctxA", "randA">>

tlsclient ==
  <<"connectA", "tlsA", "httpreqA", "tlswriteA", "tlsreadA", "printA">>

random ==
  <<"randA", "randopenA", "randreadA", "randencA", "ctxA", "pipeA",
    "countA", "pipewriteA", "pipereadA", "ctxA", "randA">>

echoshell == <<"promptA", "readA", "echoA", "writeA">>

ClientNet ==
  [c \in ClientCircuits |->
     CASE c = "echoclient" -> echoclient
       [] c = "tlsclient"  -> tlsclient
       [] c = "random"     -> random
       [] c = "echoshell"  -> echoshell
       [] c = "tunnel"     -> <<"tunopenA">>]

\* A bug: random leads back to the element that opens the device.
ClientBack_reopens ==
  [c \in ClientCircuits |->
     CASE c = "echoclient" -> 10
       [] c = "tlsclient"  -> 5
       [] c = "random"     -> 2
       [] c = "echoshell"  -> 1
       [] c = "tunnel"     -> 0]

\* Where loopA leads: to work, read, e and e.
ClientBack ==
  [c \in ClientCircuits |->
     CASE c = "echoclient" -> 10
       [] c = "tlsclient"  -> 5
       [] c = "random"     -> 3
       [] c = "echoshell"  -> 1
       [] c = "tunnel"     -> 0]

\* The others give the loop no status, and their error callbacks only log.
ClientFatal == {"echoclient", "tlsclient"}

\* The data of RUN_A.
FirstJob ==
  [c \in ClientCircuits |->
     CASE c \in {"echoclient", "random"} -> "ctx"
       [] c = "tlsclient" -> "conn"
       [] c = "echoshell" -> "pipe"
       [] c = "tunnel"    -> "tun"]

\* The constants of the modules below are those of these programs.
ASSUME ProgramsAssumption ==
  /\ Fds = ClientFds /\ Jobs = ClientJobs /\ Sockets = {"conn"}
  /\ Circuits = ClientCircuits
  /\ Net = ClientNet /\ Back = ClientBack
  /\ FatalCircuits = ClientFatal
  /\ NULL \notin ClientJobs \cup {"connectA"}

clientVars ==
  <<waitVars, ioVars, streamVars, tcpVars, timerVars, tlsVars, tunVars, prog>>

ClientsTypeOK ==
  /\ IoTypeOK
  /\ StreamsTypeOK /\ TcpClientTypeOK /\ TimerTypeOK /\ TlsTypeOK /\ TuntapTypeOK
  /\ prog \in ClientCircuits
  /\ caller \in {NULL, "connectA"}

ClientsInit ==
  /\ IoInit
  /\ StreamsInit /\ TcpClientInit /\ TimerInit /\ TlsInit /\ TuntapInit
  /\ prog \in ClientCircuits
  /\ prog \in {"random", "echoshell"} \/ ~nonblock  \* The others do not use
  /\ prog = "tlsclient" \/ ~trusted                 \* these.
  /\ prog = "echoclient" \/ interval = 1
  /\ file = [fd \in Fds |-> CASE fd \in {"stdin", "stdout"} ->
                                   [Closed EXCEPT !.open = TRUE, !.room = TRUE]
                              [] OTHER -> Closed]

-----------------------------------------------------------------------------
(* The elements of the programs.                                           *)

\* A bug: connA hands on the file of the random device.
Hands_rand_for_conn ==
  [ctxA |-> "ctx", randA |-> "rand", timerA |-> "timer", connA |-> "rand",
   pipeA |-> "pipe"]

\* The elements that hand one struct for another.
Hands ==
  [ctxA |-> "ctx", randA |-> "rand", timerA |-> "timer", connA |-> "conn",
   pipeA |-> "pipe"]

\* The structs that an element can be given: the others have another layout.
\* ctxA takes any that starts with the pointer to ctx.
Takes(kind) ==
  CASE kind = "ctxA" -> {"conn", "timer", "rand", "pipe"}
    [] kind \in {"randA", "timerA", "connA", "pipeA"} -> {"ctx"}
    [] kind \in {"timeropenA", "timersleepA"} -> {"timer"}
    [] kind \in {"randopenA", "randreadA", "randencA", "newlineA"} -> {"rand"}
    [] kind \in {"countA", "promptA", "echoA", "pipewriteA", "pipereadA"} -> {"pipe"}
    [] kind \in {"readA", "writeA"} -> {"conn", "pipe"}
    [] kind = "tunopenA" -> {"tun"}
    [] OTHER -> {"conn"}

hand(c) ==
  /\ \E kind \in DOMAIN Hands :
       \E j \in Takes(kind) : Runs(c, j, kind) /\ returnA(c, Hands[kind])
  /\ UNCHANGED <<waitVars, caller, status, file, streamVars>>

\* An element works on the buffer of struct j, and leaves one of left in it.
works(c, j, kind, left) ==
  /\ Runs(c, j, kind)
  /\ data' \in left
  /\ returnA(c, j)
  /\ UNCHANGED <<waitVars, caller, status, file, nonblock, owed, split>>

newlineA(c)  == works(c, "rand", "newlineA", {"line"})
greetingA(c) == works(c, "conn", "greetingA", {data})
httpreqA(c)  == works(c, "conn", "httpreqA", {"request"})
printA(c)    == works(c, "conn", "printA", {IF c = "tlsclient" THEN "empty" ELSE data})

\* An input of nothing but a newline leaves nothing to echo.
echoA(c)     == works(c, "pipe", "echoA", {data, "empty"})

\* promptA and countA write a few bytes of their own to stdout, and do not look
\* at what comes of it.
says(c, kind) ==
  /\ ~(Full("stdout") /\ Blocks("stdout"))
  /\ IF file["stdout"].err
     THEN /\ Runs(c, "pipe", kind)
          /\ died' = "SIGPIPE"
          /\ UNCHANGED <<waitVars, control, status, file, streamVars>>
     ELSE works(c, "pipe", kind, {data})

promptA(c) == says(c, "promptA")
countA(c)  == says(c, "countA")

\* An element is given a struct of another type.  From here on anything may
\* happen, and nothing is said about it.
confused(c) ==
  /\ Alive /\ run # NULL /\ current[c] # 0
  /\ run \notin Takes(Net[c][current[c]])
  /\ died' = "undefined"
  /\ UNCHANGED <<waitVars, control, status, file, streamVars>>

-----------------------------------------------------------------------------
(* The programs.                                                           *)

main(c) ==
  /\ init
  /\ runA(c, FirstJob[c])
  /\ IF c = "tlsclient" THEN openssl_init ELSE UNCHANGED tlsVars
  /\ UNCHANGED <<caller, status, died, file, streamVars>>

\* epoll_create1, or openssl_init, ends the process.
main_exits ==
  /\ epfd = "none"
  /\ exit
  /\ UNCHANGED <<ioVars, streamVars, tlsVars>>

loop(c) ==
  \/ loop_wait
  \/ \E ev \in batch : loop_run(c, ev) \/ loop_close(c, ev)
  \/ loop_end

ProgramStep ==
  /\ LET c == prog IN
     \/ /\ \/ connectA(c) \/ connectA_socket(c) \/ connectA_refused(c)
           \/ connectA_waits(c) \/ connectA_now(c) \/ connectA_returns(c)
           \/ _connect_continue(c) \/ _connect_continue_fails(c)
        /\ UNCHANGED <<streamVars, timerVars, tlsVars, tunVars>>
     \/ /\ \/ tunopenA(c) \/ tunopenA_set(c)
           \/ _configure_interface(c) \/ _configure_interface_fails(c)
        /\ UNCHANGED <<streamVars, tcpVars, timerVars, tlsVars>>
     \/ /\ \/ timeropenA(c) \/ timeropenA_set(c)
           \/ timersleepA_first(c) \/ timersleepA(c)
        /\ UNCHANGED <<streamVars, tcpVars, tlsVars, tunVars>>
     \/ /\ \/ readA(c) \/ writeA(c) \/ pipereadA(c) \/ pipewriteA(c)
           \/ randopenA(c) \/ randreadA(c) \/ randencA(c)
           \/ hand(c) \/ newlineA(c) \/ greetingA(c) \/ httpreqA(c)
           \/ printA(c) \/ echoA(c) \/ promptA(c) \/ countA(c)
           \/ confused(c)
        /\ UNCHANGED <<tcpVars, timerVars, tlsVars, tunVars>>
     \/ /\ \/ openssl_prepare_fails(c) \/ tlsA(c) \/ tlswriteA(c)
           \/ tlsreadA_data(c) \/ tlsreadA_waits(c)
           \/ main(c) \/ main_exits
        /\ UNCHANGED <<tcpVars, timerVars, tunVars>>
     \/ /\ loop(c)
        /\ UNCHANGED <<streamVars, tcpVars, timerVars, tlsVars, tunVars>>
  /\ UNCHANGED prog

\* The peer of conn: it accepts and makes room; echoes a line, or a part of
\* it; answers a TLS client; shuts down; or resets.
peer ==
  LET f == file["conn"] IN
  /\ Alive /\ f.open /\ ~f.err
  /\ \/ ~f.room /\ file' = [file EXCEPT !["conn"].room = TRUE] /\ UNCHANGED <<owed, split>>
     \/ /\ f.in < MaxIn /\ ~f.hup
        /\ file' = [file EXCEPT !["conn"].in = @ + 1]
        /\ \/ ssl # "none" /\ UNCHANGED <<owed, split>>
           \/ owed /\ owed' = FALSE /\ UNCHANGED split
           \/ owed /\ owed' = TRUE /\ split' = TRUE
     \/ /\ f.room \/ tcpstatus = "_CONNECTED"
        /\ ~f.hup
        /\ file' = [file EXCEPT !["conn"].hup = TRUE]
        /\ UNCHANGED <<owed, split>>
     \/ file' = [file EXCEPT !["conn"].err = TRUE] /\ UNCHANGED <<owed, split>>
  /\ UNCHANGED <<waitVars, control, status, died, data, nonblock>>
  /\ UNCHANGED <<tcpVars, timerVars, tlsVars, tunVars, prog>>

\* Whoever is behind stdin and stdout: types, ends the input, reads the output,
\* or stops reading.
user ==
  /\ Alive /\ prog \in {"random", "echoshell"}
  /\ \/ file["stdin"].in = 0 /\ file' = [file EXCEPT !["stdin"].in = 1]
     \/ file' = [file EXCEPT !["stdin"].hup = TRUE]
     \/ \E fd \in {"stdin", "stdout"} : file' = [file EXCEPT ![fd].room = TRUE]
     \/ file' = [file EXCEPT !["stdout"].err = TRUE]
  /\ UNCHANGED <<waitVars, control, status, died, streamVars>>
  /\ UNCHANGED <<tcpVars, timerVars, tlsVars, tunVars, prog>>

Tick == tick /\ UNCHANGED <<streamVars, tcpVars, tlsVars, tunVars, prog>>

ClientsNext == ProgramStep \/ peer \/ user \/ Tick

ClientsSpec == ClientsInit /\ [][ClientsNext]_clientVars

\* The program takes a step whenever it can, and time goes by; peers and users
\* need not do anything.
ClientsFairSpec ==
  /\ ClientsSpec
  /\ WF_clientVars(ProgramStep) /\ WF_clientVars(Tick)

-----------------------------------------------------------------------------
(* Properties.                                                             *)

(***************************************************************************)
(* Every element is given a struct of its own type, however the chain gets *)
(* to it: by RETURN_A, by the loop after a wait, or from the call of       *)
(* connectA; and no element returns to a circuit that has failed.  Two     *)
(* things break this: connect succeeding at once, after which connectA     *)
(* returns twice (tcp.c:206), and a failed read of the random device       *)
(* (random.c:35).                                                          *)
(***************************************************************************)
SoundCalls ==
  died \in {"SIGSEGV", "undefined"} => immediate \/ data = "SIZE_MAX"

(***************************************************************************)
(* A program has one wait under way, that of its current element: when it  *)
(* comes back, runA resumes the element that asked for it.  A circuit that *)
(* has failed has none.  Again unless connectA has returned twice.         *)
(***************************************************************************)
ResumesItsElement ==
  ~immediate =>
    LET jobs == {armed[fd].job : fd \in {x \in Fds : armed[x] # NULL}}
                  \cup {ev.job : ev \in batch} IN
    /\ Cardinality(jobs) <= 1
    /\ \A j \in jobs : /\ run = NULL
                       /\ current[prog] # 0
                       /\ j \in Takes(Net[prog][current[prog]])

(***************************************************************************)
(* echoclient sends a new line only when it has read the echo of the line  *)
(* before, and what it sends is a whole line: nothing raw, and nothing     *)
(* that it has read.  Nothing frames the lines: this holds as long as each *)
(* goes out and comes back in one piece.                                   *)
(***************************************************************************)
LockStep ==
  (prog = "echoclient" /\ Runs(prog, "conn", "writeA") /\ ~split /\ ~immediate) =>
    data = "line" /\ ~owed /\ file["conn"].in = 0

(***************************************************************************)
(* tlsclient sends its request only to a peer whose chain and name OpenSSL *)
(* has accepted with the roots loaded, even if connectA returns twice and  *)
(* tlswriteA runs before tlsA is done.                                     *)
(***************************************************************************)
VerifiedBeforeRequest == requested => trusted /\ roots

(***************************************************************************)
(* Whatever fails while a connection, a timer or a tunnel is opened, what  *)
(* was opened on the way is closed: the socket of an address that refuses, *)
(* before the next one is tried (tcp.c:175); a device that refuses         *)
(* TUNSETIFF or cannot be configured (tuntap.c:140 and 149); a timer that  *)
(* cannot be set (timer.c:36).  Two things are not part of this: a socket  *)
(* that conn has got already, and the control socket, which                *)
(* _configure_interface never closes (tuntap.c:52).                        *)
(***************************************************************************)
NoOrphans ==
  /\ sockets \subseteq {tries}
  /\ "device" \in tunfds => calls = 1
  /\ file["tun"].open => calls > 1
  /\ file["timer"].open /\ run # "timer" => timerstatus # "none"

(***************************************************************************)
(* An element that opens a descriptor does not find its struct with one    *)
(* that is open and would be lost: the loops of the programs lead back     *)
(* behind the elements that open, and an error does not lead to them       *)
(* again.                                                                  *)
(***************************************************************************)
OpensOnce ==
  /\ Runs(prog, "conn", "connectA") /\ tcpstatus # "_CONNECTING" => ~file["conn"].open
  /\ Runs(prog, "timer", "timeropenA") => timerstatus = "none"
  /\ Runs(prog, "rand", "randopenA") => ~file["rand"].open
  /\ Runs(prog, "tun", "tunopenA") => calls < AllCalls

\* The elements that use the descriptor of their struct, and do not open it.
UsersOf ==
  [conn  |-> {"readA", "writeA", "tlsA", "tlswriteA", "tlsreadA"},
   timer |-> {"timersleepA"},
   rand  |-> {"randreadA"}]

(***************************************************************************)
(* Nobody uses or waits for a descriptor that is closed or was never       *)
(* opened: whoever closes one, the loop, connectA or an element that could *)
(* not set it up, leaves no wait for it, and no way back to an element     *)
(* that uses it.  In particular connectA never goes on with a socket that  *)
(* the loop has closed, although its status still says _CONNECTING         *)
(* (tcp.c:128).                                                            *)
(***************************************************************************)
OpenWhileUsed ==
  /\ \A fd \in Fds : armed[fd] # NULL => file[fd].open
  /\ \A ev \in batch : file[ev.fd].open
  /\ \A fd \in DOMAIN UsersOf : \A kind \in UsersOf[fd] :
       Runs(prog, fd, kind) => file[fd].open
  /\ Runs(prog, "conn", "connectA") /\ tcpstatus = "_CONNECTING" => file["conn"].open

Asleep == prog = "echoclient" /\ current[prog] # 0
            /\ Net[prog][current[prog]] = "timersleepA"

(***************************************************************************)
(* A sleep of timersleepA ends, the first one and all later ones, unless   *)
(* the interval is zero, which disarms the timer.                          *)
(***************************************************************************)
SleepEnds == (Asleep /\ interval > 0) ~> (~Asleep \/ Stopped)

(***************************************************************************)
(* When the peer shuts down or resets the connection, the program ends:    *)
(* echoclient after the sleep it may be in, tlsclient although its         *)
(* elements take every failure of OpenSSL for a reason to wait (tls.c:29). *)
(***************************************************************************)
HangupEnds ==
  (interval > 0 /\ (file["conn"].hup \/ file["conn"].err)) ~> Stopped
=============================================================================
