--------------------------- MODULE ClientsProofs ----------------------------
(***************************************************************************)
(* Proofs about Clients, for any number of addresses, waits, chunks and    *)
(* intervals: every element of the example programs is given a struct of   *)
(* its type, a program waits for one thing at a time and is resumed where  *)
(* it waits, echoclient talks in lock step, tlsclient sends nothing to a   *)
(* peer it has not verified; and no descriptor is lost, opened twice, or   *)
(* used when it is not open.                                               *)
(***************************************************************************)
EXTENDS Clients, WaitsProofs, SequenceTheorems

-----------------------------------------------------------------------------
(* The inductive invariant.                                                *)

\* The struct that each element of a program is given, in the order of the
\* chain: the declarations of echoclient.c, tlsclient.c, random.c, echoshell.c.
Given ==
  [c \in ClientCircuits |->
     CASE c = "echoclient" ->
            <<"ctx", "timer", "timer", "ctx", "conn", "conn",
              "conn", "ctx", "rand", "rand", "rand", "rand",
              "rand", "ctx", "conn", "conn", "conn",
              "conn", "ctx", "timer", "timer", "ctx">>
       [] c = "tlsclient"  -> <<"conn", "conn", "conn", "conn", "conn", "conn">>
       [] c = "random"     ->
            <<"ctx", "rand", "rand", "rand", "rand", "ctx",
              "pipe", "pipe", "pipe", "pipe", "ctx">>
       [] c = "echoshell"  -> <<"pipe", "pipe", "pipe", "pipe">>
       [] c = "tunnel"     -> <<"tun">>]

\* What an element of this kind hands on when it was given struct j.
Handed(kind, j) == IF kind \in DOMAIN Hands THEN Hands[kind] ELSE j

ControlTypes ==
  /\ run \in Jobs \cup {NULL}
  /\ caller \in {NULL, "connectA"}
  /\ current \in [Circuits -> Nat]
  /\ \A c \in Circuits : current[c] <= Len(Net[c])
  /\ status \in {"working", "EXIT_FAILURE"}
  /\ died \in {"no", "SIGSEGV", "SIGPIPE", "undefined"}
  /\ prog \in ClientCircuits
  /\ immediate \in BOOLEAN

\* Before main has run, nothing has happened.
StartInv ==
  epfd = "none" =>
    /\ run = NULL /\ caller = NULL /\ died = "no" /\ current[prog] = 0
    /\ batch = {} /\ \A fd \in Fds : armed[fd] = NULL
    /\ ssl = "none" /\ ~requested
    /\ ~owed /\ file["conn"].in = 0

\* The element that runs was given its struct.
RunInv ==
  (~immediate /\ run # NULL) =>
    current[prog] # 0 /\ run = Given[prog][current[prog]]

\* The current element waits with struct j.
WaitsWith(j) ==
  run = NULL /\ current[prog] # 0 /\ j = Given[prog][current[prog]]

\* There is one wait at a time, armed or reported.
OneWait ==
  ~immediate =>
    /\ \A fd \in Fds : armed[fd] # NULL => WaitsWith(armed[fd].job) /\ batch = {}
    /\ \A fd1, fd2 \in Fds : armed[fd1] # NULL /\ armed[fd2] # NULL => fd1 = fd2
    /\ \A ev \in batch : WaitsWith(ev.job)
    /\ \A ev1, ev2 \in batch : ev1 = ev2

ControlInv ==
  /\ WaitsInv /\ ControlTypes
  /\ caller = "connectA" => immediate
  /\ RunInv /\ OneWait /\ SoundCalls

DataTypes ==
  /\ file \in [Fds -> File]
  /\ StreamsTypeOK /\ TcpClientTypeOK /\ TimerTypeOK /\ TlsTypeOK /\ TuntapTypeOK

\* OpenSSL is up only with a peer that it has verified.
TlsInv ==
  /\ ssl = "up" => trusted /\ roots
  /\ requested => trusted /\ roots

\* echoclient: only while readA has the turn is there an echo to come, or one
\* that has come; and what is about to be written is a line.
LockInv ==
  (prog = "echoclient" /\ ~split /\ ~immediate) =>
    /\ ssl = "none"
    /\ current[prog] = 16 => (owed <=> file["conn"].in # 1) /\ file["conn"].in <= 1
    /\ current[prog] \in (1..22) \ {16} => ~owed /\ file["conn"].in = 0
    /\ current[prog] \in 13..15 => data = "line"

ClientsInv ==
  /\ ControlInv /\ StartInv /\ DataTypes
  /\ TlsInv /\ LockInv

-----------------------------------------------------------------------------
(* The programs.                                                           *)

\* The structs and descriptors, and the programs.
LEMMA NameFacts ==
  /\ Fds = ClientFds /\ Jobs = ClientJobs /\ Circuits = ClientCircuits
  /\ Sockets = {"conn"}
  /\ "conn" \in Fds /\ "timer" \in Fds /\ "rand" \in Fds /\ "tun" \in Fds
  /\ "stdin" \in Fds /\ "stdout" \in Fds
  /\ "ctx" \in Jobs /\ "conn" \in Jobs /\ "timer" \in Jobs /\ "rand" \in Jobs
  /\ "pipe" \in Jobs /\ "tun" \in Jobs
  /\ NULL \notin Jobs /\ NULL # "connectA"
  BY ProgramsAssumption DEF ClientFds, ClientJobs

\* The chain of c, its back edge and the structs fit together: each element is
\* given a struct of its type, and hands on what the next one is given.
WellTyped(c) ==
  /\ Len(Net[c]) \in Nat \ {0} /\ Back[c] \in 0..Len(Net[c])
  /\ \A e \in 1..Len(Net[c]) :
       /\ Given[c][e] \in Jobs /\ Given[c][e] \in Takes(Net[c][e])
       /\ Following(c, e) # 0 =>
            Handed(Net[c][e], Given[c][e]) = Given[c][Following(c, e)]

LEMMA TunnelFits == WellTyped("tunnel")
  <1>1. /\ Net["tunnel"] = <<"tunopenA">> /\ Back["tunnel"] = 0
        /\ Given["tunnel"] = <<"tun">>
    BY ProgramsAssumption DEF ClientNet, ClientBack, ClientCircuits, Given
  <1>2. Len(Net["tunnel"]) = 1
    BY <1>1
  <1>3. Following("tunnel", 1) = 0
    BY <1>1, <1>2 DEF Following
  <1>4. Given["tunnel"][1] \in Jobs /\ Given["tunnel"][1] \in Takes(Net["tunnel"][1])
    BY <1>1, NameFacts DEF Takes
  <1> QED
    BY <1>1, <1>2, <1>3, <1>4 DEF WellTyped

LEMMA EchoshellFits == WellTyped("echoshell")
  <1> DEFINE c == "echoshell"
  <1>1. /\ Net[c] = <<"promptA", "readA", "echoA", "writeA">> /\ Back[c] = 1
        /\ Given[c] = <<"pipe", "pipe", "pipe", "pipe">>
    BY ProgramsAssumption DEF ClientNet, ClientBack, ClientCircuits, Given, echoshell
  <1>2. Len(Net[c]) = 4
    BY <1>1
  <1>3. /\ Following(c, 1) = 2 /\ Following(c, 2) = 3 /\ Following(c, 3) = 4
        /\ Following(c, 4) = 1
    BY <1>1, <1>2 DEF Following
  <1>4. \A e \in 1..4 : e = 1 \/ e = 2 \/ e = 3 \/ e = 4
    OBVIOUS
  <1>5. \A e \in 1..4 : Given[c][e] = "pipe"
    BY <1>1, <1>4
  <1>6. \A e \in 1..4 : Given[c][Following(c, e)] = "pipe"
    BY <1>3, <1>4, <1>5
  <1>7. \A e \in 1..4 : "pipe" \in Takes(Net[c][e]) /\ Net[c][e] \notin DOMAIN Hands
    BY <1>1, <1>4 DEF Takes, Hands
  <1> HIDE DEF c
  <1>8. WellTyped(c)
    BY <1>1, <1>2, <1>5, <1>6, <1>7, NameFacts DEF WellTyped, Handed
  <1> QED
    BY <1>8 DEF c

LEMMA TlsclientFits == WellTyped("tlsclient")
  <1> DEFINE c == "tlsclient"
  <1>1. /\ Net[c] = <<"connectA", "tlsA", "httpreqA", "tlswriteA", "tlsreadA", "printA">>
        /\ Back[c] = 5 /\ Given[c] = <<"conn", "conn", "conn", "conn", "conn", "conn">>
    BY ProgramsAssumption DEF ClientNet, ClientBack, ClientCircuits, Given, tlsclient
  <1>2. Len(Net[c]) = 6
    BY <1>1
  <1>3. \A e \in 1..6 : Following(c, e) \in 1..6
    BY <1>1, <1>2 DEF Following
  <1>4. \A e \in 1..6 : e = 1 \/ e = 2 \/ e = 3 \/ e = 4 \/ e = 5 \/ e = 6
    OBVIOUS
  <1>5. \A e \in 1..6 : Given[c][e] = "conn"
    BY <1>1, <1>4
  <1>6. \A e \in 1..6 : "conn" \in Takes(Net[c][e]) /\ Net[c][e] \notin DOMAIN Hands
    BY <1>1, <1>4 DEF Takes, Hands
  <1> HIDE DEF c
  <1>7. WellTyped(c)
    BY <1>1, <1>2, <1>3, <1>5, <1>6, NameFacts DEF WellTyped, Handed
  <1> QED
    BY <1>7 DEF c

LEMMA RandomFits == WellTyped("random")
  <1> DEFINE c == "random"
  <1>1. /\ Net[c] = <<"randA", "randopenA", "randreadA", "randencA", "ctxA", "pipeA",
                      "countA", "pipewriteA", "pipereadA", "ctxA", "randA">>
        /\ Back[c] = 3
        /\ Given[c] = <<"ctx", "rand", "rand", "rand", "rand", "ctx",
                        "pipe", "pipe", "pipe", "pipe", "ctx">>
    BY ProgramsAssumption DEF ClientNet, ClientBack, ClientCircuits, Given, random
  <1>2. Len(Net[c]) = 11
    BY <1>1
  <1>3. \A e \in 1..11 : Following(c, e) = IF e = 11 THEN 3 ELSE e + 1
    BY <1>1, <1>2 DEF Following
  <1>4. \A e \in 1..11 : e \in {1, 2, 3, 4, 5, 6, 7, 8, 9, 10, 11}
    OBVIOUS
  <1>5. \A e \in 1..11 : Given[c][e] \in Takes(Net[c][e]) /\ Given[c][e] \in Jobs
    BY <1>1, <1>4, NameFacts DEF Takes
  <1>6. \A e \in 1..11 :
          Handed(Net[c][e], Given[c][e]) = Given[c][IF e = 11 THEN 3 ELSE e + 1]
    BY <1>1, <1>4 DEF Handed, Hands
  <1> HIDE DEF c
  <1>7. WellTyped(c)
    BY <1>1, <1>2, <1>3, <1>5, <1>6 DEF WellTyped
  <1> QED
    BY <1>7 DEF c

LEMMA EchoclientFits == WellTyped("echoclient")
  <1> DEFINE c == "echoclient"
  <1>1. /\ Net[c] = <<"timerA", "timeropenA", "ctxA", "connA", "connectA", "greetingA",
                      "ctxA", "randA", "randopenA", "randreadA", "randencA", "newlineA",
                      "ctxA", "connA", "writeA", "readA", "printA",
                      "ctxA", "timerA", "timersleepA", "ctxA", "randA">>
        /\ Back[c] = 10
        /\ Given[c] = <<"ctx", "timer", "timer", "ctx", "conn", "conn",
                        "conn", "ctx", "rand", "rand", "rand", "rand",
                        "rand", "ctx", "conn", "conn", "conn",
                        "conn", "ctx", "timer", "timer", "ctx">>
    BY ProgramsAssumption DEF ClientNet, ClientBack, ClientCircuits, Given, echoclient
  <1>2. Len(Net[c]) = 22
    BY <1>1
  <1>3. \A e \in 1..22 : Following(c, e) = IF e = 22 THEN 10 ELSE e + 1
    BY <1>1, <1>2 DEF Following
  <1>4. \A e \in 1..22 : e \in {1, 2, 3, 4, 5, 6, 7, 8, 9, 10, 11, 12, 13, 14, 15, 16,
                                17, 18, 19, 20, 21, 22}
    OBVIOUS
  <1>5. \A e \in 1..22 : Given[c][e] \in Takes(Net[c][e]) /\ Given[c][e] \in Jobs
    BY <1>1, <1>4, NameFacts DEF Takes
  <1>6. \A e \in 1..22 :
          Handed(Net[c][e], Given[c][e]) = Given[c][IF e = 22 THEN 10 ELSE e + 1]
    BY <1>1, <1>4 DEF Handed, Hands
  <1> HIDE DEF c
  <1>7. WellTyped(c)
    BY <1>1, <1>2, <1>3, <1>5, <1>6 DEF WellTyped
  <1> QED
    BY <1>7 DEF c

\* All of them.
LEMMA ProgramsFit == \A c \in Circuits : WellTyped(c)
  BY TunnelFits, EchoshellFits, TlsclientFits, RandomFits, EchoclientFits, NameFacts
  DEF ClientCircuits

-----------------------------------------------------------------------------
(* What a step can do to the control of a program c.  Each element does    *)
(* one of the first four.                                                  *)

OnElement(c) == Alive /\ run \in Jobs /\ current[c] # 0

Returns(c) ==
  /\ OnElement(c)
  /\ returnA(c, Handed(Net[c][current[c]], run))
  /\ UNCHANGED <<waitVars, caller, status, immediate, prog>>

Fails(c) ==
  /\ OnElement(c)
  /\ errorA(c)
  /\ armed' = armed \/ armed' = [armed EXCEPT !["conn"] = NULL]
  /\ UNCHANGED <<epfd, count, batch, caller, died, immediate, prog>>

WaitsOrFails(c) ==
  /\ OnElement(c)
  /\ \E fd \in Fds, op \in Op : waits(c, run, fd, op)
  /\ UNCHANGED <<caller, died, immediate, prog>>

Dies(c) ==
  /\ OnElement(c)
  /\ died' = "SIGPIPE" \/ (died' = "SIGSEGV" /\ data' = "SIZE_MAX")
  /\ UNCHANGED <<waitVars, control, status, immediate, prog>>

\* The kernel, a peer or a user acts.
Outside == Alive /\ UNCHANGED <<waitVars, control, status, died, immediate, prog>>

\* A program that waits or runs is at an element of its chain.
LEMMA PlaceFacts ==
  ASSUME ControlTypes
  PROVE  /\ prog \in Circuits /\ current[prog] \in Nat
         /\ current[prog] # 0 => current[prog] \in 1..Len(Net[prog])
         /\ Len(Net[prog]) \in Nat /\ Back[prog] \in 0..Len(Net[prog])
  <1>1. /\ prog \in Circuits /\ current[prog] \in Nat
        /\ current[prog] <= Len(Net[prog])
    BY NameFacts DEF ControlTypes
  <1>2. Len(Net[prog]) \in Nat /\ Back[prog] \in 0..Len(Net[prog])
    BY <1>1, ProgramsFit DEF WellTyped
  <1> QED
    BY <1>1, <1>2

\* Control after RETURN_A, from anywhere.
LEMMA ReturnFacts ==
  ASSUME ControlTypes, NEW j \in Jobs, returnA(prog, j), UNCHANGED prog
  PROVE  /\ run' \in Jobs \cup {NULL}
         /\ current' \in [Circuits -> Nat]
         /\ \A c \in Circuits : current'[c] <= Len(Net[c])
         /\ died' \in {"no", "SIGSEGV", "SIGPIPE", "undefined"}
         /\ current[prog] # 0 =>
              /\ died' = died
              /\ current'[prog] = Following(prog, current[prog])
              /\ run' = IF current'[prog] = 0 THEN NULL ELSE j
  <1>1. /\ prog \in Circuits /\ current \in [Circuits -> Nat]
        /\ \A c \in Circuits : current[c] <= Len(Net[c])
        /\ run \in Jobs \cup {NULL} /\ died \in {"no", "SIGSEGV", "SIGPIPE", "undefined"}
    BY NameFacts DEF ControlTypes
  <1>2. CASE current[prog] = 0
    BY <1>1, <1>2 DEF returnA
  <1>3. CASE current[prog] # 0
    <2>1. current[prog] \in 1..Len(Net[prog]) /\ Len(Net[prog]) \in Nat
          /\ Back[prog] \in 0..Len(Net[prog])
      BY <1>3, PlaceFacts
    <2>2. PICK n : n = Following(prog, current[prog])
      OBVIOUS
    <2>3. n \in 0..Len(Net[prog])
      BY <2>1, <2>2 DEF Following
    <2>4. /\ current' = [current EXCEPT ![prog] = n]
          /\ run' = IF n = 0 THEN NULL ELSE j
          /\ died' = died
      BY <1>3, <2>2 DEF returnA
    <2>5. /\ current' \in [Circuits -> Nat] /\ current'[prog] = n
          /\ \A c \in Circuits : c # prog => current'[c] = current[c]
      BY <1>1, <2>1, <2>3, <2>4
    <2>6. \A c \in Circuits : current'[c] <= Len(Net[c])
      BY <1>1, <2>1, <2>3, <2>5
    <2> QED
      BY <1>1, <2>2, <2>4, <2>5, <2>6
  <1> QED
    BY <1>2, <1>3

\* Control after ERROR_A.
LEMMA ErrorFacts ==
  ASSUME ControlTypes, errorA(prog)
  PROVE  /\ run' = NULL /\ current'[prog] = 0
         /\ current' \in [Circuits -> Nat]
         /\ \A c \in Circuits : current'[c] <= Len(Net[c])
         /\ status' \in {"working", "EXIT_FAILURE"}
  <1>1. /\ prog \in Circuits /\ current \in [Circuits -> Nat]
        /\ \A c \in Circuits : current[c] <= Len(Net[c])
        /\ Len(Net[prog]) \in Nat
    BY NameFacts, PlaceFacts DEF ControlTypes
  <1>2. current' = [current EXCEPT ![prog] = 0]
    BY DEF errorA
  <1>3. current' \in [Circuits -> Nat] /\ current'[prog] = 0
    BY <1>1, <1>2
  <1>4. \A c \in Circuits : current'[c] <= Len(Net[c])
    BY <1>1, <1>2
  <1> QED
    BY <1>3, <1>4 DEF errorA, ControlTypes

\* While an element runs, nothing waits.
LEMMA NobodyWaits ==
  ASSUME ControlInv, OnElement(prog), ~immediate
  PROVE  /\ batch = {} /\ \A fd \in Fds : armed[fd] = NULL
         /\ run = Given[prog][current[prog]] /\ run # NULL
  BY NameFacts DEF ControlInv, OnElement, OneWait, WaitsWith, RunInv

\* The element returns: the next one is given its struct.
LEMMA ReturnsKeep ==
  ASSUME ControlInv, Returns(prog)
  PROVE  ControlInv'
  <1>1. /\ OnElement(prog) /\ UNCHANGED <<waitVars, caller, status, immediate, prog>>
        /\ UNCHANGED <<epfd, armed, count, batch>> /\ died = "no"
        /\ ControlTypes /\ current[prog] # 0 /\ run \in Jobs
    BY DEF Returns, waitVars, OnElement, Alive, ControlInv
  <1>2. PICK j : j = Handed(Net[prog][current[prog]], run)
    OBVIOUS
  <1>3. j \in Jobs
    BY <1>1, <1>2, NameFacts DEF Handed, Hands
  <1>4. returnA(prog, j)
    BY <1>2 DEF Returns
  <1>5. /\ run' \in Jobs \cup {NULL}
        /\ current' \in [Circuits -> Nat]
        /\ \A c \in Circuits : current'[c] <= Len(Net[c])
        /\ died' = died
        /\ current'[prog] = Following(prog, current[prog])
        /\ run' = IF current'[prog] = 0 THEN NULL ELSE j
    BY <1>1, <1>3, <1>4, ReturnFacts
  <1>6. ControlTypes'
    BY <1>1, <1>5 DEF ControlTypes
  <1>7. WaitsInv' /\ SoundCalls'
    BY <1>1, <1>5, EndInv DEF ControlInv, SoundCalls
  <1>8. ASSUME ~immediate
        PROVE  RunInv' /\ OneWait'
    <2>1. /\ batch = {} /\ \A fd \in Fds : armed[fd] = NULL
          /\ run = Given[prog][current[prog]]
      BY <1>1, <1>8, NobodyWaits
    <2>2. OneWait'
      BY <1>1, <2>1 DEF OneWait
    <2>3. current'[prog] # 0 => j = Given[prog][current'[prog]]
      BY <1>1, <1>2, <1>5, <2>1, PlaceFacts, ProgramsFit DEF WellTyped
    <2> QED
      BY <1>1, <1>5, <2>2, <2>3 DEF RunInv
  <1>9. immediate => RunInv' /\ OneWait'
    BY <1>1 DEF RunInv, OneWait
  <1> QED
    BY <1>1, <1>6, <1>7, <1>8, <1>9 DEF ControlInv

\* The element fails, and drops its wait if it has one.
LEMMA FailsKeep ==
  ASSUME ControlInv, Fails(prog)
  PROVE  ControlInv'
  <1>1. /\ OnElement(prog) /\ errorA(prog) /\ died = "no" /\ ControlTypes /\ WaitsInv
        /\ UNCHANGED <<epfd, count, batch, caller, died, immediate, prog>>
    BY DEF Fails, OnElement, Alive, ControlInv
  <1>2. WaitsInv'
    <2>1. CASE armed' = armed
      BY <1>1, <2>1, EndInv DEF waitVars
    <2>2. CASE armed' = [armed EXCEPT !["conn"] = NULL]
      BY <1>1, <2>2, DropInv, NameFacts
    <2> QED
      BY <2>1, <2>2 DEF Fails
  <1>3. ControlTypes' /\ run' = NULL
    BY <1>1, ErrorFacts DEF ControlTypes
  <1>4. RunInv' /\ SoundCalls'
    BY <1>1, <1>3 DEF RunInv, SoundCalls
  <1>5. OneWait'
    <2>1. armed \in [Fds -> Wait \cup {NULL}]
      BY <1>1 DEF WaitsInv, WaitsTypeOK
    <2>2. ~immediate => batch' = {} /\ \A fd \in Fds : armed'[fd] = NULL
      BY <1>1, <2>1, NobodyWaits DEF Fails
    <2> QED
      BY <1>1, <2>2 DEF OneWait
  <1> QED
    BY <1>1, <1>2, <1>3, <1>4, <1>5 DEF ControlInv

\* The element waits, or waitA fails, or ends the process.
LEMMA WaitsKeep ==
  ASSUME ControlInv, WaitsOrFails(prog)
  PROVE  ControlInv'
  <1>1. /\ OnElement(prog) /\ died = "no" /\ ControlTypes /\ WaitsInv /\ run \in Jobs
        /\ UNCHANGED <<caller, died, immediate, prog>> /\ current[prog] # 0
    BY DEF WaitsOrFails, OnElement, Alive, ControlInv
  <1>2. PICK fd \in Fds, op \in Op : waits(prog, run, fd, op)
    BY DEF WaitsOrFails
  <1>3. ~immediate => /\ batch = {} /\ \A g \in Fds : armed[g] = NULL
                      /\ run = Given[prog][current[prog]] /\ run # NULL
    BY <1>1, NobodyWaits
  <1>4. CASE waitA(run, fd, op)
    <2>1. arm(fd, run, op) /\ run' = NULL /\ UNCHANGED <<current, status, batch>>
      BY <1>4 DEF waitA, arm
    <2>2. /\ WaitsInv' /\ armed'[fd].job = run
          /\ \A g \in Fds : g # fd => armed'[g] = armed[g]
      BY <1>1, <2>1, ArmInv, ArmTypes
    <2>3. ControlTypes' /\ RunInv' /\ SoundCalls'
      BY <1>1, <2>1 DEF ControlTypes, RunInv, SoundCalls
    <2>4. OneWait'
      BY <1>1, <1>3, <2>1, <2>2 DEF OneWait, WaitsWith
    <2> QED
      BY <1>1, <2>2, <2>3, <2>4 DEF ControlInv
  <1>5. CASE waitA_fails(prog)
    <2>1. refuse /\ errorA(prog) /\ UNCHANGED <<armed, batch>>
      BY <1>5 DEF waitA_fails, refuse
    <2>2. WaitsInv'
      BY <1>1, <2>1, RefuseInv
    <2>3. ControlTypes' /\ run' = NULL
      BY <1>1, <2>1, ErrorFacts DEF ControlTypes
    <2>4. RunInv' /\ SoundCalls'
      BY <1>1, <2>3 DEF RunInv, SoundCalls
    <2>5. OneWait'
      BY <1>1, <1>3, <2>1 DEF OneWait
    <2> QED
      BY <1>1, <2>2, <2>3, <2>4, <2>5 DEF ControlInv
  <1>6. CASE exit /\ UNCHANGED <<run, current, status>>
    <2>1. WaitsInv' /\ UNCHANGED <<armed, batch>>
      BY <1>1, <1>6, EndInv DEF exit
    <2>2. ControlTypes' /\ RunInv' /\ SoundCalls'
      BY <1>1, <1>6 DEF ControlInv, ControlTypes, RunInv, SoundCalls
    <2>3. OneWait'
      BY <1>1, <1>3, <2>1 DEF OneWait
    <2> QED
      BY <1>1, <2>1, <2>2, <2>3 DEF ControlInv
  <1> QED
    BY <1>2, <1>4, <1>5, <1>6 DEF waits

\* The process is killed.
LEMMA DiesKeep ==
  ASSUME ControlInv, Dies(prog)
  PROVE  ControlInv'
  <1>1. /\ UNCHANGED <<epfd, armed, count, batch, run, caller, current, status>>
        /\ UNCHANGED <<immediate, prog, waitVars>>
        /\ died' = "SIGPIPE" \/ (died' = "SIGSEGV" /\ data' = "SIZE_MAX")
    BY DEF Dies, waitVars, control
  <1>2. WaitsInv'
    BY <1>1, EndInv DEF ControlInv
  <1>3. ControlTypes' /\ SoundCalls'
    BY <1>1 DEF ControlInv, ControlTypes, SoundCalls
  <1>4. RunInv' /\ OneWait'
    BY <1>1 DEF ControlInv, RunInv, OneWait, WaitsWith
  <1> QED
    BY <1>1, <1>2, <1>3, <1>4 DEF ControlInv

\* What happens outside of the process.
LEMMA OutsideKeeps ==
  ASSUME ControlInv, Outside
  PROVE  ControlInv'
  <1>1. /\ UNCHANGED <<epfd, armed, count, batch, run, caller, current, status>>
        /\ UNCHANGED <<immediate, prog, waitVars, died>> /\ died = "no"
    BY DEF Outside, waitVars, control, Alive
  <1>2. WaitsInv'
    BY <1>1, EndInv DEF ControlInv
  <1>3. ControlTypes' /\ SoundCalls'
    BY <1>1 DEF ControlInv, ControlTypes, SoundCalls
  <1>4. RunInv' /\ OneWait'
    BY <1>1 DEF ControlInv, RunInv, OneWait, WaitsWith
  <1> QED
    BY <1>1, <1>2, <1>3, <1>4 DEF ControlInv

\* Once connect has succeeded at once, only the types are left.
LEMMA ImmediateKeeps ==
  ASSUME WaitsInv', ControlTypes', immediate'
  PROVE  ControlInv'
  BY DEF ControlInv, RunInv, OneWait, SoundCalls

-----------------------------------------------------------------------------
(* The loop.                                                               *)

\* A reported wait is still the only one.
LEMMA PollKeeps ==
  ASSUME ControlInv, loop_wait, UNCHANGED <<immediate, prog>>
  PROVE  ControlInv'
  <1>1. PICK reported \in SUBSET Fds : poll(reported)
    BY DEF loop_wait
  <1>2. /\ UNCHANGED <<run, caller, current, status, died, immediate, prog>>
        /\ died = "no"
    BY DEF loop_wait, ioVars, control, Idle, Alive
  <1>3. /\ batch = {}
        /\ \A fd \in reported : armed[fd] # NULL
        /\ \A fd \in Fds :
             armed'[fd] = IF fd \in reported THEN NULL ELSE armed[fd]
        /\ \A ev \in batch' : ev.fd \in reported /\ ev.job = armed[ev.fd].job
        /\ \A fd \in reported : \E ev \in batch' : ev.fd = fd
        /\ \A ev1, ev2 \in batch' : ev1.fd = ev2.fd => ev1 = ev2
    BY <1>1, PollTypes DEF ControlInv
  <1>4. reported # {}
    BY <1>1 DEF poll
  <1>5. WaitsInv'
    BY <1>1, PollInv DEF ControlInv
  <1>6. ControlTypes' /\ SoundCalls' /\ RunInv'
    BY <1>2 DEF ControlInv, ControlTypes, SoundCalls, RunInv
  <1>7. OneWait'
    <2> SUFFICES ASSUME ~immediate PROVE OneWait'
      BY <1>2 DEF OneWait
    <2>1. /\ \A fd \in Fds : armed[fd] # NULL => WaitsWith(armed[fd].job)
          /\ \A fd1, fd2 \in Fds : armed[fd1] # NULL /\ armed[fd2] # NULL => fd1 = fd2
      BY DEF ControlInv, OneWait
    <2>2. \A fd \in Fds : armed'[fd] = NULL
      BY <1>3, <1>4, <2>1
    <2>3. \A ev \in batch' : WaitsWith(ev.job)
      BY <1>3, <2>1
    <2>4. \A ev1, ev2 \in batch' : ev1 = ev2
      BY <1>3, <2>1
    <2> QED
      BY <1>2, <2>2, <2>3, <2>4 DEF OneWait, WaitsWith
  <1> QED
    BY <1>2, <1>5, <1>6, <1>7 DEF ControlInv

\* What the loop takes was the only wait.
LEMMA TakeFacts ==
  ASSUME ControlInv, NEW ev \in batch, take(ev)
  PROVE  /\ WaitsInv' /\ ev.job \in Jobs
         /\ ~immediate => /\ batch' = {} /\ \A fd \in Fds : armed'[fd] = NULL
                          /\ WaitsWith(ev.job)
  <1>1. /\ batch' = batch \ {ev}
        /\ armed' = IF ev.flag = "ready" THEN armed ELSE [armed EXCEPT ![ev.fd] = NULL]
    BY DEF take
  <1>2. /\ WaitsInv' /\ ev.job \in Jobs /\ ev.fd \in Fds
        /\ armed \in [Fds -> Wait \cup {NULL}]
    BY TakeInv DEF ControlInv, WaitsInv, WaitsTypeOK
  <1>3. ASSUME ~immediate
        PROVE  /\ batch' = {} /\ \A fd \in Fds : armed'[fd] = NULL
               /\ WaitsWith(ev.job)
    <2>1. /\ \A fd \in Fds : armed[fd] # NULL => batch = {}
          /\ \A ev1, ev2 \in batch : ev1 = ev2
          /\ WaitsWith(ev.job)
      BY <1>3 DEF ControlInv, OneWait
    <2>2. \A fd \in Fds : armed[fd] = NULL
      BY <2>1
    <2> QED
      BY <1>1, <1>2, <2>1, <2>2
  <1> QED
    BY <1>2, <1>3

\* The job of a ready descriptor goes on, where it waits.
LEMMA LoopRunKeeps ==
  ASSUME ControlInv, NEW ev \in batch, loop_run(prog, ev), UNCHANGED <<immediate, prog>>
  PROVE  ControlInv'
  <1>1. /\ take(ev) /\ runA(prog, ev.job) /\ died = "no"
        /\ UNCHANGED <<caller, status, died, immediate, prog>> /\ ControlTypes
    BY DEF loop_run, Idle, Alive, ControlInv
  <1>2. /\ WaitsInv' /\ ev.job \in Jobs
        /\ ~immediate => /\ batch' = {} /\ \A fd \in Fds : armed'[fd] = NULL
                         /\ WaitsWith(ev.job)
    BY <1>1, TakeFacts
  <1>3. /\ run' = ev.job
        /\ current' = [current EXCEPT ![prog] = IF current[prog] = 0 THEN 1
                                                ELSE current[prog]]
    BY <1>1 DEF runA
  <1>4. /\ current \in [Circuits -> Nat] /\ prog \in Circuits
        /\ \A c \in Circuits : current[c] <= Len(Net[c])
        /\ Len(Net[prog]) \in Nat \ {0}
    BY <1>1, NameFacts, ProgramsFit DEF ControlTypes, WellTyped
  <1>5. /\ current' \in [Circuits -> Nat]
        /\ current[prog] # 0 => current'[prog] = current[prog]
        /\ \A c \in Circuits : current'[c] <= Len(Net[c])
    BY <1>3, <1>4
  <1>6. ControlTypes' /\ SoundCalls'
    BY <1>1, <1>2, <1>3, <1>5 DEF ControlTypes, SoundCalls
  <1>7. RunInv' /\ OneWait'
    BY <1>1, <1>2, <1>3, <1>5 DEF RunInv, OneWait, WaitsWith
  <1> QED
    BY <1>1, <1>2, <1>6, <1>7 DEF ControlInv

\* A descriptor in error: the circuit fails, and nothing waits any more.
LEMMA LoopCloseKeeps ==
  ASSUME ControlInv, NEW ev \in batch, loop_close(prog, ev), UNCHANGED <<immediate, prog>>
  PROVE  ControlInv'
  <1>1. /\ take(ev) /\ errorA(prog) /\ died = "no"
        /\ UNCHANGED <<caller, died, immediate, prog>> /\ ControlTypes
    BY DEF loop_close, Idle, Alive, ControlInv
  <1>2. /\ WaitsInv'
        /\ ~immediate => batch' = {} /\ \A fd \in Fds : armed'[fd] = NULL
    BY <1>1, TakeFacts
  <1>3. ControlTypes' /\ run' = NULL
    BY <1>1, ErrorFacts DEF ControlTypes
  <1>4. RunInv' /\ SoundCalls' /\ OneWait'
    BY <1>1, <1>2, <1>3 DEF RunInv, SoundCalls, OneWait
  <1> QED
    BY <1>1, <1>2, <1>3, <1>4 DEF ControlInv

\* The loop ends, or main does before the loop.
LEMMA EndKeeps ==
  ASSUME ControlInv, deinit \/ exit,
         UNCHANGED <<run, caller, current, status, died, data, immediate, prog>>
  PROVE  ControlInv'
  <1>1. /\ batch' = batch /\ \A fd \in Fds : armed'[fd] \in {NULL, armed[fd]}
    BY DEF deinit, exit
  <1>2. WaitsInv'
    BY EndInv DEF ControlInv
  <1>3. ControlTypes' /\ SoundCalls' /\ RunInv'
    BY DEF ControlInv, ControlTypes, SoundCalls, RunInv
  <1>4. OneWait'
    BY <1>1 DEF ControlInv, OneWait, WaitsWith
  <1> QED
    BY <1>2, <1>3, <1>4 DEF ControlInv

\* main starts the program with the struct of its first element.
LEMMA MainKeeps ==
  ASSUME ControlInv, StartInv, main(prog), UNCHANGED <<immediate, prog>>
  PROVE  ControlInv'
  <1>1. /\ init /\ epfd = "none" /\ UNCHANGED <<armed, count, batch>>
        /\ runA(prog, FirstJob[prog])
        /\ UNCHANGED <<caller, status, died, data, immediate, prog>> /\ ControlTypes
    BY DEF main, init, streamVars, ControlInv
  <1>2. /\ run = NULL /\ died = "no" /\ current[prog] = 0
        /\ batch = {} /\ \A fd \in Fds : armed[fd] = NULL
    BY <1>1 DEF StartInv
  <1>3. FirstJob[prog] \in Jobs /\ FirstJob[prog] = Given[prog][1]
    BY <1>1, NameFacts DEF ControlTypes, FirstJob, Given, ClientCircuits
  <1>4. /\ current \in [Circuits -> Nat] /\ prog \in Circuits
        /\ \A c \in Circuits : current[c] <= Len(Net[c])
        /\ Len(Net[prog]) \in Nat \ {0}
    BY <1>1, NameFacts, ProgramsFit DEF ControlTypes, WellTyped
  <1>5. run' = FirstJob[prog] /\ current' = [current EXCEPT ![prog] = 1]
    BY <1>1, <1>2 DEF runA
  <1>6. /\ current' \in [Circuits -> Nat] /\ current'[prog] = 1
        /\ \A c \in Circuits : current'[c] <= Len(Net[c])
    BY <1>4, <1>5
  <1>7. WaitsInv'
    BY <1>1, EndInv DEF ControlInv
  <1>8. ControlTypes' /\ SoundCalls'
    BY <1>1, <1>2, <1>3, <1>5, <1>6 DEF ControlTypes, SoundCalls
  <1>9. RunInv' /\ OneWait'
    BY <1>1, <1>2, <1>3, <1>5, <1>6 DEF RunInv, OneWait
  <1> QED
    BY <1>1, <1>7, <1>8, <1>9 DEF ControlInv

-----------------------------------------------------------------------------
(* The elements: how each of them moves its program, and what it does to   *)
(* the files and buffers.                                                  *)

Moves == \/ Returns(prog) \/ Fails(prog) \/ WaitsOrFails(prog) \/ Dies(prog)
         \/ Outside

\* Whatever happens after main, main is not to come again.
LEMMA MovesKeep ==
  ASSUME ControlInv, Moves
  PROVE  ControlInv' /\ StartInv'
  <1>1. ControlInv'
    BY ReturnsKeep, FailsKeep, WaitsKeep, DiesKeep, OutsideKeeps DEF Moves
  <1>2. epfd' # "none"
    BY DEF Moves, Returns, Fails, WaitsOrFails, Dies, Outside, OnElement, Alive,
           waitVars, waits, waitA, arm, waitA_fails, refuse, exit
  <1> QED
    BY <1>1, <1>2 DEF StartInv

\* An element that runs.
LEMMA RunsFacts ==
  ASSUME NEW j \in Jobs, NEW kind, Runs(prog, j, kind)
  PROVE  /\ OnElement(prog) /\ Alive /\ run = j /\ died = "no"
         /\ current[prog] # 0 /\ Net[prog][current[prog]] = kind
  BY DEF Runs, OnElement, Alive

\* An element that hands on the struct that it was given.
LEMMA ReturnsOn ==
  ASSUME NEW j \in Jobs, NEW kind, Runs(prog, j, kind), kind \notin DOMAIN Hands,
         returnA(prog, j), UNCHANGED <<waitVars, caller, status, immediate, prog>>
  PROVE  Returns(prog)
  <1>1. Handed(Net[prog][current[prog]], run) = j
    BY RunsFacts DEF Handed
  <1> QED
    BY <1>1, RunsFacts DEF Returns

\* One field of a descriptor changes.
LEMMA InFacts ==
  ASSUME file \in [Fds -> File], NEW fd \in Fds, NEW n \in Nat,
         file' = [file EXCEPT ![fd].in = n]
  PROVE  /\ file' \in [Fds -> File]
         /\ file'[fd].in = n
         /\ \A g \in Fds : g # fd => file'[g] = file[g]
  <1>1. /\ file'[fd] = [file[fd] EXCEPT !.in = n]
        /\ \A g \in Fds : g # fd => file'[g] = file[g]
        /\ file' = [g \in Fds |-> file'[g]]
    OBVIOUS
  <1>2. file'[fd] \in File /\ file'[fd].in = n
    BY <1>1 DEF File
  <1> QED
    BY <1>1, <1>2

LEMMA FlagFacts ==
  ASSUME file \in [Fds -> File], NEW fd \in Fds, NEW b \in BOOLEAN,
         \/ file' = [file EXCEPT ![fd].open = b]
         \/ file' = [file EXCEPT ![fd].room = b]
         \/ file' = [file EXCEPT ![fd].hup = b]
         \/ file' = [file EXCEPT ![fd].err = b]
  PROVE  /\ file' \in [Fds -> File]
         /\ \A g \in Fds : file'[g].in = file[g].in
  <1>1. ASSUME file' = [file EXCEPT ![fd].open = b]
        PROVE  /\ file' \in [Fds -> File] /\ \A g \in Fds : file'[g].in = file[g].in
    <2>1. file' \in [Fds -> File]
      BY <1>1 DEF File
    <2>2. \A g \in Fds : file'[g].in = file[g].in
      BY <1>1 DEF File
    <2> QED
      BY <2>1, <2>2
  <1>2. ASSUME file' = [file EXCEPT ![fd].room = b]
        PROVE  /\ file' \in [Fds -> File] /\ \A g \in Fds : file'[g].in = file[g].in
    <2>1. file' \in [Fds -> File]
      BY <1>2 DEF File
    <2>2. \A g \in Fds : file'[g].in = file[g].in
      BY <1>2 DEF File
    <2> QED
      BY <2>1, <2>2
  <1>3. ASSUME file' = [file EXCEPT ![fd].hup = b]
        PROVE  /\ file' \in [Fds -> File] /\ \A g \in Fds : file'[g].in = file[g].in
    <2>1. file' \in [Fds -> File]
      BY <1>3 DEF File
    <2>2. \A g \in Fds : file'[g].in = file[g].in
      BY <1>3 DEF File
    <2> QED
      BY <2>1, <2>2
  <1>4. ASSUME file' = [file EXCEPT ![fd].err = b]
        PROVE  /\ file' \in [Fds -> File] /\ \A g \in Fds : file'[g].in = file[g].in
    <2>1. file' \in [Fds -> File]
      BY <1>4 DEF File
    <2>2. \A g \in Fds : file'[g].in = file[g].in
      BY <1>4 DEF File
    <2> QED
      BY <2>1, <2>2
  <1> QED
    BY <1>1, <1>2, <1>3, <1>4

\* A descriptor is closed or opened anew.
LEMMA PutFacts ==
  ASSUME file \in [Fds -> File], NEW fd \in Fds, NEW f \in File,
         file' = [file EXCEPT ![fd] = f]
  PROVE  /\ file' \in [Fds -> File] /\ file'[fd] = f
         /\ \A g \in Fds : g # fd => file'[g] = file[g]
  OBVIOUS

\* Where the elements of echoclient are that touch the conversation.
LEMMA EchoPlaces ==
  /\ Len(Net["echoclient"]) = 22
  /\ \A e \in 1..22 : Following("echoclient", e) = IF e = 22 THEN 10 ELSE e + 1
  /\ \A e \in 1..22 : /\ Net["echoclient"][e] = "writeA" => e = 15
                      /\ Net["echoclient"][e] = "readA" => e = 16
                      /\ Net["echoclient"][e] = "newlineA" => e = 12
                      /\ Net["echoclient"][e] = "randreadA" => e = 10
                      /\ Net["echoclient"][e] = "randencA" => e = 11
                      /\ Net["echoclient"][e] = "connectA" => e = 5
  /\ Net["echoclient"][15] = "writeA" /\ Net["echoclient"][16] = "readA"
  /\ Net["echoclient"][12] = "newlineA"
  /\ \A e \in 1..22 : Net["echoclient"][e] \notin
       {"tlsA", "tlswriteA", "tlsreadA", "httpreqA", "echoA", "promptA", "countA",
        "pipereadA", "pipewriteA", "tunopenA"}
  <1> DEFINE net == Net["echoclient"]
  <1>1. /\ net = <<"timerA", "timeropenA", "ctxA", "connA", "connectA", "greetingA",
                   "ctxA", "randA", "randopenA", "randreadA", "randencA", "newlineA",
                   "ctxA", "connA", "writeA", "readA", "printA",
                   "ctxA", "timerA", "timersleepA", "ctxA", "randA">>
        /\ Back["echoclient"] = 10
    BY ProgramsAssumption DEF ClientNet, ClientBack, ClientCircuits, echoclient
  <1>2. Len(net) = 22
    BY <1>1
  <1>3. \A e \in 1..22 : Following("echoclient", e) = IF e = 22 THEN 10 ELSE e + 1
    BY <1>1, <1>2 DEF Following
  <1>4. \A e \in 1..22 : e \in {1, 2, 3, 4, 5, 6, 7, 8, 9, 10, 11, 12, 13, 14, 15, 16,
                                17, 18, 19, 20, 21, 22}
    OBVIOUS
  <1>5. \A e \in 1..22 : /\ net[e] = "writeA" => e = 15
                         /\ net[e] = "readA" => e = 16
                         /\ net[e] = "newlineA" => e = 12
                         /\ net[e] = "randreadA" => e = 10
                         /\ net[e] = "randencA" => e = 11
                         /\ net[e] = "connectA" => e = 5
    BY <1>1, <1>4
  <1>6. \A e \in 1..22 : net[e] \notin
          {"tlsA", "tlswriteA", "tlsreadA", "httpreqA", "echoA", "promptA", "countA",
           "pipereadA", "pipewriteA", "tunopenA"}
    BY <1>1, <1>4
  <1>7. net[15] = "writeA" /\ net[16] = "readA" /\ net[12] = "newlineA"
    BY <1>1
  <1> QED
    BY <1>2, <1>3, <1>5, <1>6, <1>7

\* The conversation of echoclient does not move.
LEMMA LockStays ==
  ASSUME LockInv, UNCHANGED <<data, owed, split, immediate, prog>>,
         prog = "echoclient" => ssl' = ssl,
         current'[prog] \in {0, current[prog]},
         (prog = "echoclient" /\ ~split /\ ~immediate /\ current'[prog] # 0) =>
            file'["conn"].in = file["conn"].in
  PROVE  LockInv'
  <1> SUFFICES ASSUME prog = "echoclient", ~split, ~immediate PROVE LockInv'
    BY DEF LockInv
  <1>1. CASE current'[prog] = 0
    BY <1>1 DEF LockInv
  <1>2. CASE current'[prog] = current[prog] /\ current'[prog] # 0
    BY <1>2 DEF LockInv
  <1> QED
    BY <1>1, <1>2

\* Nor does it when an element returns that has no part in it.
LEMMA LockReturns ==
  ASSUME LockInv, ControlTypes, Returns(prog),
         prog = "echoclient" =>
           /\ Net[prog][current[prog]] \notin {"readA", "writeA", "newlineA"}
           /\ data' = data \/ Net[prog][current[prog]] \in {"randreadA", "randencA"}
           /\ UNCHANGED <<owed, split, ssl>>
           /\ file'["conn"].in = file["conn"].in
  PROVE  LockInv'
  <1>1. /\ UNCHANGED <<immediate, prog>> /\ current[prog] # 0 /\ run \in Jobs
        /\ returnA(prog, Handed(Net[prog][current[prog]], run))
    BY DEF Returns, OnElement
  <1>2. current'[prog] = Following(prog, current[prog])
    <2>1. Handed(Net[prog][current[prog]], run) \in Jobs
      BY <1>1, NameFacts DEF Handed, Hands
    <2> QED
      BY <1>1, <2>1, ReturnFacts
  <1> SUFFICES ASSUME prog = "echoclient", ~split, ~immediate PROVE LockInv'
    BY <1>1 DEF LockInv
  <1> UNCHANGED <<owed, split, ssl>> /\ file'["conn"].in = file["conn"].in
    OBVIOUS
  <1>3. current[prog] \in 1..22
    BY <1>1, PlaceFacts, EchoPlaces
  <1>4. current[prog] \notin {12, 15, 16}
    BY <1>3, EchoPlaces
  <1>5. current'[prog] = IF current[prog] = 22 THEN 10 ELSE current[prog] + 1
    BY <1>2, <1>3, EchoPlaces
  <1>6. /\ current'[prog] # 16 /\ current'[prog] # 13
        /\ current'[prog] \in 13..15 => current[prog] \in 13..15
    BY <1>3, <1>4, <1>5
  <1>7. ssl = "none" /\ ~owed /\ file["conn"].in = 0
    BY <1>3, <1>4 DEF LockInv
  <1>8. current[prog] \in 13..15 => data' = "line"
    <2>1. current[prog] \in 13..15 =>
            Net[prog][current[prog]] \notin {"randreadA", "randencA"}
      BY <1>3, EchoPlaces
    <2> QED
      BY <2>1 DEF LockInv
  <1> QED
    BY <1>1, <1>6, <1>7, <1>8 DEF LockInv

\* Waiting, failing or dying leaves a program at its element, or at none.
LEMMA NotReturned ==
  ASSUME ControlTypes, Fails(prog) \/ WaitsOrFails(prog) \/ Dies(prog) \/ Outside
  PROVE  /\ current'[prog] \in {0, current[prog]} /\ UNCHANGED <<immediate, prog>>
         /\ Fails(prog) => current'[prog] = 0
  <1>1. ASSUME errorA(prog) PROVE current'[prog] = 0
    BY <1>1, ErrorFacts
  <1> QED
    BY <1>1
    DEF Fails, WaitsOrFails, Dies, Outside, waits, waitA, waitA_fails, control

\* A program that fails, waits or dies and touches nothing else.
LEMMA StreamStays ==
  ASSUME ClientsInv, Fails(prog) \/ WaitsOrFails(prog) \/ Dies(prog),
         UNCHANGED <<file, streamVars, tcpVars, timerVars, tlsVars, tunVars>>
  PROVE  ClientsInv'
  <1>1. ControlInv' /\ StartInv'
    BY MovesKeep DEF ClientsInv, Moves
  <1>2. /\ UNCHANGED <<data, nonblock, owed, split, tcpstatus, tries, sockets, immediate>>
        /\ UNCHANGED <<interval, timerstatus, tlsstatus, ssl, roots, trusted, requested>>
        /\ UNCHANGED <<calls, tunfds>>
    BY DEF streamVars, tcpVars, timerVars, tlsVars, tunVars
  <1>3. DataTypes' /\ TlsInv'
    BY <1>2 DEF ClientsInv, DataTypes, StreamsTypeOK, TcpClientTypeOK, TimerTypeOK,
                TlsTypeOK, TlsInv, TuntapTypeOK
  <1>4. LockInv'
    BY <1>2, NotReturned, LockStays DEF ClientsInv, ControlInv
  <1> QED
    BY <1>1, <1>3, <1>4 DEF ClientsInv

\* What an element may leave in the buffers and files, when it returns.
LEMMA StreamReturns ==
  ASSUME ClientsInv, Returns(prog), file' \in [Fds -> File], StreamsTypeOK',
         UNCHANGED <<tcpVars, timerVars, tlsVars, tunVars>>, LockInv'
  PROVE  ClientsInv'
  <1>1. ControlInv' /\ StartInv'
    BY MovesKeep DEF ClientsInv, Moves
  <1>2. /\ UNCHANGED <<tcpstatus, tries, sockets, immediate>>
        /\ UNCHANGED <<interval, timerstatus, tlsstatus, ssl, roots, trusted, requested>>
        /\ UNCHANGED <<calls, tunfds>>
    BY DEF tcpVars, timerVars, tlsVars, tunVars
  <1>3. DataTypes' /\ TlsInv'
    BY <1>2 DEF ClientsInv, DataTypes, TcpClientTypeOK, TimerTypeOK,
                TlsTypeOK, TlsInv, TuntapTypeOK
  <1> QED
    BY <1>1, <1>3 DEF ClientsInv

\* readA and pipereadA.
LEMMA ReadKeeps ==
  ASSUME ClientsInv, NEW j \in Jobs, NEW fd \in Fds, NEW kind \in {"readA", "pipereadA"},
         Runs(prog, j, kind), read(prog, j, fd), fd = "conn" <=> j = "conn",
         UNCHANGED <<tcpVars, timerVars, tlsVars, tunVars, prog>>
  PROVE  ClientsInv'
  <1>1. /\ OnElement(prog) /\ run = j /\ died = "no" /\ current[prog] # 0
        /\ Net[prog][current[prog]] = kind /\ kind \notin DOMAIN Hands
        /\ UNCHANGED <<immediate, prog, ssl>>
    BY RunsFacts DEF tcpVars, tlsVars, Hands
  <1>2. CASE /\ HasData(fd)
             /\ file' = [file EXCEPT ![fd].in = @ - 1]
             /\ data' = "input"
             /\ returnA(prog, j)
             /\ UNCHANGED <<waitVars, caller, status, nonblock, owed, split>>
    <2>1. Returns(prog)
      BY <1>1, <1>2, ReturnsOn
    <2>2. file \in [Fds -> File] /\ file[fd].in \in Nat
      BY DEF ClientsInv, DataTypes, File
    <2>3. file[fd].in > 0 /\ file' = [file EXCEPT ![fd].in = file[fd].in - 1]
      BY <1>2 DEF HasData
    <2>4. file[fd].in - 1 \in Nat
      BY <2>2, <2>3
    <2>5. file' \in [Fds -> File] /\ file'[fd].in = file[fd].in - 1
      BY <2>2, <2>3, <2>4, InFacts
    <2>6. StreamsTypeOK'
      BY <1>2 DEF ClientsInv, DataTypes, StreamsTypeOK
    <2>7. LockInv'
      <3> SUFFICES ASSUME prog = "echoclient", ~split, ~immediate PROVE LockInv'
        BY <1>1, <1>2 DEF LockInv
      <3>1. current[prog] \in 1..22
        BY <1>1, PlaceFacts, EchoPlaces DEF ClientsInv, ControlInv
      <3>2. kind = "readA" /\ current[prog] = 16
        BY <1>1, <3>1, EchoPlaces
      <3>3. current'[prog] = 17
        BY <1>1, <1>2, <3>1, <3>2, ReturnFacts, EchoPlaces DEF ClientsInv, ControlInv
      <3>4. j = "conn"
        <4>1. Given["echoclient"][16] = "conn"
          BY DEF Given, ClientCircuits
        <4> QED
          BY <1>1, <3>2, <4>1, NobodyWaits DEF ClientsInv
      <3>5. fd = "conn" /\ ssl = "none" /\ (owed <=> file[fd].in # 1) /\ file[fd].in <= 1
        BY <3>2, <3>4 DEF ClientsInv, LockInv
      <3>6. ~owed /\ file'["conn"].in = 0
        BY <2>2, <2>3, <2>5, <3>5
      <3> QED
        BY <1>1, <1>2, <3>3, <3>5, <3>6 DEF LockInv
    <2> QED
      BY <2>1, <2>5, <2>6, <2>7, StreamReturns
  <1>3. CASE AtEnd(fd) /\ fails(prog)
    <2>1. Fails(prog) /\ UNCHANGED <<file, streamVars>>
      BY <1>1, <1>3 DEF fails, Fails, waitVars
    <2> QED
      BY <2>1, StreamStays
  <1>4. CASE /\ Again(fd) /\ ~Blocks(fd)
             /\ waits(prog, j, fd, "EPOLLIN")
             /\ UNCHANGED <<caller, died, file, streamVars>>
    <2>1. WaitsOrFails(prog)
      BY <1>1, <1>4 DEF WaitsOrFails, Op
    <2> QED
      BY <1>4, <2>1, StreamStays
  <1> QED
    BY <1>2, <1>3, <1>4 DEF read

\* writeA and pipewriteA.
LEMMA WriteKeeps ==
  ASSUME ClientsInv, NEW j \in Jobs, NEW fd \in Fds, NEW kind \in {"writeA", "pipewriteA"},
         Runs(prog, j, kind), write(prog, j, fd), fd = "conn" <=> j = "conn",
         UNCHANGED <<tcpVars, timerVars, tlsVars, tunVars, prog>>
  PROVE  ClientsInv'
  <1>1. /\ OnElement(prog) /\ run = j /\ died = "no" /\ current[prog] # 0
        /\ Net[prog][current[prog]] = kind /\ kind \notin DOMAIN Hands
        /\ UNCHANGED <<immediate, prog, ssl>>
    BY RunsFacts DEF tcpVars, tlsVars, Hands
  <1>2. CASE write_data(prog, j, fd)
    <2>1. /\ returnA(prog, j) /\ UNCHANGED <<waitVars, caller, status, data, nonblock>>
          /\ owed' = (owed \/ fd \in Sockets)
      BY <1>2 DEF write_data
    <2>2. PICK room \in BOOLEAN, whole \in BOOLEAN :
            /\ file' = [file EXCEPT ![fd].room = room]
            /\ split' = (split \/ (fd \in Sockets /\ ~whole))
      BY <1>2 DEF write_data
    <2>3. Returns(prog)
      BY <1>1, <2>1, ReturnsOn
    <2>4. file' \in [Fds -> File] /\ \A g \in Fds : file'[g].in = file[g].in
      BY <2>2, FlagFacts DEF ClientsInv, DataTypes
    <2>5. split \in BOOLEAN /\ owed \in BOOLEAN
      BY DEF ClientsInv, DataTypes, StreamsTypeOK
    <2>6. /\ split' \in BOOLEAN /\ owed' \in BOOLEAN
          /\ ~split' => ~split
          /\ fd = "conn" => owed'
      BY <2>1, <2>2, <2>5, NameFacts
    <2>7. StreamsTypeOK'
      BY <2>1, <2>6 DEF ClientsInv, DataTypes, StreamsTypeOK
    <2>8. LockInv'
      <3> SUFFICES ASSUME prog = "echoclient", ~split', ~immediate PROVE LockInv'
        BY <1>1 DEF LockInv
      <3>1. current[prog] \in 1..22
        BY <1>1, PlaceFacts, EchoPlaces DEF ClientsInv, ControlInv
      <3>2. kind = "writeA" /\ current[prog] = 15
        BY <1>1, <3>1, EchoPlaces
      <3>3. current'[prog] = 16
        BY <1>1, <2>1, <3>1, <3>2, ReturnFacts, EchoPlaces DEF ClientsInv, ControlInv
      <3>4. j = "conn"
        <4>1. Given["echoclient"][15] = "conn"
          BY DEF Given, ClientCircuits
        <4> QED
          BY <1>1, <3>2, <4>1, NobodyWaits DEF ClientsInv
      <3>5. owed' /\ ssl = "none" /\ file["conn"].in = 0
        BY <2>6, <3>2, <3>4 DEF ClientsInv, LockInv
      <3>6. file'["conn"].in = 0
        BY <2>4, <3>5, NameFacts
      <3> QED
        BY <1>1, <3>3, <3>5, <3>6 DEF LockInv
    <2> QED
      BY <2>3, <2>4, <2>7, <2>8, StreamReturns
  <1>3. CASE write_fails(prog, fd)
    <2>1. \/ Fails(prog) /\ UNCHANGED <<file, streamVars>>
          \/ Dies(prog) /\ UNCHANGED <<file, streamVars>>
      BY <1>1, <1>3 DEF write_fails, fails, Fails, Dies, waitVars
    <2> QED
      BY <2>1, StreamStays
  <1>4. CASE write_waits(prog, j, fd)
    <2>1. WaitsOrFails(prog) /\ UNCHANGED <<file, streamVars>>
      BY <1>1, <1>4 DEF write_waits, WaitsOrFails, Op
    <2> QED
      BY <2>1, StreamStays
  <1> QED
    BY <1>2, <1>3, <1>4 DEF write

\* An element that returns without a part in the conversation of echoclient.
LEMMA PlainReturns ==
  ASSUME ClientsInv, Returns(prog), file' \in [Fds -> File], StreamsTypeOK',
         UNCHANGED <<tcpVars, timerVars, tlsVars, tunVars>>,
         prog = "echoclient" =>
           /\ Net[prog][current[prog]] \notin {"readA", "writeA", "newlineA"}
           /\ data' = data \/ Net[prog][current[prog]] \in {"randreadA", "randencA"}
           /\ UNCHANGED <<owed, split>>
           /\ file'["conn"].in = file["conn"].in
  PROVE  ClientsInv'
  <1>1. LockInv'
    BY LockReturns DEF tlsVars, ClientsInv, ControlInv
  <1> QED
    BY <1>1, StreamReturns

\* The elements of random.c.
LEMMA RandKeeps ==
  ASSUME ClientsInv, randopenA(prog) \/ randreadA(prog) \/ randencA(prog),
         UNCHANGED <<tcpVars, timerVars, tlsVars, tunVars, prog>>
  PROVE  ClientsInv'
  <1>1. PICK kind \in {"randopenA", "randreadA", "randencA"} :
          /\ Runs(prog, "rand", kind)
          /\ kind = "randopenA" => randopenA(prog)
          /\ kind = "randreadA" => randreadA(prog)
          /\ kind = "randencA" => randencA(prog)
    BY DEF randopenA, randreadA, randencA, Runs
  <1>2. /\ OnElement(prog) /\ run = "rand" /\ died = "no" /\ current[prog] # 0
        /\ Net[prog][current[prog]] = kind /\ kind \notin DOMAIN Hands
        /\ "rand" \in Jobs /\ "rand" \in Fds /\ "conn" \in Fds /\ immediate' = immediate
        /\ file \in [Fds -> File] /\ StreamsTypeOK
    BY <1>1, RunsFacts, NameFacts DEF Hands, tcpVars, ClientsInv, DataTypes
  <1>3. CASE fails(prog)
    <2>1. Fails(prog) /\ UNCHANGED <<file, streamVars>>
      BY <1>2, <1>3 DEF fails, Fails, waitVars
    <2> QED
      BY <2>1, StreamStays
  <1>4. CASE /\ file' = [file EXCEPT !["rand"].open = TRUE]
             /\ returnA(prog, "rand")
             /\ UNCHANGED <<waitVars, caller, status, streamVars>>
             /\ kind = "randopenA"
    <2>1. Returns(prog)
      BY <1>1, <1>2, <1>4, ReturnsOn
    <2>2. file' \in [Fds -> File] /\ file'["conn"].in = file["conn"].in
      BY <1>2, <1>4, FlagFacts
    <2>3. UNCHANGED <<data, nonblock, owed, split>> /\ StreamsTypeOK'
      BY <1>2, <1>4 DEF streamVars, StreamsTypeOK
    <2> QED
      BY <1>2, <1>4, <2>1, <2>2, <2>3, PlainReturns
  <1>5. CASE /\ kind \in {"randreadA", "randencA"}
             /\ data' \in {"raw", "SIZE_MAX", "letters"}
             /\ returnA(prog, "rand")
             /\ UNCHANGED <<waitVars, caller, status, file, nonblock, owed, split>>
    <2>1. Returns(prog)
      BY <1>1, <1>2, <1>5, ReturnsOn
    <2>2. StreamsTypeOK'
      BY <1>2, <1>5 DEF StreamsTypeOK
    <2> QED
      BY <1>2, <1>5, <2>1, <2>2, PlainReturns
  <1>6. CASE /\ data = "SIZE_MAX" /\ died' = "SIGSEGV" /\ UNCHANGED <<run, current, data>>
             /\ UNCHANGED <<waitVars, caller, status, file, nonblock, owed, split>>
    <2>1. Dies(prog) /\ UNCHANGED <<file, streamVars>>
      BY <1>2, <1>6 DEF Dies, control, streamVars
    <2> QED
      BY <2>1, StreamStays
  <1> QED
    BY <1>1, <1>3, <1>4, <1>5, <1>6 DEF randopenA, randreadA, randencA

\* The elements that hand one struct for another.
LEMMA HandKeeps ==
  ASSUME ClientsInv, hand(prog), UNCHANGED <<tcpVars, timerVars, tlsVars, tunVars, prog>>
  PROVE  ClientsInv'
  <1>0. PICK kind \in DOMAIN Hands :
          \E j \in Takes(kind) : Runs(prog, j, kind) /\ returnA(prog, Hands[kind])
    BY DEF hand
  <1>1. PICK j \in Takes(kind) : Runs(prog, j, kind) /\ returnA(prog, Hands[kind])
    BY <1>0
  <1>2. j \in Jobs /\ kind \notin {"readA", "writeA", "newlineA"}
    BY <1>1, NameFacts DEF Hands, Takes
  <1>3. /\ OnElement(prog) /\ Net[prog][current[prog]] = kind
        /\ UNCHANGED <<waitVars, caller, status, file, streamVars, immediate, prog>>
    BY <1>1, <1>2, RunsFacts DEF hand, tcpVars
  <1>4. Returns(prog)
    BY <1>1, <1>3 DEF Returns, Handed
  <1>5. UNCHANGED <<data, nonblock, owed, split>> /\ StreamsTypeOK'
    BY <1>3 DEF streamVars, StreamsTypeOK, ClientsInv, DataTypes
  <1>6. file' \in [Fds -> File]
    BY <1>3 DEF ClientsInv, DataTypes
  <1> QED
    BY <1>2, <1>3, <1>4, <1>5, <1>6, PlainReturns

\* The elements that work on the buffer.
LEMMA WorksKeeps ==
  ASSUME ClientsInv, NEW j \in {"conn", "rand", "pipe"},
         NEW kind \in {"newlineA", "greetingA", "httpreqA", "printA", "echoA",
                       "promptA", "countA"},
         NEW left \in SUBSET {"empty", "line", "request", data},
         kind = "newlineA" => left = {"line"},
         prog = "echoclient" /\ kind # "newlineA" =>
           left = {data} \/ kind \in {"httpreqA", "echoA"},
         works(prog, j, kind, left),
         UNCHANGED <<tcpVars, timerVars, tlsVars, tunVars, prog>>
  PROVE  ClientsInv'
  <1>1. /\ Runs(prog, j, kind) /\ data' \in left /\ returnA(prog, j)
        /\ UNCHANGED <<waitVars, caller, status, file, nonblock, owed, split>>
        /\ UNCHANGED <<immediate, prog, ssl>> /\ j \in Jobs
    BY NameFacts DEF works, tcpVars, tlsVars
  <1>2. OnElement(prog) /\ Net[prog][current[prog]] = kind /\ current[prog] # 0
    BY <1>1, RunsFacts
  <1>3. kind \notin DOMAIN Hands
    BY DEF Hands
  <1>4. Returns(prog)
    BY <1>1, <1>3, ReturnsOn
  <1>5. StreamsTypeOK' /\ file' \in [Fds -> File]
    BY <1>1 DEF StreamsTypeOK, ClientsInv, DataTypes
  <1>6. CASE kind # "newlineA"
    <2>1. prog = "echoclient" => left = {data}
      <3>1. prog = "echoclient" => current[prog] \in 1..22
        BY <1>2, PlaceFacts, EchoPlaces DEF ClientsInv, ControlInv
      <3>2. prog = "echoclient" => kind \notin {"httpreqA", "echoA"}
        BY <1>2, <3>1, EchoPlaces
      <3> QED
        BY <1>6, <3>2
    <2> QED
      BY <1>1, <1>2, <1>4, <1>5, <1>6, <2>1, PlainReturns
  <1>7. CASE kind = "newlineA"
    <2>1. LockInv'
      <3> SUFFICES ASSUME prog = "echoclient", ~split, ~immediate PROVE LockInv'
        BY <1>1 DEF LockInv
      <3>1. current[prog] \in 1..22
        BY <1>2, PlaceFacts, EchoPlaces DEF ClientsInv, ControlInv
      <3>2. current[prog] = 12
        BY <1>2, <1>7, <3>1, EchoPlaces
      <3>3. current'[prog] = 13
        BY <1>1, <3>2, ReturnFacts, EchoPlaces DEF ClientsInv, ControlInv
      <3>4. data' = "line" /\ ssl = "none" /\ ~owed /\ file["conn"].in = 0
        BY <1>1, <1>7, <3>2 DEF ClientsInv, LockInv
      <3> QED
        BY <1>1, <3>3, <3>4 DEF LockInv
    <2> QED
      BY <1>4, <1>5, <2>1, StreamReturns
  <1> QED
    BY <1>6, <1>7

\* promptA and countA: as above, or the process is killed.
LEMMA SaysKeeps ==
  ASSUME ClientsInv, NEW kind \in {"promptA", "countA"}, says(prog, kind),
         UNCHANGED <<tcpVars, timerVars, tlsVars, tunVars, prog>>
  PROVE  ClientsInv'
  <1>1. CASE file["stdout"].err
    <2>1. /\ Runs(prog, "pipe", kind) /\ died' = "SIGPIPE"
          /\ UNCHANGED <<waitVars, control, status, file, streamVars, immediate, prog>>
      BY <1>1 DEF says, tcpVars
    <2>2. Dies(prog)
      BY <2>1, RunsFacts, NameFacts DEF Dies
    <2> QED
      BY <2>1, <2>2, StreamStays
  <1>2. CASE ~file["stdout"].err
    <2>1. works(prog, "pipe", kind, {data})
      BY <1>2 DEF says
    <2> QED
      BY <2>1, WorksKeeps
  <1> QED
    BY <1>1, <1>2

\* A struct of another type: only after connectA has returned twice.
LEMMA ConfusedKeeps ==
  ASSUME ClientsInv, confused(prog), UNCHANGED <<tcpVars, timerVars, tlsVars, tunVars, prog>>
  PROVE  ClientsInv'
  <1>1. /\ Alive /\ run # NULL /\ current[prog] # 0 /\ died' = "undefined"
        /\ run \notin Takes(Net[prog][current[prog]])
        /\ UNCHANGED <<waitVars, control, status, file, streamVars, prog, immediate>>
        /\ UNCHANGED <<run, caller, current>> /\ epfd' = epfd /\ epfd = "open"
    BY DEF confused, tcpVars, control, waitVars, Alive
  <1>2. immediate
    <2>1. SUFFICES ASSUME ~immediate PROVE FALSE
      OBVIOUS
    <2>2. run = Given[prog][current[prog]]
      BY <1>1, <2>1 DEF ClientsInv, ControlInv, RunInv
    <2>3. Given[prog][current[prog]] \in Takes(Net[prog][current[prog]])
      BY <1>1, PlaceFacts, ProgramsFit DEF WellTyped, ClientsInv, ControlInv
    <2> QED
      BY <1>1, <2>2, <2>3
  <1>3. WaitsInv' /\ ControlTypes'
    BY <1>1, EndInv DEF ClientsInv, ControlInv, ControlTypes
  <1>4. ControlInv' /\ StartInv'
    BY <1>1, <1>2, <1>3, ImmediateKeeps DEF StartInv
  <1>5. /\ UNCHANGED <<data, nonblock, owed, split, tcpstatus, tries, sockets, immediate>>
        /\ UNCHANGED <<interval, timerstatus, tlsstatus, ssl, roots, trusted, requested>>
        /\ UNCHANGED <<calls, tunfds>>
    BY <1>1 DEF streamVars, tcpVars, timerVars, tlsVars, tunVars
  <1>6. DataTypes' /\ TlsInv'
    BY <1>1, <1>5 DEF ClientsInv, DataTypes, StreamsTypeOK, TcpClientTypeOK, TimerTypeOK,
                TlsTypeOK, TlsInv, TuntapTypeOK
  <1>7. LockInv'
    BY <1>1, <1>2 DEF LockInv
  <1> QED
    BY <1>4, <1>6, <1>7 DEF ClientsInv

\* What is left to show of a step that moves the program.
LEMMA MovesOn ==
  ASSUME ClientsInv, Moves, DataTypes', TlsInv', LockInv'
  PROVE  ClientsInv'
  BY MovesKeep DEF ClientsInv

\* What the variables of a module say when they stay as they are.
LEMMA KeptFacts ==
  ASSUME ClientsInv
  PROVE  /\ UNCHANGED streamVars =>
              UNCHANGED <<data, nonblock, owed, split>> /\ StreamsTypeOK'
         /\ UNCHANGED tcpVars =>
              UNCHANGED <<tcpstatus, tries, sockets, immediate>> /\ TcpClientTypeOK'
         /\ UNCHANGED timerVars =>
              UNCHANGED <<interval, timerstatus>> /\ TimerTypeOK'
         /\ UNCHANGED tlsVars =>
              /\ UNCHANGED <<tlsstatus, ssl, roots, trusted, requested>>
              /\ TlsTypeOK' /\ TlsInv'
         /\ UNCHANGED tunVars => UNCHANGED <<calls, tunfds>> /\ TuntapTypeOK'
  <1>1. /\ StreamsTypeOK /\ TcpClientTypeOK /\ TimerTypeOK /\ TlsTypeOK
        /\ TlsInv /\ TuntapTypeOK
    BY DEF ClientsInv, DataTypes
  <1>2. UNCHANGED streamVars => UNCHANGED <<data, nonblock, owed, split>> /\ StreamsTypeOK'
    BY <1>1 DEF streamVars, StreamsTypeOK
  <1>3. UNCHANGED tcpVars =>
          UNCHANGED <<tcpstatus, tries, sockets, immediate>> /\ TcpClientTypeOK'
    BY <1>1 DEF tcpVars, TcpClientTypeOK
  <1>4. UNCHANGED timerVars => UNCHANGED <<interval, timerstatus>> /\ TimerTypeOK'
    BY <1>1 DEF timerVars, TimerTypeOK
  <1>5. UNCHANGED tlsVars =>
          /\ UNCHANGED <<tlsstatus, ssl, roots, trusted, requested>>
          /\ TlsTypeOK' /\ TlsInv'
    BY <1>1 DEF tlsVars, TlsTypeOK, TlsInv
  <1>6. UNCHANGED tunVars => UNCHANGED <<calls, tunfds>> /\ TuntapTypeOK'
    BY <1>1 DEF tunVars, TuntapTypeOK
  <1> QED
    BY <1>2, <1>3, <1>4, <1>5, <1>6

-----------------------------------------------------------------------------
(* connectA.                                                               *)

LEMMA SocketFacts ==
  /\ Closed \in File /\ Closed.in = 0
  /\ NewSocket \in File /\ NewSocket.in = 0
  /\ [NewSocket EXCEPT !.room = TRUE] \in File
  BY DEF Closed, NewSocket, File

\* An element that fails does not touch the conversation of echoclient.
LEMMA LockFails ==
  ASSUME ClientsInv, Fails(prog), UNCHANGED <<data, owed, split, ssl>>
  PROVE  LockInv'
  <1>1. current'[prog] = 0 /\ UNCHANGED <<immediate, prog>>
    BY NotReturned DEF ClientsInv, ControlInv
  <1> QED
    BY <1>1, LockStays DEF ClientsInv

\* Nor does one that opens or sets up a descriptor.
LEMMA QuietMoves ==
  ASSUME ClientsInv, Moves, DataTypes', UNCHANGED <<streamVars, tlsVars>>,
         Returns(prog) =>
           Net[prog][current[prog]] \notin {"readA", "writeA", "newlineA"},
         file'["conn"].in = file["conn"].in
  PROVE  ClientsInv'
  <1>1. /\ UNCHANGED <<data, owed, split, ssl>> /\ TlsInv' /\ ControlTypes
        /\ LockInv
    BY KeptFacts DEF ClientsInv, ControlInv
  <1>2. CASE Returns(prog)
    <2>1. LockInv'
      BY <1>1, <1>2, LockReturns
    <2> QED
      BY <1>1, <2>1, MovesOn
  <1>3. CASE Fails(prog) \/ WaitsOrFails(prog) \/ Dies(prog) \/ Outside
    <2>1. LockInv'
      BY <1>1, <1>3, NotReturned, LockStays
    <2> QED
      BY <1>1, <2>1, MovesOn
  <1> QED
    BY <1>2, <1>3 DEF Moves

\* The tries that are left, and the sockets, are within bounds.
LEMMA TriesFacts ==
  ASSUME ClientsInv
  PROVE  /\ tries \in 0..MaxAddrs /\ sockets \subseteq 1..MaxAddrs /\ MaxAddrs \in Nat
         /\ tries # 0 => tries \in 1..MaxAddrs /\ tries - 1 \in 0..MaxAddrs
         /\ \A i \in sockets : i # 0
  <1>1. tries \in 0..MaxAddrs /\ sockets \subseteq 1..MaxAddrs /\ MaxAddrs \in Nat
    BY TcpClientAssumption DEF ClientsInv, DataTypes, TcpClientTypeOK
  <1> QED
    BY <1>1

\* The steps of connectA up to a connect that does not fail.
LEMMA ConnectKeeps ==
  ASSUME ClientsInv,
         connectA(prog) \/ connectA_socket(prog) \/ connectA_refused(prog),
         UNCHANGED <<streamVars, timerVars, tlsVars, tunVars, prog>>
  PROVE  ClientsInv'
  <1>1. /\ Runs(prog, "conn", "connectA")
        /\ errorA(prog) \/ goes_on
        /\ UNCHANGED <<waitVars, caller, died, file, tcpstatus, immediate>>
    BY DEF connectA, connectA_socket, connectA_refused, next_address
  <1>2. OnElement(prog) /\ Alive
    BY <1>1, RunsFacts, NameFacts
  <1>3. Fails(prog) \/ Outside
    BY <1>1, <1>2 DEF Fails, Outside, goes_on, control, waitVars
  <1>4. tries' \in 0..MaxAddrs /\ sockets' \subseteq 1..MaxAddrs
    <2>1. CASE connectA(prog)
      BY <2>1, TriesFacts DEF connectA
    <2>2. CASE connectA_socket(prog)
      BY <2>2, TriesFacts DEF connectA_socket, next_address
    <2>3. CASE connectA_refused(prog)
      BY <2>3, TriesFacts DEF connectA_refused, next_address
    <2> QED
      BY <2>1, <2>2, <2>3
  <1>5. DataTypes'
    BY <1>1, <1>4, KeptFacts DEF ClientsInv, DataTypes, TcpClientTypeOK
  <1>6. ~Returns(prog) \/ Net[prog][current[prog]] = "connectA"
    BY <1>1, RunsFacts, NameFacts
  <1> QED
    BY <1>1, <1>3, <1>5, <1>6, QuietMoves DEF Moves

\* connectA of echoclient runs before the conversation starts.
LEMMA BeforeTalk ==
  ASSUME ClientsInv, prog = "echoclient", ~split, ~immediate,
         current[prog] # 0, Net[prog][current[prog]] = "connectA"
  PROVE  file["conn"].in = 0 /\ ~owed /\ current[prog] = 5
  <1>1. current[prog] = 5
    BY PlaceFacts, EchoPlaces DEF ClientsInv, ControlInv
  <1> QED
    BY <1>1 DEF ClientsInv, LockInv

LEMMA ConnectWaitsKeeps ==
  ASSUME ClientsInv, connectA_waits(prog),
         UNCHANGED <<streamVars, timerVars, tlsVars, tunVars, prog>>
  PROVE  ClientsInv'
  <1>1. /\ Runs(prog, "conn", "connectA") /\ waits(prog, "conn", "conn", "EPOLLOUT")
        /\ file' = [file EXCEPT !["conn"] = NewSocket]
        /\ tcpstatus' = "_CONNECTING" /\ tries' = 0 /\ sockets' = sockets \ {tries}
        /\ UNCHANGED <<caller, died, immediate>>
    BY DEF connectA_waits, takes
  <1>3. /\ OnElement(prog) /\ run = "conn" /\ "conn" \in Fds /\ current[prog] # 0
        /\ Net[prog][current[prog]] = "connectA"
    BY <1>1, RunsFacts, NameFacts
  <1>4. WaitsOrFails(prog)
    BY <1>1, <1>3 DEF WaitsOrFails, Op
  <1>5. /\ UNCHANGED <<data, owed, split, ssl>> /\ StreamsTypeOK'
        /\ TimerTypeOK' /\ TlsTypeOK' /\ TlsInv' /\ TuntapTypeOK'
    BY KeptFacts
  <1>6. TcpClientTypeOK'
    BY <1>1, TriesFacts DEF ClientsInv, DataTypes, TcpClientTypeOK
  <1>7. file' \in [Fds -> File] /\ file'["conn"].in = 0
    BY <1>1, <1>3, PutFacts, SocketFacts DEF ClientsInv, DataTypes
  <1>8. LockInv'
    BY <1>3, <1>4, <1>5, <1>7, BeforeTalk, NotReturned, LockStays DEF ClientsInv, ControlInv
  <1> QED
    BY <1>4, <1>5, <1>6, <1>7, <1>8, MovesOn DEF DataTypes, Moves

\* After a step of a program whose connect has succeeded at once.
LEMMA LooseKeeps ==
  ASSUME ClientsInv, immediate', Alive, epfd' = epfd, WaitsInv', ControlTypes',
         DataTypes', TlsInv'
  PROVE  ClientsInv'
  <1>1. ControlInv' /\ LockInv'
    BY ImmediateKeeps DEF LockInv
  <1>2. StartInv'
    BY DEF StartInv, Alive
  <1> QED
    BY <1>1, <1>2 DEF ClientsInv

LEMMA ConnectNowKeeps ==
  ASSUME ClientsInv, connectA_now(prog),
         UNCHANGED <<streamVars, timerVars, tlsVars, tunVars, prog>>
  PROVE  ClientsInv'
  <1>1. /\ Runs(prog, "conn", "connectA") /\ Connected(prog)
        /\ file' = [file EXCEPT !["conn"] = [NewSocket EXCEPT !.room = TRUE]]
        /\ tries' = 0 /\ sockets' = sockets \ {tries} /\ tcpstatus' = "_CONNECTED"
        /\ immediate' = TRUE /\ caller' = "connectA" /\ UNCHANGED waitVars
    BY DEF connectA_now, takes, Connected
  <1>3. ControlTypes /\ WaitsInv /\ "conn" \in Fds /\ "conn" \in Jobs /\ Alive
    BY <1>1, RunsFacts, NameFacts DEF ClientsInv, ControlInv
  <1>4. WaitsInv' /\ epfd' = epfd
    BY <1>1, <1>3, EndInv DEF waitVars
  <1>5. ControlTypes'
    <2>1. CASE returnA(prog, "conn") /\ UNCHANGED status
      BY <1>1, <1>3, <2>1, ReturnFacts DEF ControlTypes
    <2>2. CASE errorA(prog) /\ UNCHANGED died
      BY <1>1, <1>3, <2>2, ErrorFacts DEF ControlTypes
    <2> QED
      BY <1>1, <2>1, <2>2 DEF Connected
  <1>6. StreamsTypeOK' /\ TimerTypeOK' /\ TlsTypeOK' /\ TlsInv' /\ TuntapTypeOK'
    BY KeptFacts
  <1>7. TcpClientTypeOK'
    BY <1>1, TriesFacts DEF ClientsInv, DataTypes, TcpClientTypeOK
  <1>8. file' \in [Fds -> File]
    BY <1>1, <1>3, PutFacts, SocketFacts DEF ClientsInv, DataTypes
  <1>9. DataTypes'
    BY <1>6, <1>7, <1>8 DEF DataTypes
  <1> QED
    BY <1>1, <1>3, <1>4, <1>5, <1>6, <1>9, LooseKeeps

LEMMA ConnectReturnsKeeps ==
  ASSUME ClientsInv, connectA_returns(prog),
         UNCHANGED <<streamVars, timerVars, tlsVars, tunVars, prog>>
  PROVE  ClientsInv'
  <1>1. /\ Alive /\ caller = "connectA" /\ caller' = NULL /\ returnA(prog, "conn")
        /\ UNCHANGED <<waitVars, status, file, tcpVars>>
    BY DEF connectA_returns
  <1>2. ControlTypes /\ WaitsInv /\ "conn" \in Jobs /\ immediate
    BY <1>1, NameFacts DEF ClientsInv, ControlInv
  <1>3. WaitsInv' /\ epfd' = epfd
    BY <1>1, <1>2, EndInv DEF waitVars
  <1>4. /\ StreamsTypeOK' /\ TimerTypeOK' /\ TlsTypeOK' /\ TlsInv' /\ TuntapTypeOK'
        /\ TcpClientTypeOK' /\ immediate' = immediate
    BY <1>1, KeptFacts
  <1>5. ControlTypes'
    BY <1>1, <1>2, <1>4, ReturnFacts DEF ControlTypes
  <1>6. DataTypes'
    BY <1>1, <1>4 DEF DataTypes, ClientsInv
  <1> QED
    BY <1>1, <1>2, <1>3, <1>4, <1>5, <1>6, LooseKeeps

LEMMA ContinueKeeps ==
  ASSUME ClientsInv, _connect_continue(prog),
         UNCHANGED <<streamVars, timerVars, tlsVars, tunVars, prog>>
  PROVE  ClientsInv'
  <1>1. /\ Runs(prog, "conn", "connectA") /\ Connected(prog)
        /\ tcpstatus' = "_CONNECTED"
        /\ UNCHANGED <<waitVars, caller, file, tries, sockets, immediate>>
    BY DEF _connect_continue, Connected
  <1>2. /\ OnElement(prog) /\ "conn" \in Jobs /\ "connectA" \notin DOMAIN Hands
        /\ Net[prog][current[prog]] = "connectA"
    BY <1>1, RunsFacts, NameFacts DEF Hands
  <1>3. DataTypes'
    BY <1>1, KeptFacts DEF ClientsInv, DataTypes, TcpClientTypeOK
  <1>4. Returns(prog) \/ Fails(prog)
    <2>1. CASE returnA(prog, "conn") /\ UNCHANGED status
      BY <1>1, <1>2, <2>1, ReturnsOn
    <2>2. CASE errorA(prog) /\ UNCHANGED died
      BY <1>1, <1>2, <2>2 DEF Fails, waitVars
    <2> QED
      BY <1>1, <2>1, <2>2 DEF Connected
  <1> QED
    BY <1>1, <1>2, <1>3, <1>4, QuietMoves DEF Moves

LEMMA ContinueFailsKeeps ==
  ASSUME ClientsInv, _connect_continue_fails(prog),
         UNCHANGED <<streamVars, timerVars, tlsVars, tunVars, prog>>
  PROVE  ClientsInv'
  <1>1. /\ Runs(prog, "conn", "connectA") /\ errorA(prog) /\ tcpstatus' = "_FAILED"
        /\ \/ UNCHANGED <<file, armed>>
           \/ /\ file' = [file EXCEPT !["conn"] = Closed]
              /\ armed' = [armed EXCEPT !["conn"] = NULL]
        /\ UNCHANGED <<epfd, count, batch, caller, died, tries, sockets, immediate>>
    BY DEF _connect_continue_fails
  <1>2. Fails(prog)
    BY <1>1, RunsFacts, NameFacts DEF Fails
  <1>3. /\ UNCHANGED <<data, owed, split, ssl>> /\ StreamsTypeOK'
        /\ TimerTypeOK' /\ TlsTypeOK' /\ TlsInv' /\ TuntapTypeOK'
    BY KeptFacts
  <1>4. TcpClientTypeOK'
    BY <1>1 DEF ClientsInv, DataTypes, TcpClientTypeOK
  <1>5. file' \in [Fds -> File]
    BY <1>1, PutFacts, SocketFacts, NameFacts DEF ClientsInv, DataTypes
  <1> QED
    BY <1>2, <1>3, <1>4, <1>5, LockFails, MovesOn DEF Moves, DataTypes

-----------------------------------------------------------------------------
(* tunopenA.                                                               *)

LEMMA TunFacts == AllCalls = 9
  BY DEF AllCalls, Configuration

LEMMA TunKeeps ==
  ASSUME ClientsInv,
         \/ tunopenA(prog) \/ tunopenA_set(prog)
         \/ _configure_interface(prog) \/ _configure_interface_fails(prog),
         UNCHANGED <<streamVars, tcpVars, timerVars, tlsVars, prog>>
  PROVE  ClientsInv'
  <1>1. /\ Runs(prog, "tun", "tunopenA") /\ UNCHANGED <<waitVars, caller>>
        /\ \/ UNCHANGED <<run, current, status, died>>
           \/ errorA(prog) /\ UNCHANGED died
           \/ returnA(prog, "tun") /\ UNCHANGED status
    BY DEF tunopenA, tunopenA_set, _configure_interface, _configure_interface_fails,
           succeeds, gives_up
  <1>2. /\ OnElement(prog) /\ Alive /\ "tun" \in Jobs /\ "tun" \in Fds /\ "conn" \in Fds
        /\ "tunopenA" \notin DOMAIN Hands /\ UNCHANGED immediate
        /\ Net[prog][current[prog]] = "tunopenA" /\ file \in [Fds -> File]
    BY <1>1, RunsFacts, NameFacts DEF Hands, tcpVars, ClientsInv, DataTypes
  <1>3. \/ UNCHANGED file
        \/ file' = [file EXCEPT !["tun"].open = TRUE]
        \/ file' = [file EXCEPT !["tun"] = Closed]
    BY DEF tunopenA, tunopenA_set, _configure_interface, _configure_interface_fails
  <1>4. file' \in [Fds -> File] /\ file'["conn"].in = file["conn"].in
    <2>1. CASE file' = [file EXCEPT !["tun"].open = TRUE]
      BY <1>2, <2>1, FlagFacts
    <2>2. CASE file' = [file EXCEPT !["tun"] = Closed]
      BY <1>2, <2>2, PutFacts, SocketFacts
    <2> QED
      BY <1>2, <1>3, <2>1, <2>2
  <1>5. TuntapTypeOK'
    <2>1. calls \in 0..9 /\ tunfds \subseteq {"device", "control"} /\ AllCalls = 9
      BY TunFacts DEF ClientsInv, DataTypes, TuntapTypeOK
    <2>2. calls' \in 0..9
      BY <2>1 DEF tunopenA, tunopenA_set, _configure_interface, _configure_interface_fails,
                  succeeds, gives_up
    <2>3. tunfds' \subseteq {"device", "control"}
      BY <2>1 DEF tunopenA, tunopenA_set, _configure_interface, _configure_interface_fails
    <2> QED
      BY <2>1, <2>2, <2>3 DEF TuntapTypeOK
  <1>6. DataTypes'
    BY <1>4, <1>5, KeptFacts DEF DataTypes
  <1>7. Moves
    <2>1. CASE UNCHANGED <<run, current, status, died>>
      BY <1>1, <1>2, <2>1 DEF Moves, Outside, control
    <2>2. CASE errorA(prog) /\ UNCHANGED died
      BY <1>1, <1>2, <2>2 DEF Moves, Fails, waitVars
    <2>3. CASE returnA(prog, "tun") /\ UNCHANGED status
      BY <1>1, <1>2, <2>3, ReturnsOn DEF Moves
    <2> QED
      BY <1>1, <2>1, <2>2, <2>3
  <1> QED
    BY <1>2, <1>4, <1>6, <1>7, QuietMoves

-----------------------------------------------------------------------------
(* The timer.                                                              *)

LEMMA TimerKeeps ==
  ASSUME ClientsInv,
         \/ timeropenA(prog) \/ timeropenA_set(prog)
         \/ timersleepA_first(prog) \/ timersleepA(prog),
         UNCHANGED <<streamVars, tcpVars, tlsVars, tunVars, prog>>
  PROVE  ClientsInv'
  <1>1. PICK kind \in {"timeropenA", "timersleepA"} : Runs(prog, "timer", kind)
    BY DEF timeropenA, timeropenA_set, timersleepA_first, timersleepA
  <1>2. /\ OnElement(prog) /\ Alive /\ run = "timer" /\ kind \notin DOMAIN Hands
        /\ Net[prog][current[prog]] = kind /\ UNCHANGED immediate
        /\ "timer" \in Jobs /\ "timer" \in Fds /\ "conn" \in Fds
        /\ file \in [Fds -> File]
    BY <1>1, RunsFacts, NameFacts DEF Hands, tcpVars, ClientsInv, DataTypes
  <1>3. caller' = caller /\ TimerTypeOK'
    BY DEF timeropenA, timeropenA_set, timersleepA_first, timersleepA, timerVars,
           TimerTypeOK, ClientsInv, DataTypes
  <1>4. ASSUME Moves, file' \in [Fds -> File], file'["conn"].in = file["conn"].in
        PROVE  ClientsInv'
    <2>1. DataTypes'
      BY <1>3, <1>4, KeptFacts DEF DataTypes
    <2> QED
      BY <1>2, <1>4, <2>1, QuietMoves
  <1>5. ASSUME returnA(prog, "timer"), UNCHANGED <<waitVars, status>>
        PROVE  Moves
    BY <1>1, <1>2, <1>3, <1>5, ReturnsOn DEF Moves
  <1>6. ASSUME errorA(prog), UNCHANGED <<waitVars, died>>
        PROVE  Moves
    BY <1>2, <1>3, <1>6 DEF Moves, Fails, waitVars
  <1>7. ASSUME waits(prog, "timer", "timer", "EPOLLIN"), UNCHANGED died
        PROVE  Moves
    BY <1>2, <1>3, <1>7 DEF Moves, WaitsOrFails, Op
  <1>8. CASE timeropenA(prog)
    <2>1. CASE /\ file' = [file EXCEPT !["timer"].open = TRUE]
               /\ UNCHANGED <<run, current, status, waitVars, died>>
      <3>1. file' \in [Fds -> File] /\ file'["conn"].in = file["conn"].in
        BY <1>2, <2>1, FlagFacts
      <3>2. Moves
        BY <1>2, <1>3, <2>1 DEF Moves, Outside, control
      <3> QED
        BY <1>4, <3>1, <3>2
    <2>2. CASE errorA(prog) /\ UNCHANGED <<file, waitVars, died>>
      BY <1>2, <1>4, <1>6, <2>2
    <2> QED
      BY <1>8, <2>1, <2>2 DEF timeropenA
  <1>9. CASE timeropenA_set(prog)
    <2>1. CASE returnA(prog, "timer") /\ UNCHANGED <<status, file, waitVars>>
      BY <1>2, <1>4, <1>5, <2>1
    <2>2. CASE /\ errorA(prog) /\ file' = [file EXCEPT !["timer"] = Closed]
               /\ UNCHANGED <<died, waitVars>>
      <3>1. file' \in [Fds -> File] /\ file'["conn"] = file["conn"]
        BY <1>2, <2>2, PutFacts, SocketFacts
      <3> QED
        BY <1>4, <1>6, <2>2, <3>1
    <2> QED
      BY <1>9, <2>1, <2>2 DEF timeropenA_set
  <1>10. CASE timersleepA_first(prog)
    BY <1>2, <1>4, <1>7, <1>10 DEF timersleepA_first
  <1>11. CASE timersleepA(prog)
    <2>1. CASE /\ file' = [file EXCEPT !["timer"].in = 0]
               /\ returnA(prog, "timer")
               /\ UNCHANGED <<waitVars, status>>
      <3>1. file' \in [Fds -> File] /\ file'["conn"] = file["conn"]
        BY <1>2, <2>1, InFacts
      <3> QED
        BY <1>4, <1>5, <2>1, <3>1
    <2>2. CASE waits(prog, "timer", "timer", "EPOLLIN") /\ UNCHANGED <<died, file>>
      BY <1>2, <1>4, <1>7, <2>2
    <2>3. CASE errorA(prog) /\ UNCHANGED <<waitVars, died, file>>
      BY <1>2, <1>4, <1>6, <2>3
    <2> QED
      BY <1>11, <2>1, <2>2, <2>3 DEF timersleepA
  <1> QED
    BY <1>8, <1>9, <1>10, <1>11

-----------------------------------------------------------------------------
(* TLS.                                                                    *)

\* OpenSSL takes a chunk.
LEMMA TakeChunk ==
  ASSUME file \in [Fds -> File], HasData("conn"), Take
  PROVE  file' \in [Fds -> File]
  <1>1. PICK room \in {file["conn"].room, FALSE} :
          file' = [file EXCEPT !["conn"].in = @ - 1, !["conn"].room = room]
    BY DEF Take
  <1>2. "conn" \in Fds /\ file["conn"] \in File
    BY NameFacts
  <1>3. room \in BOOLEAN /\ file["conn"].in \in Nat /\ file["conn"].in > 0
    BY <1>1, <1>2 DEF HasData, File
  <1>4. PICK n \in Nat : n = file["conn"].in - 1
    BY <1>3
  <1>5. PICK f : f = [file["conn"] EXCEPT !.in = n, !.room = room]
    OBVIOUS
  <1>6. f \in File
    BY <1>2, <1>3, <1>5 DEF File
  <1>7. file' = [file EXCEPT !["conn"] = f]
    BY <1>1, <1>2, <1>4, <1>5
  <1> QED
    BY <1>2, <1>6, <1>7, PutFacts

\* What OpenSSL does: the handshake only ends with a peer that is verified.
LEMMA SslFacts ==
  ASSUME ClientsInv, UNCHANGED <<roots, trusted>>,
         \/ SSL_done \/ SSL_breaks
         \/ \E want \in {"EPOLLIN", "EPOLLOUT"} : SSL_wants(want)
         \/ ssl = "up" /\ UNCHANGED <<ssl, file>>
         \/ ssl = "up" /\ HasData("conn") /\ Take /\ UNCHANGED ssl
  PROVE  /\ file' \in [Fds -> File]
         /\ ssl' \in {"none", "handshake", "up", "broken"}
         /\ ssl' = "up" => trusted /\ roots
         /\ SSL_done => ssl' = "up"
  <1>1. file \in [Fds -> File] /\ TlsTypeOK /\ TlsInv
    BY DEF ClientsInv, DataTypes
  <1>2. file' \in [Fds -> File]
    BY <1>1, TakeChunk DEF SSL_done, SSL_breaks, SSL_wants
  <1>3. /\ ssl' \in {"none", "handshake", "up", "broken"}
        /\ ssl' = "up" => trusted /\ roots
        /\ SSL_done => ssl' = "up"
    BY <1>1 DEF SSL_done, SSL_breaks, SSL_wants, openssl_verify_callback, TlsTypeOK, TlsInv
  <1> QED
    BY <1>2, <1>3

\* echoclient does not use it.
LEMMA NoTls ==
  ASSUME ClientsInv, NEW kind \in {"tlsA", "tlswriteA", "tlsreadA"},
         Runs(prog, "conn", kind)
  PROVE  /\ prog # "echoclient" /\ OnElement(prog) /\ run = "conn"
         /\ "conn" \in Jobs /\ "conn" \in Fds
  <1>1. OnElement(prog) /\ current[prog] # 0 /\ Net[prog][current[prog]] = kind
        /\ run = "conn" /\ "conn" \in Jobs /\ "conn" \in Fds
    BY RunsFacts, NameFacts
  <1>2. prog = "echoclient" => current[prog] \in 1..22
    BY <1>1, PlaceFacts, EchoPlaces DEF ClientsInv, ControlInv
  <1>3. prog # "echoclient"
    BY <1>1, <1>2, EchoPlaces
  <1> QED
    BY <1>1, <1>3

\* A step of tlsclient that moves the program and calls OpenSSL.
LEMMA TlsMoves ==
  ASSUME ClientsInv, Moves, prog # "echoclient", prog' = prog,
         file' \in [Fds -> File], StreamsTypeOK',
         UNCHANGED <<tcpVars, timerVars, tunVars, roots, trusted>>,
         tlsstatus' \in {"none", "_CONNECTING", "_CONNECTED"},
         ssl' \in {"none", "handshake", "up", "broken"},
         ssl' = "up" => trusted /\ roots,
         requested' \in {requested, TRUE},
         requested' => requested \/ (trusted /\ roots)
  PROVE  ClientsInv'
  <1>1. TcpClientTypeOK' /\ TimerTypeOK' /\ TuntapTypeOK'
    BY KeptFacts
  <1>2. TlsTypeOK /\ TlsInv
    BY DEF ClientsInv, DataTypes
  <1>3. TlsTypeOK' /\ TlsInv'
    BY <1>2 DEF TlsTypeOK, TlsInv
  <1>4. LockInv'
    BY DEF LockInv
  <1> QED
    BY <1>1, <1>3, <1>4, MovesOn DEF DataTypes

LEMMA TlsKeeps ==
  ASSUME ClientsInv, tlsA(prog), UNCHANGED <<tcpVars, timerVars, tunVars, prog>>
  PROVE  ClientsInv'
  <1>1. /\ Runs(prog, "conn", "tlsA")
        /\ UNCHANGED <<caller, streamVars, roots, trusted, requested>>
    BY DEF tlsA
  <1>2. /\ prog # "echoclient" /\ OnElement(prog) /\ run = "conn"
        /\ "conn" \in Jobs /\ "conn" \in Fds /\ "tlsA" \notin DOMAIN Hands
        /\ StreamsTypeOK' /\ UNCHANGED immediate
    BY <1>1, NoTls, KeptFacts DEF Hands
  <1>3. CASE SSL_done /\ tlsstatus' = "_CONNECTED" /\ returnA(prog, "conn")
             /\ UNCHANGED <<waitVars, status>>
    <2>1. Returns(prog)
      BY <1>1, <1>2, <1>3, ReturnsOn
    <2> QED
      BY <1>1, <1>2, <1>3, <2>1, SslFacts, TlsMoves DEF Moves
  <1>4. CASE /\ \E want \in {"EPOLLIN", "EPOLLOUT"} :
                  SSL_wants(want) /\ waits(prog, "conn", "conn", want)
             /\ tlsstatus' = "_CONNECTING" /\ UNCHANGED died
    <2>1. WaitsOrFails(prog)
      BY <1>1, <1>2, <1>4 DEF WaitsOrFails, Op
    <2>2. \E want \in {"EPOLLIN", "EPOLLOUT"} : SSL_wants(want)
      BY <1>4
    <2> QED
      BY <1>1, <1>2, <1>4, <2>1, <2>2, SslFacts, TlsMoves DEF Moves
  <1>5. CASE SSL_breaks /\ tlsstatus' = "_CONNECTING" /\ errorA(prog)
             /\ UNCHANGED <<waitVars, died>>
    <2>1. Fails(prog)
      BY <1>1, <1>2, <1>5 DEF Fails, waitVars
    <2> QED
      BY <1>1, <1>2, <1>5, <2>1, SslFacts, TlsMoves DEF Moves
  <1> QED
    BY <1>3, <1>4, <1>5 DEF tlsA

LEMMA TlswriteKeeps ==
  ASSUME ClientsInv, tlswriteA(prog), UNCHANGED <<tcpVars, timerVars, tunVars, prog>>
  PROVE  ClientsInv'
  <1>1. Runs(prog, "conn", "tlswriteA")
    BY DEF tlswriteA
  <1>2. /\ prog # "echoclient" /\ OnElement(prog) /\ run = "conn"
        /\ "conn" \in Jobs /\ "conn" \in Fds /\ "tlswriteA" \notin DOMAIN Hands
        /\ UNCHANGED immediate
    BY <1>1, NoTls, KeptFacts DEF Hands
  <1>3. CASE fails(prog) /\ UNCHANGED tlsVars
    <2>1. Fails(prog) /\ UNCHANGED <<file, streamVars>>
      BY <1>2, <1>3 DEF fails, Fails, waitVars
    <2> QED
      BY <1>3, <2>1, StreamStays
  <1>4. CASE tlswriteA_data(prog)
    <2>1. /\ UNCHANGED <<caller, streamVars, tlsstatus, roots, trusted>>
          /\ StreamsTypeOK' /\ TlsTypeOK /\ TlsInv /\ file \in [Fds -> File]
      BY <1>4, KeptFacts DEF tlswriteA_data, ClientsInv, DataTypes
    <2>2. tlsstatus' \in {"none", "_CONNECTING", "_CONNECTED"}
      BY <2>1 DEF TlsTypeOK
    <2>3. CASE /\ \/ ssl = "up" /\ HasRoom("conn") /\ UNCHANGED <<ssl, file>>
                  \/ SSL_done
               /\ requested' = TRUE
               /\ returnA(prog, "conn")
               /\ UNCHANGED <<waitVars, status>>
      <3>1. Returns(prog)
        BY <1>1, <1>2, <2>1, <2>3, ReturnsOn
      <3>2. /\ file' \in [Fds -> File] /\ ssl' \in {"none", "handshake", "up", "broken"}
            /\ trusted /\ roots
        BY <2>1, <2>3, SslFacts
      <3> QED
        BY <1>2, <2>1, <2>2, <2>3, <3>1, <3>2, TlsMoves DEF Moves
    <2>4. CASE /\ \/ ssl = "up" /\ Full("conn") /\ UNCHANGED <<ssl, file>>
                  \/ \E want \in {"EPOLLIN", "EPOLLOUT"} : SSL_wants(want)
                  \/ SSL_breaks
               /\ waits(prog, "conn", "conn", "EPOLLOUT")
               /\ UNCHANGED <<died, requested>>
      <3>1. WaitsOrFails(prog)
        BY <1>2, <2>1, <2>4 DEF WaitsOrFails, Op
      <3> QED
        BY <1>2, <2>1, <2>2, <2>4, <3>1, SslFacts, TlsMoves DEF Moves
    <2>5. CASE /\ died' = "SIGPIPE"
               /\ UNCHANGED <<waitVars, run, current, status, file, ssl, requested>>
      <3>1. Dies(prog)
        BY <1>2, <2>1, <2>5 DEF Dies, control
      <3>2. ssl' \in {"none", "handshake", "up", "broken"} /\ (ssl' = "up" => trusted /\ roots)
        BY <2>1, <2>5 DEF TlsTypeOK, TlsInv
      <3> QED
        BY <1>2, <2>1, <2>2, <2>5, <3>1, <3>2, TlsMoves DEF Moves
    <2> QED
      BY <1>4, <2>3, <2>4, <2>5 DEF tlswriteA_data
  <1> QED
    BY <1>3, <1>4 DEF tlswriteA

LEMMA TlsreadKeeps ==
  ASSUME ClientsInv, tlsreadA_data(prog) \/ tlsreadA_waits(prog),
         UNCHANGED <<tcpVars, timerVars, tunVars, prog>>
  PROVE  ClientsInv'
  <1>1. /\ Runs(prog, "conn", "tlsreadA")
        /\ UNCHANGED <<caller, tlsstatus, roots, trusted, requested>>
    BY DEF tlsreadA_data, tlsreadA_waits
  <1>2. /\ prog # "echoclient" /\ OnElement(prog) /\ run = "conn"
        /\ "conn" \in Jobs /\ "conn" \in Fds /\ "tlsreadA" \notin DOMAIN Hands
        /\ UNCHANGED immediate
        /\ tlsstatus' \in {"none", "_CONNECTING", "_CONNECTED"}
    BY <1>1, NoTls, KeptFacts DEF Hands, ClientsInv, DataTypes, TlsTypeOK
  <1>3. CASE tlsreadA_data(prog)
    <2>1. /\ HasData("conn") /\ ssl = "up" /\ UNCHANGED ssl /\ Take /\ data' = "input"
          /\ returnA(prog, "conn")
          /\ UNCHANGED <<waitVars, status, nonblock, owed, split>>
      BY <1>3 DEF tlsreadA_data
    <2>2. Returns(prog)
      BY <1>1, <1>2, <2>1, ReturnsOn
    <2>3. StreamsTypeOK'
      BY <2>1 DEF ClientsInv, DataTypes, StreamsTypeOK
    <2> QED
      BY <1>1, <1>2, <2>1, <2>2, <2>3, SslFacts, TlsMoves DEF Moves
  <1>4. CASE tlsreadA_waits(prog)
    <2>1. /\ \/ ssl = "up" /\ UNCHANGED <<ssl, file>>
             \/ ssl = "up" /\ HasData("conn") /\ Take /\ UNCHANGED ssl
             \/ SSL_breaks
          /\ waits(prog, "conn", "conn", "EPOLLIN")
          /\ UNCHANGED <<died, streamVars>>
      BY <1>4 DEF tlsreadA_waits
    <2>2. WaitsOrFails(prog) /\ StreamsTypeOK'
      BY <1>1, <1>2, <2>1, KeptFacts DEF WaitsOrFails, Op
    <2> QED
      BY <1>1, <1>2, <2>1, <2>2, SslFacts, TlsMoves DEF Moves
  <1> QED
    BY <1>3, <1>4

LEMMA PrepareKeeps ==
  ASSUME ClientsInv, openssl_prepare_fails(prog),
         UNCHANGED <<tcpVars, timerVars, tunVars, prog>>
  PROVE  ClientsInv'
  <1>1. Runs(prog, "conn", "tlsA") /\ fails(prog) /\ UNCHANGED tlsVars
    BY DEF openssl_prepare_fails
  <1>2. OnElement(prog) /\ UNCHANGED immediate
    BY <1>1, RunsFacts, NameFacts, KeptFacts
  <1>3. Fails(prog) /\ UNCHANGED <<file, streamVars>>
    BY <1>1, <1>2 DEF fails, Fails, waitVars
  <1> QED
    BY <1>1, <1>3, StreamStays

-----------------------------------------------------------------------------
(* main, the loop, and what happens outside of the process.                *)

LEMMA MainStep ==
  ASSUME ClientsInv, main(prog), UNCHANGED <<tcpVars, timerVars, tunVars, prog>>
  PROVE  ClientsInv'
  <1>1. /\ init /\ runA(prog, FirstJob[prog]) /\ UNCHANGED <<file, streamVars>>
        /\ roots' \in BOOLEAN \/ UNCHANGED roots
        /\ UNCHANGED <<tlsstatus, ssl, trusted, requested>>
        /\ epfd = "none" /\ epfd' = "open"
    BY DEF main, init, openssl_init, tlsVars
  <1>2. /\ current[prog] = 0 /\ ssl = "none" /\ ~requested
        /\ ~owed /\ file["conn"].in = 0
    BY <1>1 DEF ClientsInv, StartInv
  <1>3. /\ UNCHANGED <<data, owed, split, immediate>> /\ StreamsTypeOK'
        /\ TcpClientTypeOK' /\ TimerTypeOK' /\ TuntapTypeOK'
    BY <1>1, KeptFacts
  <1>4. ControlInv'
    BY <1>3, MainKeeps DEF ClientsInv
  <1>5. TlsTypeOK' /\ TlsInv'
    BY <1>1, <1>2 DEF ClientsInv, DataTypes, TlsTypeOK, TlsInv
  <1>6. current'[prog] = 1
    <2>1. current \in [Circuits -> Nat] /\ prog \in Circuits
      BY NameFacts DEF ClientsInv, ControlInv, ControlTypes
    <2> QED
      BY <1>1, <1>2, <2>1 DEF runA
  <1>7. LockInv'
    BY <1>1, <1>2, <1>3, <1>6 DEF LockInv
  <1>8. DataTypes' /\ StartInv'
    BY <1>1, <1>3, <1>5 DEF ClientsInv, DataTypes, StartInv
  <1> QED
    BY <1>3, <1>4, <1>5, <1>7, <1>8 DEF ClientsInv

LEMMA MainExits ==
  ASSUME ClientsInv, main_exits, UNCHANGED <<tcpVars, timerVars, tunVars, prog>>
  PROVE  ClientsInv'
  <1>1. exit /\ epfd' = "exited" /\ UNCHANGED <<ioVars, streamVars, tlsVars>>
    BY DEF main_exits, exit
  <1>2. UNCHANGED <<run, caller, current, status, died, file>>
    BY <1>1 DEF ioVars, control
  <1>3. /\ UNCHANGED <<data, owed, split, immediate, ssl>> /\ StreamsTypeOK'
        /\ TcpClientTypeOK' /\ TimerTypeOK' /\ TlsTypeOK' /\ TlsInv' /\ TuntapTypeOK'
    BY <1>1, KeptFacts
  <1>4. ControlInv'
    BY <1>1, <1>2, <1>3, EndKeeps DEF ClientsInv
  <1>5. LockInv'
    BY <1>2, <1>3, LockStays DEF ClientsInv
  <1>6. DataTypes' /\ StartInv'
    BY <1>1, <1>2, <1>3 DEF ClientsInv, DataTypes, StartInv
  <1> QED
    BY <1>3, <1>4, <1>5, <1>6 DEF ClientsInv

LEMMA LoopStep ==
  ASSUME ClientsInv, loop(prog),
         UNCHANGED <<streamVars, tcpVars, timerVars, tlsVars, tunVars, prog>>
  PROVE  ClientsInv'
  <1>1. /\ UNCHANGED <<data, owed, split, immediate, ssl>> /\ StreamsTypeOK'
        /\ TcpClientTypeOK' /\ TimerTypeOK' /\ TlsTypeOK' /\ TlsInv' /\ TuntapTypeOK'
    BY KeptFacts
  <1>2. ControlInv /\ ControlTypes /\ LockInv /\ file \in [Fds -> File]
    BY DEF ClientsInv, ControlInv, DataTypes
  <1>3. ASSUME ControlInv', epfd' # "none", file' \in [Fds -> File], LockInv'
        PROVE  ClientsInv'
    <2>1. DataTypes' /\ StartInv'
      BY <1>1, <1>3 DEF DataTypes, StartInv
    <2> QED
      BY <1>1, <1>3, <2>1 DEF ClientsInv
  <1>4. CASE loop_wait
    <2>1. UNCHANGED <<current, file>> /\ epfd' # "none"
      BY <1>4 DEF loop_wait, ioVars, control, poll
    <2>2. ControlInv' /\ LockInv'
      BY <1>1, <1>2, <1>4, <2>1, PollKeeps, LockStays
    <2> QED
      BY <1>2, <1>3, <2>1, <2>2
  <1>5. ASSUME NEW ev \in batch, loop_run(prog, ev)
        PROVE  ClientsInv'
    <2>1. /\ file' = file /\ epfd' # "none" /\ take(ev)
          /\ runA(prog, ev.job)
      BY <1>5 DEF loop_run, take
    <2>2. ControlInv'
      BY <1>1, <1>2, <1>5, LoopRunKeeps
    <2>3. LockInv'
      <3>1. CASE immediate
        BY <1>1, <3>1 DEF LockInv
      <3>2. CASE ~immediate
        <4>1. current[prog] # 0
          BY <1>2, <2>1, <3>2, TakeFacts DEF WaitsWith
        <4>2. current'[prog] = current[prog]
          BY <1>2, <2>1, <4>1, NameFacts DEF runA, ControlTypes
        <4> QED
          BY <1>1, <1>2, <2>1, <4>2, LockStays
      <3> QED
        BY <3>1, <3>2
    <2> QED
      BY <1>2, <1>3, <2>1, <2>2, <2>3
  <1>6. ASSUME NEW ev \in batch, loop_close(prog, ev)
        PROVE  ClientsInv'
    <2>1. /\ file' = [file EXCEPT ![ev.fd] = Closed] /\ epfd' # "none"
          /\ errorA(prog)
      BY <1>6 DEF loop_close, take
    <2>2. ControlInv'
      BY <1>1, <1>2, <1>6, LoopCloseKeeps
    <2>3. ev.fd \in Fds
      BY <1>2 DEF ControlInv, WaitsInv, WaitsTypeOK
    <2>4. file' \in [Fds -> File]
      BY <1>2, <2>1, <2>3, PutFacts, SocketFacts
    <2>5. current'[prog] = 0
      BY <1>2, <2>1, ErrorFacts
    <2>6. LockInv'
      BY <1>1, <1>2, <2>5, LockStays
    <2> QED
      BY <1>3, <2>1, <2>2, <2>4, <2>6
  <1>7. CASE loop_end
    <2>1. /\ UNCHANGED <<run, caller, current, status, died, file>> /\ epfd' # "none"
          /\ deinit
      BY <1>7 DEF loop_end, ioVars, control, deinit
    <2>2. ControlInv' /\ LockInv'
      BY <1>1, <1>2, <2>1, EndKeeps, LockStays
    <2> QED
      BY <1>2, <1>3, <2>1, <2>2
  <1> QED
    BY <1>4, <1>5, <1>6, <1>7 DEF loop

\* The kernel acts on a descriptor.
LEMMA OutsideStep ==
  ASSUME ClientsInv, Outside, file' \in [Fds -> File], StreamsTypeOK', LockInv',
         UNCHANGED <<tcpVars, timerVars, tlsVars, tunVars>>
  PROVE  ClientsInv'
  <1>1. TcpClientTypeOK' /\ TimerTypeOK' /\ TlsTypeOK' /\ TlsInv' /\ TuntapTypeOK'
    BY KeptFacts
  <1> QED
    BY <1>1, MovesOn DEF Moves, DataTypes

LEMMA PeerStep ==
  ASSUME ClientsInv, peer
  PROVE  ClientsInv'
  <1>1. /\ Outside /\ UNCHANGED <<tcpVars, timerVars, tlsVars, tunVars, prog, data, nonblock>>
        /\ "conn" \in Fds /\ file \in [Fds -> File] /\ StreamsTypeOK /\ LockInv
    BY NameFacts DEF peer, Outside, tcpVars, ClientsInv, DataTypes
  <1>2. UNCHANGED <<ssl, immediate, current>>
    BY <1>1 DEF tlsVars, tcpVars, Outside, control
  <1>3. CASE /\ \/ file' = [file EXCEPT !["conn"].room = TRUE]
                \/ file' = [file EXCEPT !["conn"].hup = TRUE]
                \/ file' = [file EXCEPT !["conn"].err = TRUE]
             /\ UNCHANGED <<owed, split>>
    <2>1. file' \in [Fds -> File] /\ file'["conn"].in = file["conn"].in
      BY <1>1, <1>3, FlagFacts
    <2>2. StreamsTypeOK'
      BY <1>1, <1>3 DEF StreamsTypeOK
    <2>3. LockInv'
      BY <1>1, <1>2, <1>3, <2>1, LockStays
    <2> QED
      BY <1>1, <2>1, <2>2, <2>3, OutsideStep
  <1>4. CASE /\ file' = [file EXCEPT !["conn"].in = @ + 1]
             /\ \/ ssl # "none" /\ UNCHANGED <<owed, split>>
                \/ owed /\ owed' = FALSE /\ UNCHANGED split
                \/ owed /\ owed' = TRUE /\ split' = TRUE
    <2>1. PICK n : n = file["conn"].in + 1
      OBVIOUS
    <2>2. n \in Nat /\ file["conn"].in \in Nat
      BY <1>1, <2>1 DEF File
    <2>3. file' \in [Fds -> File] /\ file'["conn"].in = n
      <3>1. file' = [file EXCEPT !["conn"].in = n]
        BY <1>4, <2>1
      <3> QED
        BY <1>1, <2>2, <3>1, InFacts
    <2>4. StreamsTypeOK'
      BY <1>1, <1>4 DEF StreamsTypeOK
    <2>5. LockInv'
      <3> SUFFICES ASSUME prog = "echoclient", ~split', ~immediate PROVE LockInv'
        BY <1>1, <1>2 DEF LockInv
      <3>1. split' = split \/ split'
        BY <1>4
      <3>2. ssl = "none" /\ owed /\ owed' = FALSE /\ ~split
        BY <1>1, <1>4, <3>1 DEF LockInv
      <3>3. current[prog] \notin (1..22) \ {16}
        BY <1>1, <3>2 DEF LockInv
      <3>4. CASE current[prog] = 16
        <4>1. (owed <=> file["conn"].in # 1) /\ file["conn"].in <= 1
          BY <1>1, <3>2, <3>4 DEF LockInv
        <4>2. file["conn"].in = 0
          BY <2>2, <3>2, <4>1
        <4>3. file'["conn"].in = 1
          BY <2>1, <2>3, <4>2
        <4> QED
          BY <1>1, <1>2, <3>2, <3>4, <4>3 DEF LockInv
      <3>5. CASE current[prog] # 16
        <4>1. current[prog] \notin 1..22
          BY <3>3, <3>5
        <4>2. current[prog] \notin 13..15
          BY <4>1
        <4> QED
          BY <1>1, <1>2, <3>2, <3>5, <4>1, <4>2 DEF LockInv
      <3> QED
        BY <3>4, <3>5
    <2> QED
      BY <1>1, <2>3, <2>4, <2>5, OutsideStep
  <1> QED
    BY <1>3, <1>4 DEF peer

\* The user and the timer.
LEMMA ElsewhereStep ==
  ASSUME ClientsInv, user \/ Tick
  PROVE  ClientsInv'
  <1>1. /\ Outside /\ UNCHANGED <<tcpVars, timerVars, tlsVars, tunVars, prog, streamVars>>
        /\ "conn" \in Fds /\ "stdin" \in Fds /\ "stdout" \in Fds /\ "timer" \in Fds
        /\ file \in [Fds -> File] /\ LockInv
    BY NameFacts DEF user, Tick, tick, Outside, tcpVars, ClientsInv, DataTypes
  <1>2. UNCHANGED <<ssl, immediate, current, data, owed, split>> /\ StreamsTypeOK'
    BY <1>1, KeptFacts DEF Outside, control
  <1>3. \/ file' = [file EXCEPT !["stdin"].in = 1]
        \/ file' = [file EXCEPT !["timer"].in = 1]
        \/ file' = [file EXCEPT !["stdin"].hup = TRUE]
        \/ file' = [file EXCEPT !["stdin"].room = TRUE]
        \/ file' = [file EXCEPT !["stdout"].room = TRUE]
        \/ file' = [file EXCEPT !["stdout"].err = TRUE]
    BY DEF user, Tick, tick
  <1>4. file' \in [Fds -> File] /\ file'["conn"].in = file["conn"].in
    <2>1. CASE file' = [file EXCEPT !["stdin"].in = 1]
      BY <1>1, <2>1, InFacts
    <2>2. CASE file' = [file EXCEPT !["timer"].in = 1]
      BY <1>1, <2>2, InFacts
    <2>3. CASE \/ file' = [file EXCEPT !["stdin"].hup = TRUE]
               \/ file' = [file EXCEPT !["stdin"].room = TRUE]
               \/ file' = [file EXCEPT !["stdout"].room = TRUE]
               \/ file' = [file EXCEPT !["stdout"].err = TRUE]
      BY <1>1, <2>3, FlagFacts
    <2> QED
      BY <1>3, <2>1, <2>2, <2>3
  <1>5. LockInv'
    BY <1>1, <1>2, <1>4, LockStays
  <1> QED
    BY <1>1, <1>2, <1>4, <1>5, OutsideStep

-----------------------------------------------------------------------------
(* The theorems.                                                           *)

LEMMA InitClientsInv == ClientsInit => ClientsInv
  <1> SUFFICES ASSUME ClientsInit PROVE ClientsInv
    OBVIOUS
  <1>1. /\ WaitsInit /\ run = NULL /\ caller = NULL /\ status = "working" /\ died = "no"
        /\ current = [c \in Circuits |-> 0] /\ prog \in ClientCircuits
        /\ data = "empty" /\ nonblock \in BOOLEAN /\ owed = FALSE /\ split = FALSE
        /\ tcpstatus = "none" /\ tries = 0 /\ sockets = {} /\ immediate = FALSE
        /\ interval \in Intervals /\ timerstatus = "none"
        /\ tlsstatus = "none" /\ ssl = "none" /\ roots = FALSE /\ trusted \in BOOLEAN
        /\ requested = FALSE /\ calls = 0 /\ tunfds = {}
    BY DEF ClientsInit, IoInit, StreamsInit, TcpClientInit, TimerInit, TlsInit,
           TuntapInit
  <1>2. WaitsInv /\ batch = {} /\ \A fd \in Fds : armed[fd] = NULL
    BY <1>1, InitWaitsInv DEF WaitsInit
  <1>3. file \in [Fds -> File] /\ file["conn"].in = 0
    <2>1. PICK f : f = [Closed EXCEPT !.open = TRUE, !.room = TRUE]
      OBVIOUS
    <2>2. f \in File /\ Closed \in File /\ Closed.in = 0
      BY <2>1 DEF Closed, File
    <2>3. file = [fd \in Fds |-> IF fd \in {"stdin", "stdout"} THEN f ELSE Closed]
      BY <2>1 DEF ClientsInit
    <2> QED
      BY <2>2, <2>3, NameFacts
  <1>4. prog \in Circuits /\ current[prog] = 0
    BY <1>1, NameFacts
  <1>5. ControlTypes
    <2>1. \A c \in Circuits : Len(Net[c]) \in Nat
      BY ProgramsFit DEF WellTyped
    <2>2. current \in [Circuits -> Nat] /\ \A c \in Circuits : current[c] = 0
      BY <1>1
    <2>3. \A c \in Circuits : current[c] <= Len(Net[c])
      BY <2>1, <2>2
    <2>4. /\ run \in Jobs \cup {NULL} /\ caller \in {NULL, "connectA"}
          /\ status \in {"working", "EXIT_FAILURE"} /\ immediate \in BOOLEAN
          /\ died \in {"no", "SIGSEGV", "SIGPIPE", "undefined"} /\ prog \in ClientCircuits
      BY <1>1
    <2> QED
      BY <2>2, <2>3, <2>4 DEF ControlTypes
  <1>6. ControlInv
    BY <1>1, <1>2, <1>5, NameFacts DEF ControlInv, RunInv, OneWait, SoundCalls
  <1>7. StartInv /\ TlsInv /\ LockInv
    BY <1>1, <1>2, <1>3, <1>4 DEF StartInv, TlsInv, LockInv
  <1>8. TuntapTypeOK
    BY <1>1, TunFacts DEF TuntapTypeOK
  <1>9. DataTypes
    <2>1. tries \in 0..MaxAddrs /\ sockets \subseteq 1..MaxAddrs
      BY <1>1, TcpClientAssumption
    <2>2. TcpClientTypeOK
      BY <1>1, <2>1 DEF TcpClientTypeOK
    <2>3. StreamsTypeOK /\ TimerTypeOK /\ TlsTypeOK
      BY <1>1 DEF StreamsTypeOK, TimerTypeOK, TlsTypeOK
    <2> QED
      BY <1>3, <1>8, <2>2, <2>3 DEF DataTypes
  <1> QED
    BY <1>6, <1>7, <1>9 DEF ClientsInv

\* A step of the program.
LEMMA ProgramKeeps == ClientsInv /\ ProgramStep => ClientsInv'
  <1> SUFFICES ASSUME ClientsInv, ProgramStep PROVE ClientsInv'
    OBVIOUS
  <1>1. UNCHANGED prog /\ "conn" \in Jobs /\ "pipe" \in Jobs
        /\ "conn" \in Fds /\ "stdin" \in Fds /\ "stdout" \in Fds
    BY NameFacts DEF ProgramStep
  <1>2. CASE /\ \/ connectA(prog) \/ connectA_socket(prog) \/ connectA_refused(prog)
                \/ connectA_waits(prog) \/ connectA_now(prog) \/ connectA_returns(prog)
                \/ _connect_continue(prog) \/ _connect_continue_fails(prog)
             /\ UNCHANGED <<streamVars, timerVars, tlsVars, tunVars>>
    BY <1>1, <1>2, ConnectKeeps, ConnectWaitsKeeps, ConnectNowKeeps,
       ConnectReturnsKeeps, ContinueKeeps, ContinueFailsKeeps
  <1>8. CASE /\ \/ tunopenA(prog) \/ tunopenA_set(prog)
                \/ _configure_interface(prog) \/ _configure_interface_fails(prog)
             /\ UNCHANGED <<streamVars, tcpVars, timerVars, tlsVars>>
    BY <1>1, <1>8, TunKeeps
  <1>3. CASE /\ \/ timeropenA(prog) \/ timeropenA_set(prog)
                \/ timersleepA_first(prog) \/ timersleepA(prog)
             /\ UNCHANGED <<streamVars, tcpVars, tlsVars, tunVars>>
    BY <1>1, <1>3, TimerKeeps
  <1>4. ASSUME UNCHANGED <<tcpVars, timerVars, tlsVars, tunVars>>
        PROVE  /\ readA(prog) \/ pipereadA(prog) => ClientsInv'
               /\ writeA(prog) \/ pipewriteA(prog) => ClientsInv'
               /\ randopenA(prog) \/ randreadA(prog) \/ randencA(prog) => ClientsInv'
               /\ hand(prog) \/ confused(prog) => ClientsInv'
               /\ promptA(prog) \/ countA(prog) => ClientsInv'
    <2>1. readA(prog) \/ pipereadA(prog) => ClientsInv'
      BY <1>1, <1>4, ReadKeeps DEF readA, pipereadA
    <2>2. writeA(prog) \/ pipewriteA(prog) => ClientsInv'
      BY <1>1, <1>4, WriteKeeps DEF writeA, pipewriteA
    <2>3. randopenA(prog) \/ randreadA(prog) \/ randencA(prog) => ClientsInv'
      BY <1>1, <1>4, RandKeeps
    <2>4. hand(prog) \/ confused(prog) => ClientsInv'
      BY <1>1, <1>4, HandKeeps, ConfusedKeeps
    <2>5. promptA(prog) \/ countA(prog) => ClientsInv'
      BY <1>1, <1>4, SaysKeeps DEF promptA, countA
    <2> QED
      BY <2>1, <2>2, <2>3, <2>4, <2>5
  <1>5. ASSUME UNCHANGED <<tcpVars, timerVars, tlsVars, tunVars>>,
               \/ newlineA(prog) \/ greetingA(prog) \/ httpreqA(prog)
               \/ printA(prog) \/ echoA(prog)
        PROVE  ClientsInv'
    <2>1. CASE newlineA(prog)
      BY <1>1, <1>5, <2>1, WorksKeeps DEF newlineA
    <2>2. CASE greetingA(prog)
      BY <1>1, <1>5, <2>2, WorksKeeps DEF greetingA
    <2>3. CASE httpreqA(prog)
      BY <1>1, <1>5, <2>3, WorksKeeps DEF httpreqA
    <2>4. CASE printA(prog)
      BY <1>1, <1>5, <2>4, WorksKeeps DEF printA
    <2>5. CASE echoA(prog)
      BY <1>1, <1>5, <2>5, WorksKeeps DEF echoA
    <2> QED
      BY <1>5, <2>1, <2>2, <2>3, <2>4, <2>5
  <1>6. CASE /\ \/ openssl_prepare_fails(prog) \/ tlsA(prog) \/ tlswriteA(prog)
                \/ tlsreadA_data(prog) \/ tlsreadA_waits(prog)
                \/ main(prog) \/ main_exits
             /\ UNCHANGED <<tcpVars, timerVars, tunVars>>
    BY <1>1, <1>6, PrepareKeeps, TlsKeeps, TlswriteKeeps, TlsreadKeeps, MainStep, MainExits
  <1>7. CASE loop(prog) /\ UNCHANGED <<streamVars, tcpVars, timerVars, tlsVars, tunVars>>
    BY <1>1, <1>7, LoopStep
  <1> QED
    BY <1>2, <1>3, <1>4, <1>5, <1>6, <1>7, <1>8 DEF ProgramStep

\* Nothing changes.
LEMMA StutterKeeps == ClientsInv /\ UNCHANGED clientVars => ClientsInv'
  <1> SUFFICES ASSUME ClientsInv, UNCHANGED clientVars PROVE ClientsInv'
    OBVIOUS
  <1>1. /\ UNCHANGED <<waitVars, streamVars, tcpVars, timerVars, tlsVars, tunVars, prog>>
        /\ UNCHANGED <<epfd, armed, count, batch, run, caller, current, status, died, file>>
    BY DEF clientVars, waitVars, ioVars, control
  <1>2. /\ UNCHANGED <<data, owed, split, immediate, ssl, requested>> /\ StreamsTypeOK'
        /\ TcpClientTypeOK' /\ TimerTypeOK' /\ TlsTypeOK' /\ TlsInv' /\ TuntapTypeOK'
    BY <1>1, KeptFacts
  <1>3. WaitsInv' /\ ControlTypes'
    BY <1>1, <1>2, EndInv DEF ClientsInv, ControlInv, ControlTypes
  <1>4. RunInv' /\ OneWait' /\ SoundCalls'
    BY <1>1, <1>2 DEF ClientsInv, ControlInv, RunInv, OneWait, WaitsWith, SoundCalls
  <1>5. ControlInv'
    BY <1>1, <1>2, <1>3, <1>4 DEF ClientsInv, ControlInv
  <1>6. DataTypes' /\ StartInv' /\ LockInv'
    BY <1>1, <1>2 DEF ClientsInv, DataTypes, StartInv, LockInv
  <1> QED
    BY <1>2, <1>5, <1>6 DEF ClientsInv

LEMMA AlwaysClientsInv == ClientsSpec => []ClientsInv
  <1>1. ClientsInv /\ [ClientsNext]_clientVars => ClientsInv'
    BY ProgramKeeps, PeerStep, ElsewhereStep, StutterKeeps DEF ClientsNext
  <1> QED
    BY <1>1, InitClientsInv, PTL DEF ClientsSpec

(***************************************************************************)
(* The variables of the client programs have their types, whatever their   *)
(* peers, users and timers do: in particular c->current is always within   *)
(* the chain, and no count of chunks or waits goes below zero.             *)
(***************************************************************************)
THEOREM ClientsTypeCorrect == ClientsSpec => []ClientsTypeOK
  <1>1. ClientsInv => ClientsTypeOK
    BY DEF ClientsInv, ControlInv, ControlTypes, DataTypes, WaitsInv, ClientsTypeOK, IoTypeOK
  <1> QED
    BY <1>1, AlwaysClientsInv, PTL

(***************************************************************************)
(* Every element of the example programs is given a struct of its type,    *)
(* and none returns to a circuit that has failed, unless connect has       *)
(* succeeded at once (tcp.c:206) or the random device could not be read    *)
(* (random.c:35).                                                          *)
(***************************************************************************)
THEOREM ElementsGetTheirStructs == ClientsSpec => []SoundCalls
  <1>1. ClientsInv => SoundCalls
    BY DEF ClientsInv, ControlInv
  <1> QED
    BY <1>1, AlwaysClientsInv, PTL

(***************************************************************************)
(* A client program waits for one thing at a time, that of its current     *)
(* element, and a circuit that has failed waits for nothing: meloop_io_loop *)
(* resumes the element that called WAIT_A, with its struct.                *)
(***************************************************************************)
THEOREM OneWaitAtATime == ClientsSpec => []ResumesItsElement
  <1>1. ASSUME ClientsInv, ~immediate
        PROVE  LET jobs == {armed[fd].job : fd \in {x \in Fds : armed[x] # NULL}}
                             \cup {ev.job : ev \in batch} IN
               /\ Cardinality(jobs) <= 1
               /\ \A j \in jobs : /\ run = NULL
                                  /\ current[prog] # 0
                                  /\ j \in Takes(Net[prog][current[prog]])
    <2> DEFINE jobs == {armed[fd].job : fd \in {x \in Fds : armed[x] # NULL}}
                         \cup {ev.job : ev \in batch}
    <2>1. \A j \in jobs : WaitsWith(j)
      BY <1>1 DEF ClientsInv, ControlInv, OneWait
    <2>2. \A j \in jobs : /\ run = NULL /\ current[prog] # 0
                          /\ j \in Takes(Net[prog][current[prog]])
      <3>1. current[prog] # 0 =>
              Given[prog][current[prog]] \in Takes(Net[prog][current[prog]])
        BY <1>1, PlaceFacts, ProgramsFit DEF WellTyped, ClientsInv, ControlInv
      <3> QED
        BY <2>1, <3>1 DEF WaitsWith
    <2>3. Cardinality(jobs) <= 1
      <3>1. jobs \subseteq {Given[prog][current[prog]]}
        BY <2>1 DEF WaitsWith
      <3>2. /\ IsFiniteSet({Given[prog][current[prog]]})
            /\ Cardinality({Given[prog][current[prog]]}) = 1
        BY FS_Singleton
      <3> HIDE DEF jobs
      <3> QED
        BY <3>1, <3>2, FS_Subset
    <2> QED
      BY <2>2, <2>3
  <1>2. ClientsInv => ResumesItsElement
    BY <1>1 DEF ResumesItsElement
  <1> QED
    BY <1>2, AlwaysClientsInv, PTL

(***************************************************************************)
(* writeA of echoclient runs only when the echo of the line before has     *)
(* been read, and has a whole line to send, as long as no line was split.  *)
(***************************************************************************)
THEOREM EchoclientInLockStep == ClientsSpec => []LockStep
  <1>1. ASSUME ClientsInv, prog = "echoclient", Runs(prog, "conn", "writeA"),
               ~split, ~immediate
        PROVE  data = "line" /\ ~owed /\ file["conn"].in = 0
    <2>1. current[prog] # 0 /\ Net[prog][current[prog]] = "writeA"
      BY <1>1, RunsFacts, NameFacts
    <2>2. current[prog] = 15
      BY <1>1, <2>1, PlaceFacts, EchoPlaces DEF ClientsInv, ControlInv
    <2> QED
      BY <1>1, <2>2 DEF ClientsInv, LockInv
  <1>2. ClientsInv => LockStep
    BY <1>1 DEF LockStep
  <1> QED
    BY <1>2, AlwaysClientsInv, PTL

(***************************************************************************)
(* tlsclient sends its request only to a peer whose chain and name have    *)
(* been accepted, with the roots loaded: tlswriteA goes through only once  *)
(* OpenSSL is up, however the circuit got to it.                           *)
(***************************************************************************)
THEOREM RequestsGoToVerifiedPeers == ClientsSpec => []VerifiedBeforeRequest
  <1>1. ClientsInv => VerifiedBeforeRequest
    BY DEF ClientsInv, TlsInv, VerifiedBeforeRequest
  <1> QED
    BY <1>1, AlwaysClientsInv, PTL

-----------------------------------------------------------------------------
(* Descriptors.  The invariant that relates the place of a program to the  *)
(* descriptors that it has opened.                                         *)

\* The descriptors that elements open, and which element does, or 0.
Devices == {"conn", "timer", "rand"}

Opener == [conn |-> "connectA", timer |-> "timeropenA", rand |-> "randopenA"]

OpensAt ==
  [c \in ClientCircuits |->
     CASE c = "echoclient" -> [conn |-> 5, timer |-> 2, rand |-> 9]
       [] c = "tlsclient"  -> [conn |-> 1, timer |-> 0, rand |-> 0]
       [] c = "random"     -> [conn |-> 0, timer |-> 0, rand |-> 2]
       [] OTHER            -> [conn |-> 0, timer |-> 0, rand |-> 0]]

\* Nothing has been opened for fd.  A timer may be, and not be set.
Fresh(fd) ==
  CASE fd = "conn"  -> tcpstatus = "none" /\ ~immediate /\ ~file["conn"].open
    [] fd = "timer" -> timerstatus = "none"
    [] fd = "rand"  -> ~file["rand"].open

\* connectA waits, or goes on after its wait.
Connecting == tcpstatus = "_CONNECTING" /\ ~immediate /\ file["conn"].open

\* echoclient has failed while two things were waiting, and the second one has
\* made runA start over, with a struct that the first element does not take.
Restarted ==
  /\ prog = "echoclient" /\ immediate /\ current[prog] = 1
  /\ run \notin {"ctx", NULL}

\* What is open where the program is.
PlaceInv ==
  (current[prog] # 0 /\ ~Restarted) =>
    /\ \A fd \in Devices : OpensAt[prog][fd] # 0 =>
         /\ current[prog] > OpensAt[prog][fd] => file[fd].open
         /\ current[prog] < OpensAt[prog][fd] => Fresh(fd)
         /\ current[prog] = OpensAt[prog][fd] => Fresh(fd) \/ (fd = "conn" /\ Connecting)
    /\ file["stdin"].open /\ file["stdout"].open

\* Before main has run, nothing is open but stdin and stdout.
FreshInv ==
  epfd = "none" =>
    /\ \A fd \in Devices : Fresh(fd)
    /\ file["stdin"].open /\ file["stdout"].open
    /\ ~file["timer"].open /\ calls = 0

\* NoOrphans, and why: a timer that is not set is being set, and tunopenA does
\* not run again once it is done.
OpeningInv ==
  /\ sockets \subseteq {tries}
  /\ "device" \in tunfds => calls = 1
  /\ file["tun"].open => calls > 1
  /\ Unset => /\ run = "timer" /\ current[prog] # 0
              /\ Net[prog][current[prog]] = "timeropenA"
  /\ calls = AllCalls => run = NULL /\ current[prog] = 0 /\ ~immediate

WaitKinds ==
  {"connectA", "timersleepA", "readA", "writeA", "pipereadA", "pipewriteA",
   "tlsA", "tlswriteA", "tlsreadA"}

\* Only what is open is waited for, and with its own struct; only elements that
\* wait are left without running.
ArmedInv ==
  /\ \A fd \in Fds : armed[fd] # NULL => file[fd].open /\ armed[fd].job # "ctx"
  /\ \A ev \in batch : file[ev.fd].open /\ ev.job # "ctx"
  /\ \A ev1, ev2 \in batch : ev1.fd = ev2.fd => ev1 = ev2
  /\ (Alive /\ run = NULL /\ current[prog] # 0) => Net[prog][current[prog]] \in WaitKinds

\* connect succeeds at once only in the two programs that have a connectA.  In
\* tlsclient nothing but conn is waited for, and a failure is the end.
ImmediateInv ==
  /\ immediate => prog \in {"echoclient", "tlsclient"}
  /\ prog = "tlsclient" =>
       /\ \A fd \in Fds : armed[fd] # NULL => fd = "conn"
       /\ \A ev \in batch : ev.fd = "conn"
       /\ epfd = "open" /\ current[prog] = 0 => status # "working"
       /\ batch # {} => run = NULL /\ caller = NULL /\ current[prog] # 0

FdInv == OpeningInv /\ FreshInv /\ PlaceInv /\ ArmedInv /\ ImmediateInv

-----------------------------------------------------------------------------
(* Where the programs open and use descriptors.                            *)

\* An element is behind the one that opens fd, exactly if the one it leads to
\* is not; and the elements that use fd are behind it.
OpensFirst(c) ==
  \A fd \in Devices :
    /\ OpensAt[c][fd] \in Nat
    /\ \A e \in 1..Len(Net[c]) :
         /\ Net[c][e] = Opener[fd] <=> e = OpensAt[c][fd]
         /\ (OpensAt[c][fd] # 0 /\ Following(c, e) # 0) =>
              (Following(c, e) > OpensAt[c][fd] <=> e >= OpensAt[c][fd])
         /\ (Net[c][e] \in UsersOf[fd] /\ Given[c][e] = fd) =>
              OpensAt[c][fd] # 0 /\ e > OpensAt[c][fd]
         /\ (Net[c][e] \in UsersOf[fd] /\ c \in {"echoclient", "tlsclient"}) =>
              Given[c][e] = fd

LEMMA EchoclientOpens ==
  /\ OpensFirst("echoclient")
  /\ Net["echoclient"][1] = "timerA"
  /\ \A e \in 1..Len(Net["echoclient"]) : Net["echoclient"][e] # "tunopenA"
  <1> DEFINE c == "echoclient"
  <1>1. /\ Net[c] = <<"timerA", "timeropenA", "ctxA", "connA", "connectA", "greetingA",
                      "ctxA", "randA", "randopenA", "randreadA", "randencA", "newlineA",
                      "ctxA", "connA", "writeA", "readA", "printA",
                      "ctxA", "timerA", "timersleepA", "ctxA", "randA">>
        /\ Given[c] = <<"ctx", "timer", "timer", "ctx", "conn", "conn",
                        "conn", "ctx", "rand", "rand", "rand", "rand",
                        "rand", "ctx", "conn", "conn", "conn",
                        "conn", "ctx", "timer", "timer", "ctx">>
    BY ProgramsAssumption DEF ClientNet, ClientCircuits, Given, echoclient
  <1>2. /\ Len(Net[c]) = 22
        /\ \A e \in 1..22 : Following(c, e) = IF e = 22 THEN 10 ELSE e + 1
    BY EchoPlaces
  <1>3. \A e \in 1..22 : e \in {1, 2, 3, 4, 5, 6, 7, 8, 9, 10, 11, 12, 13, 14, 15, 16,
                                17, 18, 19, 20, 21, 22}
    OBVIOUS
  <1>4. OpensAt[c] = [conn |-> 5, timer |-> 2, rand |-> 9]
    BY DEF OpensAt, ClientCircuits
  <1>5. \A fd \in Devices : OpensAt[c][fd] \in {2, 5, 9}
    BY <1>4 DEF Devices
  <1>6. \A e \in 1..22 : /\ Net[c][e] = "connectA" <=> e = 5
                         /\ Net[c][e] = "timeropenA" <=> e = 2
                         /\ Net[c][e] = "randopenA" <=> e = 9
    BY <1>1, <1>3
  <1>7. \A fd \in Devices : \A e \in 1..22 : Net[c][e] = Opener[fd] <=> e = OpensAt[c][fd]
    BY <1>4, <1>6 DEF Devices, Opener
  <1>8. \A e \in 1..22 :
          /\ Net[c][e] \in UsersOf["conn"] => Given[c][e] = "conn" /\ e > 5
          /\ Net[c][e] \in UsersOf["timer"] => Given[c][e] = "timer" /\ e > 2
          /\ Net[c][e] \in UsersOf["rand"] => Given[c][e] = "rand" /\ e > 9
    BY <1>1, <1>3 DEF UsersOf
  <1>9. \A fd \in Devices : \A e \in 1..22 :
          Net[c][e] \in UsersOf[fd] => Given[c][e] = fd /\ e > OpensAt[c][fd]
    BY <1>4, <1>8 DEF Devices
  <1>10. Net[c][1] = "timerA" /\ \A e \in 1..22 : Net[c][e] # "tunopenA"
    BY <1>1, <1>3
  <1> HIDE DEF c
  <1>11. \A fd \in Devices : \A e \in 1..22 :
           Following(c, e) > OpensAt[c][fd] <=> e >= OpensAt[c][fd]
    BY <1>2, <1>5
  <1>12. OpensFirst(c)
    BY <1>2, <1>5, <1>7, <1>9, <1>11 DEF OpensFirst
  <1> QED
    BY <1>2, <1>10, <1>12 DEF c

LEMMA TlsclientOpens ==
  /\ OpensFirst("tlsclient")
  /\ \A e \in 1..Len(Net["tlsclient"]) :
       /\ Net["tlsclient"][e] \notin
            {"tunopenA", "timersleepA", "readA", "writeA", "pipereadA", "pipewriteA"}
       /\ Following("tlsclient", e) # 0
  <1> DEFINE c == "tlsclient"
  <1>1. /\ Net[c] = <<"connectA", "tlsA", "httpreqA", "tlswriteA", "tlsreadA", "printA">>
        /\ Back[c] = 5 /\ Given[c] = <<"conn", "conn", "conn", "conn", "conn", "conn">>
    BY ProgramsAssumption DEF ClientNet, ClientBack, ClientCircuits, Given, tlsclient
  <1>2. Len(Net[c]) = 6
    BY <1>1
  <1>3. \A e \in 1..6 : Following(c, e) = IF e = 6 THEN 5 ELSE e + 1
    BY <1>1, <1>2 DEF Following
  <1>4. \A e \in 1..6 : e \in {1, 2, 3, 4, 5, 6}
    OBVIOUS
  <1>5. OpensAt[c] = [conn |-> 1, timer |-> 0, rand |-> 0]
    BY DEF OpensAt, ClientCircuits
  <1>6. \A e \in 1..6 : /\ Net[c][e] = "connectA" <=> e = 1
                        /\ Net[c][e] \notin {"timeropenA", "randopenA", "tunopenA"}
                        /\ Net[c][e] \notin {"timersleepA", "randreadA"}
                        /\ Net[c][e] \notin {"readA", "writeA", "pipereadA", "pipewriteA"}
                        /\ Given[c][e] = "conn"
    BY <1>1, <1>4
  <1>7. \A fd \in Devices : \A e \in 1..6 : Net[c][e] = Opener[fd] <=> e = OpensAt[c][fd]
    BY <1>5, <1>6 DEF Devices, Opener
  <1>8. \A fd \in Devices : \A e \in 1..6 : Net[c][e] \in UsersOf[fd] => fd = "conn" /\ e # 1
    BY <1>6 DEF Devices, UsersOf
  <1>9. OpensAt[c]["conn"] = 1 /\ \A fd \in Devices : OpensAt[c][fd] \in {0, 1}
    BY <1>5 DEF Devices
  <1> HIDE DEF c
  <1>10. \A fd \in Devices : \A e \in 1..6 :
           Following(c, e) > OpensAt[c][fd] <=> e >= OpensAt[c][fd]
    BY <1>3, <1>9
  <1>11. \A fd \in Devices : \A e \in 1..6 :
           Net[c][e] \in UsersOf[fd] =>
             OpensAt[c][fd] # 0 /\ e > OpensAt[c][fd] /\ Given[c][e] = fd
    BY <1>6, <1>8, <1>9
  <1>12. OpensFirst(c)
    BY <1>2, <1>7, <1>9, <1>10, <1>11 DEF OpensFirst
  <1>13. \A e \in 1..6 : Following(c, e) # 0
    BY <1>3
  <1> QED
    BY <1>2, <1>6, <1>12, <1>13 DEF c

LEMMA RandomOpens ==
  /\ OpensFirst("random")
  /\ \A e \in 1..Len(Net["random"]) : Net["random"][e] # "tunopenA"
  <1> DEFINE c == "random"
  <1>1. /\ Net[c] = <<"randA", "randopenA", "randreadA", "randencA", "ctxA", "pipeA",
                      "countA", "pipewriteA", "pipereadA", "ctxA", "randA">>
        /\ Back[c] = 3
        /\ Given[c] = <<"ctx", "rand", "rand", "rand", "rand", "ctx",
                        "pipe", "pipe", "pipe", "pipe", "ctx">>
    BY ProgramsAssumption DEF ClientNet, ClientBack, ClientCircuits, Given, random
  <1>2. Len(Net[c]) = 11
    BY <1>1
  <1>3. \A e \in 1..11 : Following(c, e) = IF e = 11 THEN 3 ELSE e + 1
    BY <1>1, <1>2 DEF Following
  <1>4. \A e \in 1..11 : e \in {1, 2, 3, 4, 5, 6, 7, 8, 9, 10, 11}
    OBVIOUS
  <1>5. OpensAt[c] = [conn |-> 0, timer |-> 0, rand |-> 2]
    BY DEF OpensAt, ClientCircuits
  <1>6. \A e \in 1..11 : /\ Net[c][e] = "randopenA" <=> e = 2
                         /\ Net[c][e] \notin {"connectA", "timeropenA", "tunopenA"}
                         /\ Net[c][e] \notin {"readA", "writeA", "tlsA", "tlswriteA",
                                              "tlsreadA", "timersleepA"}
                         /\ Net[c][e] = "randreadA" => e = 3
    BY <1>1, <1>4
  <1>7. \A fd \in Devices : \A e \in 1..11 : Net[c][e] = Opener[fd] <=> e = OpensAt[c][fd]
    BY <1>5, <1>6 DEF Devices, Opener
  <1>8. \A fd \in Devices : \A e \in 1..11 : Net[c][e] \in UsersOf[fd] => fd = "rand" /\ e = 3
    BY <1>6 DEF Devices, UsersOf
  <1>9. OpensAt[c]["rand"] = 2 /\ \A fd \in Devices : OpensAt[c][fd] \in {0, 2}
    BY <1>5 DEF Devices
  <1>10. c \notin {"echoclient", "tlsclient"}
    OBVIOUS
  <1> HIDE DEF c
  <1>11. \A fd \in Devices : \A e \in 1..11 :
           Following(c, e) > OpensAt[c][fd] <=> e >= OpensAt[c][fd]
    BY <1>3, <1>9
  <1>12. \A fd \in Devices : \A e \in 1..11 :
           Net[c][e] \in UsersOf[fd] => OpensAt[c][fd] # 0 /\ e > OpensAt[c][fd]
    BY <1>8, <1>9
  <1>13. OpensFirst(c)
    BY <1>2, <1>7, <1>9, <1>10, <1>11, <1>12 DEF OpensFirst
  <1> QED
    BY <1>2, <1>6, <1>13 DEF c

LEMMA EchoshellOpens ==
  /\ OpensFirst("echoshell")
  /\ \A e \in 1..Len(Net["echoshell"]) : Net["echoshell"][e] # "tunopenA"
  <1> DEFINE c == "echoshell"
  <1>1. /\ Net[c] = <<"promptA", "readA", "echoA", "writeA">>
        /\ Given[c] = <<"pipe", "pipe", "pipe", "pipe">>
    BY ProgramsAssumption DEF ClientNet, ClientCircuits, Given, echoshell
  <1>2. Len(Net[c]) = 4
    BY <1>1
  <1>3. \A e \in 1..4 : e \in {1, 2, 3, 4}
    OBVIOUS
  <1>4. OpensAt[c] = [conn |-> 0, timer |-> 0, rand |-> 0]
    BY DEF OpensAt, ClientCircuits
  <1>5. \A e \in 1..4 : /\ Net[c][e] \notin {"connectA", "timeropenA", "randopenA", "tunopenA"}
                        /\ Given[c][e] \notin Devices
    BY <1>1, <1>3 DEF Devices
  <1>6. \A fd \in Devices :
          OpensAt[c][fd] = 0 /\ Opener[fd] \in {"connectA", "timeropenA", "randopenA"}
    BY <1>4 DEF Devices, Opener
  <1>7. c \notin {"echoclient", "tlsclient"}
    OBVIOUS
  <1> HIDE DEF c
  <1>8. OpensFirst(c)
    BY <1>2, <1>5, <1>6, <1>7 DEF OpensFirst
  <1> QED
    BY <1>2, <1>5, <1>8 DEF c

LEMMA TunnelOpens == OpensFirst("tunnel")
  <1> DEFINE c == "tunnel"
  <1>1. Net[c] = <<"tunopenA">> /\ Given[c] = <<"tun">>
    BY ProgramsAssumption DEF ClientNet, ClientCircuits, Given
  <1>2. Len(Net[c]) = 1
    BY <1>1
  <1>4. OpensAt[c] = [conn |-> 0, timer |-> 0, rand |-> 0]
    BY DEF OpensAt, ClientCircuits
  <1>5. \A e \in 1..1 : Net[c][e] = "tunopenA" /\ Given[c][e] \notin Devices
    BY <1>1 DEF Devices
  <1>6. \A fd \in Devices :
          OpensAt[c][fd] = 0 /\ Opener[fd] \in {"connectA", "timeropenA", "randopenA"}
    BY <1>4 DEF Devices, Opener
  <1>7. c \notin {"echoclient", "tlsclient"}
    OBVIOUS
  <1> HIDE DEF c
  <1>8. OpensFirst(c)
    BY <1>2, <1>5, <1>6, <1>7 DEF OpensFirst
  <1> QED
    BY <1>8 DEF c

\* All of them; and only tunnel opens a tunnel.
LEMMA ProgramsOpen ==
  /\ \A c \in Circuits : OpensFirst(c)
  /\ \A c \in Circuits : \A e \in 1..Len(Net[c]) : Net[c][e] = "tunopenA" => c = "tunnel"
  BY EchoclientOpens, TlsclientOpens, RandomOpens, EchoshellOpens, TunnelOpens, NameFacts
  DEF ClientCircuits

-----------------------------------------------------------------------------
(* What a step can do to them.                                             *)

\* No descriptor is opened or closed, and none is being opened.
Steady ==
  /\ UNCHANGED <<tcpVars, tunVars, prog>>
  /\ timerstatus' = "none" <=> timerstatus = "none"
  /\ \A fd \in Fds : file'[fd].open = file[fd].open

LEMMA SteadyFacts ==
  ASSUME Steady
  PROVE  /\ UNCHANGED <<tcpstatus, tries, sockets, immediate, calls, tunfds, prog>>
         /\ Unset' <=> Unset
         /\ Connecting' <=> Connecting
         /\ \A fd \in Devices : Fresh(fd)' <=> Fresh(fd)
  <1>1. /\ UNCHANGED <<tcpstatus, tries, sockets, immediate, calls, tunfds, prog>>
        /\ file'["conn"].open = file["conn"].open
        /\ file'["timer"].open = file["timer"].open
        /\ file'["rand"].open = file["rand"].open
    BY NameFacts DEF Steady, tcpVars, tunVars
  <1>2. /\ Unset' <=> Unset
        /\ Connecting' <=> Connecting
    BY <1>1 DEF Unset, Connecting, Steady
  <1>3. \A fd \in Devices : Fresh(fd)' <=> Fresh(fd)
    BY <1>1 DEF Fresh, Devices, Steady
  <1> QED
    BY <1>1, <1>2, <1>3

\* An element that runs with a struct of its type has not been started over.
LEMMA NotRestarted ==
  ASSUME NEW j \in Jobs, NEW kind, Runs(prog, j, kind), kind # "timerA" \/ j = "ctx"
  PROVE  ~Restarted
  BY EchoclientOpens, RunsFacts DEF Restarted

\* The program is at its element e.
LEMMA PlaceOf ==
  ASSUME ClientsInv, current[prog] # 0
  PROVE  /\ prog \in Circuits /\ current[prog] \in 1..Len(Net[prog])
         /\ \A fd \in Devices : OpensAt[prog][fd] \in Nat
         /\ \A fd \in Devices :
              Net[prog][current[prog]] = Opener[fd] <=> current[prog] = OpensAt[prog][fd]
         /\ \A fd \in Devices :
              (OpensAt[prog][fd] # 0 /\ Following(prog, current[prog]) # 0) =>
                (Following(prog, current[prog]) > OpensAt[prog][fd] <=>
                   current[prog] >= OpensAt[prog][fd])
  <1>1. /\ prog \in Circuits /\ current[prog] \in 1..Len(Net[prog])
        /\ current[prog] \in Nat /\ Len(Net[prog]) \in Nat
    BY PlaceFacts DEF ClientsInv, ControlInv
  <1>2. OpensFirst(prog)
    BY <1>1, ProgramsOpen
  <1> QED
    BY <1>1, <1>2 DEF OpensFirst

\* The program goes on to the next element: what this one opens is open.
LEMMA PlaceGoes ==
  ASSUME ClientsInv, PlaceInv, current[prog] # 0, ~Restarted, prog' = prog,
         current'[prog] = Following(prog, current[prog]),
         \A fd \in Devices : current[prog] = OpensAt[prog][fd] => file'[fd].open,
         \A fd \in Devices : current[prog] # OpensAt[prog][fd] =>
           file'[fd].open = file[fd].open /\ (Fresh(fd) => Fresh(fd)'),
         file'["stdin"].open = file["stdin"].open,
         file'["stdout"].open = file["stdout"].open
  PROVE  PlaceInv'
  <1> SUFFICES ASSUME current'[prog] # 0
               PROVE  /\ \A fd \in Devices : OpensAt[prog][fd] # 0 =>
                           /\ current'[prog] > OpensAt[prog][fd] => file'[fd].open
                           /\ current'[prog] <= OpensAt[prog][fd] => Fresh(fd)'
                      /\ file'["stdin"].open /\ file'["stdout"].open
    <2>1. \A fd \in Devices : OpensAt[prog][fd] \in Nat
      BY PlaceOf
    <2>2. current'[prog] \in Nat
      BY PlaceFacts DEF Following, ClientsInv, ControlInv
    <2> QED
      BY <2>1, <2>2 DEF PlaceInv
  <1>1. /\ \A fd \in Devices : OpensAt[prog][fd] # 0 =>
             /\ current[prog] > OpensAt[prog][fd] => file[fd].open
             /\ current[prog] < OpensAt[prog][fd] => Fresh(fd)
        /\ file["stdin"].open /\ file["stdout"].open
    BY DEF PlaceInv
  <1>2. ASSUME NEW fd \in Devices, OpensAt[prog][fd] # 0
        PROVE  /\ current'[prog] > OpensAt[prog][fd] => file'[fd].open
               /\ current'[prog] <= OpensAt[prog][fd] => Fresh(fd)'
    <2>1. /\ OpensAt[prog][fd] \in Nat /\ current[prog] \in Nat
          /\ current'[prog] > OpensAt[prog][fd] <=> current[prog] >= OpensAt[prog][fd]
      BY <1>2, PlaceOf, PlaceFacts DEF ClientsInv, ControlInv
    <2>2. current'[prog] \in Nat
      BY PlaceFacts DEF Following, ClientsInv, ControlInv
    <2>3. CASE current[prog] = OpensAt[prog][fd]
      BY <2>1, <2>2, <2>3
    <2>4. CASE current[prog] > OpensAt[prog][fd]
      BY <1>1, <1>2, <2>1, <2>2, <2>4
    <2>5. CASE current[prog] < OpensAt[prog][fd]
      <3>1. ~(current'[prog] > OpensAt[prog][fd])
        BY <2>1, <2>5
      <3>2. current[prog] # OpensAt[prog][fd]
        BY <2>1, <2>5
      <3> QED
        BY <1>1, <1>2, <2>5, <3>1, <3>2
    <2> QED
      BY <2>1, <2>3, <2>4, <2>5
  <1> QED
    BY <1>1, <1>2

\* The program stays at its element.
LEMMA PlaceStays ==
  ASSUME ClientsInv, PlaceInv, prog' = prog, current'[prog] = current[prog],
         ~Restarted \/ Restarted',
         \A fd \in Fds : file[fd].open => file'[fd].open,
         \A fd \in Devices :
           \/ Fresh(fd) => Fresh(fd)'
           \/ fd = "conn" /\ current[prog] = OpensAt[prog]["conn"] /\ Connecting',
         Connecting => Connecting'
  PROVE  PlaceInv'
  <1>1. (Devices \cup {"stdin", "stdout"}) \subseteq Fds
    BY NameFacts DEF Devices
  <1> SUFFICES ASSUME current[prog] # 0, ~Restarted
               PROVE  /\ \A fd \in Devices : OpensAt[prog][fd] # 0 =>
                           /\ current[prog] > OpensAt[prog][fd] => file'[fd].open
                           /\ current[prog] < OpensAt[prog][fd] => Fresh(fd)'
                           /\ current[prog] = OpensAt[prog][fd] =>
                                Fresh(fd)' \/ (fd = "conn" /\ Connecting')
                      /\ file'["stdin"].open /\ file'["stdout"].open
    BY DEF PlaceInv
  <1>2. /\ \A fd \in Devices : OpensAt[prog][fd] # 0 =>
             /\ current[prog] > OpensAt[prog][fd] => file[fd].open
             /\ current[prog] < OpensAt[prog][fd] => Fresh(fd)
             /\ current[prog] = OpensAt[prog][fd] => Fresh(fd) \/ (fd = "conn" /\ Connecting)
        /\ file["stdin"].open /\ file["stdout"].open
    BY DEF PlaceInv
  <1>3. ASSUME NEW fd \in Devices, OpensAt[prog][fd] # 0
        PROVE  /\ current[prog] > OpensAt[prog][fd] => file'[fd].open
               /\ current[prog] < OpensAt[prog][fd] => Fresh(fd)'
               /\ current[prog] = OpensAt[prog][fd] =>
                    Fresh(fd)' \/ (fd = "conn" /\ Connecting')
    <2>1. CASE Fresh(fd) => Fresh(fd)'
      BY <1>1, <1>2, <1>3, <2>1
    <2>2. CASE fd = "conn" /\ current[prog] = OpensAt[prog]["conn"] /\ Connecting'
      <3>1. ~(current[prog] < OpensAt[prog][fd])
        BY <2>2, PlaceOf
      <3> QED
        BY <1>1, <1>2, <1>3, <2>2, <3>1
    <2> QED
      BY <2>1, <2>2
  <1> QED
    BY <1>1, <1>2, <1>3

\* What is waited for stays open.
LEMMA ArmedStays ==
  ASSUME ArmedInv, UNCHANGED <<armed, batch, prog>>,
         \A fd \in Fds : file[fd].open => file'[fd].open,
         batch \subseteq [fd : Fds, job : Jobs, counted : BOOLEAN, flag : Flag],
         (Alive' /\ run' = NULL /\ current'[prog] # 0) =>
            Net[prog][current'[prog]] \in WaitKinds
  PROVE  ArmedInv'
  <1>1. \A ev \in batch : ev.fd \in Fds
    OBVIOUS
  <1> QED
    BY <1>1 DEF ArmedInv

\* While an element runs, tlsclient has nothing that was reported.
LEMMA ImmediateStays ==
  ASSUME ImmediateInv, UNCHANGED <<armed, batch, prog>>,
         immediate' => prog \in {"echoclient", "tlsclient"},
         prog = "tlsclient" /\ batch # {} => UNCHANGED <<run, caller, current>>,
         prog = "tlsclient" /\ epfd' = "open" /\ current'[prog] = 0 => status' # "working"
  PROVE  ImmediateInv'
  BY DEF ImmediateInv

\* Types that the lemmas below need.
LEMMA FdTypes ==
  ASSUME ClientsInv
  PROVE  /\ batch \subseteq [fd : Fds, job : Jobs, counted : BOOLEAN, flag : Flag]
         /\ armed \in [Fds -> Wait \cup {NULL}]
         /\ file \in [Fds -> File] /\ current \in [Circuits -> Nat] /\ prog \in Circuits
         /\ run \in Jobs \cup {NULL} /\ status \in {"working", "EXIT_FAILURE"}
         /\ calls \in 0..9 /\ AllCalls = 9 /\ tunfds \subseteq {"device", "control"}
         /\ tries \in 0..MaxAddrs /\ sockets \subseteq 1..MaxAddrs /\ immediate \in BOOLEAN
  BY TunFacts, NameFacts
  DEF ClientsInv, ControlInv, WaitsInv, WaitsTypeOK, ControlTypes, DataTypes,
      TuntapTypeOK, TcpClientTypeOK

\* Opening, when nothing of a socket or a tunnel changes.
LEMMA OpeningStays ==
  ASSUME OpeningInv, UNCHANGED <<tries, sockets, calls, tunfds, prog, immediate>>,
         file'["tun"].open => file["tun"].open,
         Unset' => /\ run' = "timer" /\ current'[prog] # 0
                   /\ Net[prog][current'[prog]] = "timeropenA",
         calls = AllCalls => run' = NULL /\ current'[prog] = 0
  PROVE  OpeningInv'
  BY DEF OpeningInv

\* The program does not move.
LEMMA FdHere ==
  ASSUME ClientsInv, FdInv, Alive, UNCHANGED <<waitVars, control, status, immediate, prog>>,
         \A fd \in Fds : file[fd].open => file'[fd].open,
         OpeningInv', PlaceInv'
  PROVE  FdInv'
  <1>1. /\ UNCHANGED <<epfd, armed, batch, run, caller, current>>
        /\ epfd = "open" /\ died = "no"
    BY DEF waitVars, control, Alive
  <1>2. ArmedInv /\ ImmediateInv
    BY DEF FdInv
  <1>3. ArmedInv'
    BY <1>1, <1>2, ArmedStays, FdTypes DEF ArmedInv, Alive
  <1>4. ImmediateInv'
    BY <1>1, <1>2, ImmediateStays DEF ImmediateInv
  <1>5. FreshInv'
    BY <1>1 DEF FreshInv
  <1> QED
    BY <1>3, <1>4, <1>5 DEF FdInv

\* The process dies, or something happens outside of it.
LEMMA FdStays ==
  ASSUME ClientsInv, FdInv, Steady, Alive, UNCHANGED <<waitVars, control, status>>
  PROVE  FdInv'
  <1>1. UNCHANGED <<run, current, tries, sockets, calls, tunfds, prog, immediate>>
    BY SteadyFacts DEF control
  <1>2. /\ Unset' <=> Unset
        /\ Restarted' <=> Restarted
        /\ Connecting' <=> Connecting
        /\ \A fd \in Devices : Fresh(fd)' <=> Fresh(fd)
        /\ \A fd \in Fds : file'[fd].open = file[fd].open
    BY <1>1, SteadyFacts DEF Steady, Restarted
  <1>3. OpeningInv /\ PlaceInv
    BY DEF FdInv
  <1>4. OpeningInv'
    BY <1>1, <1>2, <1>3, OpeningStays, NameFacts DEF OpeningInv
  <1>5. PlaceInv'
    BY <1>1, <1>2, <1>3, PlaceStays
  <1> QED
    BY <1>1, <1>2, <1>4, <1>5, FdHere

\* Where RETURN_A leads.
LEMMA ReturnPlace ==
  ASSUME ClientsInv, Returns(prog)
  PROVE  /\ current'[prog] = Following(prog, current[prog])
         /\ run' = NULL => current'[prog] = 0
         /\ prog = "tlsclient" => current'[prog] # 0
         /\ UNCHANGED <<epfd, armed, batch, caller, status, died, immediate, prog>>
         /\ epfd = "open" /\ current[prog] # 0 /\ run \in Jobs /\ run # NULL
  <1>1. /\ UNCHANGED <<epfd, armed, batch, caller, status, immediate, prog>>
        /\ epfd = "open" /\ current[prog] # 0 /\ run \in Jobs /\ run # NULL
        /\ returnA(prog, Handed(Net[prog][current[prog]], run))
    BY NameFacts DEF Returns, OnElement, Alive, waitVars
  <1>2. PICK j : j = Handed(Net[prog][current[prog]], run)
    OBVIOUS
  <1>3. j \in Jobs /\ j # NULL
    BY <1>1, <1>2, NameFacts DEF Handed, Hands
  <1>4. /\ died' = died /\ current'[prog] = Following(prog, current[prog])
        /\ run' = IF current'[prog] = 0 THEN NULL ELSE j
    BY <1>1, <1>2, <1>3, ReturnFacts DEF ClientsInv, ControlInv
  <1>5. prog = "tlsclient" => current'[prog] # 0
    BY <1>1, <1>4, PlaceOf, TlsclientOpens
  <1> QED
    BY <1>1, <1>3, <1>4, <1>5

\* The program goes on behind its element, which has opened what it opens.
LEMMA FdGoes ==
  ASSUME ClientsInv, FdInv, ~Restarted, prog' = prog, current[prog] # 0,
         run # NULL \/ caller # NULL,
         epfd = "open", UNCHANGED <<epfd, armed, batch, status>>,
         current'[prog] = Following(prog, current[prog]),
         run' = NULL => current'[prog] = 0,
         prog = "tlsclient" => current'[prog] # 0,
         immediate' => prog \in {"echoclient", "tlsclient"},
         \A fd \in Fds : file[fd].open => file'[fd].open,
         \A fd \in Devices : Net[prog][current[prog]] = Opener[fd] => file'[fd].open,
         \A fd \in Devices : Net[prog][current[prog]] # Opener[fd] =>
           file'[fd].open = file[fd].open /\ (Fresh(fd) => Fresh(fd)'),
         file'["stdin"].open = file["stdin"].open,
         file'["stdout"].open = file["stdout"].open,
         OpeningInv'
  PROVE  FdInv'
  <1>1. PlaceInv /\ ArmedInv /\ ImmediateInv
    BY DEF FdInv
  <1>2. PlaceInv'
    BY <1>1, PlaceOf, PlaceGoes
  <1>3. ArmedInv'
    BY <1>1, ArmedStays, FdTypes
  <1>4. ImmediateInv'
    BY <1>1, ImmediateStays DEF ImmediateInv
  <1>5. FreshInv'
    BY DEF FreshInv
  <1> QED
    BY <1>2, <1>3, <1>4, <1>5 DEF FdInv

\* An element returns that opens nothing.
LEMMA FdPasses ==
  ASSUME ClientsInv, FdInv, Steady, Returns(prog), ~Restarted,
         Net[prog][current[prog]] \notin {"connectA", "timeropenA", "randopenA"}
  PROVE  FdInv'
  <1>1. /\ current'[prog] = Following(prog, current[prog])
        /\ run' = NULL => current'[prog] = 0
        /\ prog = "tlsclient" => current'[prog] # 0
        /\ UNCHANGED <<epfd, armed, batch, caller, status, died, immediate, prog>>
        /\ epfd = "open" /\ current[prog] # 0 /\ run \in Jobs /\ run # NULL
    BY ReturnPlace
  <1>2. OpeningInv /\ ImmediateInv
    BY DEF FdInv
  <1>3. /\ UNCHANGED <<tries, sockets, calls, tunfds>> /\ (Unset' <=> Unset)
        /\ \A fd \in Fds : file'[fd].open = file[fd].open
        /\ \A fd \in Devices : Fresh(fd)' <=> Fresh(fd)
    BY SteadyFacts DEF Steady
  <1>4. OpeningInv'
    <2>1. ~Unset /\ calls # AllCalls
      BY <1>1, <1>2 DEF OpeningInv
    <2> QED
      BY <1>1, <1>2, <1>3, <2>1, OpeningStays, NameFacts
  <1>5. \A fd \in Devices : fd \in Fds /\ Net[prog][current[prog]] # Opener[fd]
    BY NameFacts DEF Devices, Opener
  <1>6. immediate' => prog \in {"echoclient", "tlsclient"}
    BY <1>1, <1>2 DEF ImmediateInv
  <1> QED
    BY <1>1, <1>3, <1>4, <1>5, <1>6, FdGoes, NameFacts

\* Control after ERROR_A: the program is at no element, and tlsclient ends.
LEMMA ErrorPlace ==
  ASSUME ClientsInv, errorA(prog)
  PROVE  /\ run' = NULL /\ current'[prog] = 0
         /\ prog = "tlsclient" => status' # "working"
  <1>1. prog = "tlsclient" => prog \in FatalCircuits
    BY ProgramsAssumption DEF ClientFatal
  <1> QED
    BY <1>1, ErrorFacts DEF errorA, ClientsInv, ControlInv

\* Nothing is left of the place of a program that has failed.
LEMMA FdEnds ==
  ASSUME ClientsInv, FdInv, prog' = prog, run' = NULL, current'[prog] = 0,
         prog = "tlsclient" => status' # "working",
         immediate' => prog \in {"echoclient", "tlsclient"},
         epfd' # "none", batch' = batch, run # NULL,
         \A fd \in Fds : armed'[fd] # NULL => armed'[fd] = armed[fd] /\ file'[fd].open,
         \A ev \in batch : file'[ev.fd].open,
         OpeningInv'
  PROVE  FdInv'
  <1>1. ArmedInv /\ ImmediateInv
    BY DEF FdInv
  <1>2. ArmedInv'
    BY <1>1 DEF ArmedInv
  <1>3. ImmediateInv'
    BY <1>1 DEF ImmediateInv
  <1>4. PlaceInv' /\ FreshInv'
    BY DEF PlaceInv, FreshInv
  <1> QED
    BY <1>2, <1>3, <1>4 DEF FdInv

\* What is waited for is open.
LEMMA ArmedOpen ==
  ASSUME ClientsInv, FdInv, \A fd \in Fds : file[fd].open => file'[fd].open
  PROVE  /\ \A fd \in Fds : armed[fd] # NULL => file'[fd].open
         /\ \A ev \in batch : file'[ev.fd].open
  BY FdTypes DEF FdInv, ArmedInv

\* An element fails that was not opening a timer.
LEMMA FdFails ==
  ASSUME ClientsInv, FdInv, Steady, Fails(prog), armed' = armed,
         Net[prog][current[prog]] # "timeropenA"
  PROVE  FdInv'
  <1>1. /\ errorA(prog) /\ epfd' = epfd /\ epfd = "open" /\ batch' = batch
        /\ run \in Jobs /\ run # NULL
    BY NameFacts DEF Fails, OnElement, Alive
  <1>2. OpeningInv /\ ImmediateInv
    BY DEF FdInv
  <1>3. /\ UNCHANGED <<tries, sockets, calls, tunfds, immediate, prog>> /\ (Unset' <=> Unset)
        /\ \A fd \in Fds : file'[fd].open = file[fd].open
    BY SteadyFacts DEF Steady
  <1>4. ~Unset /\ calls # AllCalls
    BY <1>1, <1>2 DEF OpeningInv
  <1>5. OpeningInv'
    BY <1>2, <1>3, <1>4, OpeningStays, NameFacts
  <1> QED
    BY <1>1, <1>2, <1>3, <1>5, ErrorPlace, ArmedOpen, FdEnds DEF ImmediateInv

\* An element waits for a descriptor that is open.
LEMMA FdArms ==
  ASSUME ClientsInv, FdInv, WaitsOrFails(prog),
         Net[prog][current[prog]] \in WaitKinds, run # "ctx",
         NEW fd \in Fds, NEW op \in Op, waits(prog, run, fd, op),
         file'[fd].open, \A g \in Fds : file[g].open => file'[g].open,
         prog = "tlsclient" => fd = "conn",
         OpeningInv', current' = current => PlaceInv'
  PROVE  FdInv'
  <1>1. /\ epfd = "open" /\ UNCHANGED <<died, caller, immediate, prog>> /\ died = "no"
        /\ current[prog] # 0 /\ run \in Jobs /\ run # NULL
    BY NameFacts DEF WaitsOrFails, OnElement, Alive
  <1>2. ArmedInv /\ ImmediateInv
    BY DEF FdInv
  <1>3. CASE waitA(run, fd, op)
    <2>1. arm(fd, run, op) /\ run' = NULL /\ UNCHANGED <<current, status, batch, epfd>>
      BY <1>3 DEF waitA, arm
    <2>2. /\ armed'[fd].job = run
          /\ \A g \in Fds : g # fd => armed'[g] = armed[g]
      BY <1>1, <2>1, ArmTypes, FdTypes DEF ClientsInv, ControlInv
    <2>3. ArmedInv'
      <3>1. \A g \in Fds : armed'[g] # NULL => file'[g].open /\ armed'[g].job # "ctx"
        BY <1>2, <2>2 DEF ArmedInv
      <3>2. \A ev \in batch' : file'[ev.fd].open /\ ev.job # "ctx"
        BY <1>2, <2>1, FdTypes DEF ArmedInv
      <3> QED
        BY <1>1, <1>2, <2>1, <3>1, <3>2 DEF ArmedInv
    <2>4. ImmediateInv'
      BY <1>1, <1>2, <2>1, <2>2 DEF ImmediateInv
    <2>5. FreshInv'
      BY <1>1, <2>1 DEF FreshInv
    <2> QED
      BY <2>1, <2>3, <2>4, <2>5 DEF FdInv
  <1>4. CASE waitA_fails(prog)
    <2>1. errorA(prog) /\ UNCHANGED <<armed, batch, epfd>>
      BY <1>4 DEF waitA_fails, refuse
    <2> QED
      BY <1>1, <1>2, <2>1, ErrorPlace, ArmedOpen, FdEnds DEF ImmediateInv
  <1>5. CASE exit /\ UNCHANGED <<run, current, status>>
    <2>1. UNCHANGED <<armed, batch>> /\ epfd' = "exited"
      BY <1>5 DEF exit
    <2>2. ArmedInv'
      BY <1>1, <1>2, <2>1, ArmedStays, FdTypes DEF Alive
    <2>3. ImmediateInv'
      BY <1>1, <1>2, <1>5, <2>1, ImmediateStays DEF ImmediateInv
    <2>4. FreshInv'
      BY <2>1 DEF FreshInv
    <2> QED
      BY <1>5, <2>2, <2>3, <2>4 DEF FdInv
  <1> QED
    BY <1>3, <1>4, <1>5 DEF waits

\* No descriptor is opened on the way.
LEMMA FdWaits ==
  ASSUME ClientsInv, FdInv, Steady, WaitsOrFails(prog), ~Restarted,
         Net[prog][current[prog]] \in WaitKinds \ {"connectA"}, run # "ctx",
         NEW fd \in Fds, NEW op \in Op, waits(prog, run, fd, op), file[fd].open,
         prog = "tlsclient" => fd = "conn"
  PROVE  FdInv'
  <1>1. run # NULL
    BY NameFacts DEF WaitsOrFails, OnElement
  <1>2. OpeningInv /\ PlaceInv
    BY DEF FdInv
  <1>3. /\ UNCHANGED <<tries, sockets, calls, tunfds, immediate, prog>> /\ (Unset' <=> Unset)
        /\ \A g \in Fds : file'[g].open = file[g].open
        /\ \A g \in Devices : Fresh(g)' <=> Fresh(g)
    BY SteadyFacts DEF Steady
  <1>4. Connecting' <=> Connecting
    BY SteadyFacts
  <1>5. ~Unset /\ calls # AllCalls
    BY <1>1, <1>2 DEF OpeningInv, WaitKinds
  <1>6. OpeningInv'
    BY <1>2, <1>3, <1>5, OpeningStays, NameFacts
  <1>7. current' = current => PlaceInv'
    BY <1>2, <1>3, <1>4, PlaceStays
  <1> QED
    BY <1>3, <1>6, <1>7, FdArms

-----------------------------------------------------------------------------
(* The elements that use descriptors.                                      *)

\* What is read, written or learnt of a descriptor does not close it.
LEMMA OpenKept ==
  ASSUME file \in [Fds -> File], NEW fd \in Fds, NEW v,
         \/ file' = file
         \/ file' = [file EXCEPT ![fd].in = v]
         \/ file' = [file EXCEPT ![fd].room = v]
         \/ file' = [file EXCEPT ![fd].hup = v]
         \/ file' = [file EXCEPT ![fd].err = v]
  PROVE  \A g \in Fds : file'[g].open = file[g].open
  <1>1. ASSUME file' = [file EXCEPT ![fd].in = v]
        PROVE  \A g \in Fds : file'[g].open = file[g].open
    BY <1>1 DEF File
  <1>2. ASSUME file' = [file EXCEPT ![fd].room = v]
        PROVE  \A g \in Fds : file'[g].open = file[g].open
    BY <1>2 DEF File
  <1>3. ASSUME file' = [file EXCEPT ![fd].hup = v]
        PROVE  \A g \in Fds : file'[g].open = file[g].open
    BY <1>3 DEF File
  <1>4. ASSUME file' = [file EXCEPT ![fd].err = v]
        PROVE  \A g \in Fds : file'[g].open = file[g].open
    BY <1>4 DEF File
  <1> QED
    BY <1>1, <1>2, <1>3, <1>4

LEMMA SteadyWhen ==
  ASSUME UNCHANGED <<tcpVars, timerVars, tunVars, prog>>,
         \A fd \in Fds : file'[fd].open = file[fd].open
  PROVE  Steady
  BY DEF Steady, timerVars

\* The element that uses a descriptor finds it open.
LEMMA UserOpen ==
  ASSUME ClientsInv, FdInv, NEW fd \in Devices, NEW kind \in UsersOf[fd],
         Runs(prog, fd, kind)
  PROVE  file[fd].open
  <1>1. fd \in Jobs /\ kind # "timerA" /\ kind # "ctxA"
    BY NameFacts DEF Devices, UsersOf
  <1>2. /\ current[prog] # 0 /\ Net[prog][current[prog]] = kind /\ run = fd /\ run # NULL
        /\ ~Restarted
    BY <1>1, RunsFacts, NotRestarted, NameFacts
  <1>3. prog \in Circuits /\ current[prog] \in 1..Len(Net[prog]) /\ OpensFirst(prog)
    BY <1>2, PlaceOf, ProgramsOpen
  <1>4. Given[prog][current[prog]] = fd
    <2>1. CASE immediate
      <3>1. prog \in {"echoclient", "tlsclient"}
        BY <2>1 DEF FdInv, ImmediateInv
      <3> QED
        BY <1>2, <1>3, <3>1 DEF OpensFirst
    <2>2. CASE ~immediate
      BY <1>2, <2>2 DEF ClientsInv, ControlInv, RunInv
    <2> QED
      BY <2>1, <2>2
  <1>5. OpensAt[prog][fd] # 0 /\ current[prog] > OpensAt[prog][fd]
    BY <1>2, <1>3, <1>4 DEF OpensFirst
  <1> QED
    BY <1>2, <1>5 DEF FdInv, PlaceInv

\* stdin and stdout are open while elements run, and tlsclient does not use
\* them.
LEMMA PipeOpen ==
  ASSUME ClientsInv, FdInv, NEW j \in Jobs,
         NEW kind \in {"readA", "writeA", "pipereadA", "pipewriteA"},
         Runs(prog, j, kind)
  PROVE  /\ file["stdin"].open /\ file["stdout"].open /\ prog # "tlsclient"
         /\ ~Restarted
  <1>1. current[prog] # 0 /\ ~Restarted /\ Net[prog][current[prog]] = kind
    BY RunsFacts, NotRestarted
  <1>2. prog # "tlsclient"
    BY <1>1, PlaceOf, TlsclientOpens
  <1> QED
    BY <1>1, <1>2 DEF FdInv, PlaceInv

\* readA, writeA, pipereadA and pipewriteA use a descriptor that is open.
LEMMA StreamOpen ==
  ASSUME ClientsInv, FdInv, NEW j \in {"conn", "pipe"}, NEW fd \in {"conn", "stdin", "stdout"},
         NEW kind \in {"readA", "writeA", "pipereadA", "pipewriteA"},
         Runs(prog, j, kind), fd = "conn" <=> j = "conn",
         j = "conn" => kind \in {"readA", "writeA"}
  PROVE  /\ file[fd].open /\ prog # "tlsclient" /\ ~Restarted
         /\ fd \in Fds /\ j \in Jobs /\ j # "ctx"
         /\ kind \in WaitKinds \ {"connectA"} /\ kind \notin DOMAIN Hands
         /\ kind \notin {"connectA", "timeropenA", "randopenA"}
  <1>1. fd \in Fds /\ j \in Jobs
    BY NameFacts
  <1>2. CASE j = "conn"
    <2>1. "conn" \in Devices /\ kind \in UsersOf["conn"]
      BY <1>2 DEF Devices, UsersOf
    <2>2. file["conn"].open
      BY <1>2, <2>1, UserOpen
    <2> QED
      BY <1>1, <1>2, <2>2, PipeOpen DEF WaitKinds, Hands
  <1>3. CASE j = "pipe"
    BY <1>1, <1>3, PipeOpen DEF WaitKinds, Hands
  <1> QED
    BY <1>2, <1>3

LEMMA FdRead ==
  ASSUME ClientsInv, FdInv, NEW j \in {"conn", "pipe"}, NEW fd \in {"conn", "stdin"},
         NEW kind \in {"readA", "pipereadA"},
         Runs(prog, j, kind), read(prog, j, fd), fd = "conn" <=> j = "conn",
         j = "conn" => kind = "readA",
         UNCHANGED <<tcpVars, timerVars, tlsVars, tunVars, prog>>
  PROVE  FdInv'
  <1>1. /\ file[fd].open /\ prog # "tlsclient" /\ ~Restarted
        /\ fd \in Fds /\ j \in Jobs /\ j # "ctx"
        /\ kind \in WaitKinds \ {"connectA"} /\ kind \notin DOMAIN Hands
        /\ kind \notin {"connectA", "timeropenA", "randopenA"}
    BY StreamOpen
  <1>2. /\ OnElement(prog) /\ run = j /\ Net[prog][current[prog]] = kind
        /\ immediate' = immediate /\ file \in [Fds -> File]
    BY <1>1, RunsFacts, FdTypes DEF tcpVars
  <1>3. CASE /\ file' = [file EXCEPT ![fd].in = @ - 1]
             /\ returnA(prog, j)
             /\ UNCHANGED <<waitVars, caller, status>>
    <2>1. Returns(prog)
      BY <1>1, <1>2, <1>3, ReturnsOn
    <2>2. PICK n : n = file[fd].in - 1
      OBVIOUS
    <2>3. Steady
      BY <1>1, <1>2, <1>3, <2>2, OpenKept, SteadyWhen
    <2> QED
      BY <1>1, <1>2, <2>1, <2>3, FdPasses
  <1>4. CASE fails(prog)
    <2>1. Fails(prog) /\ UNCHANGED <<file, armed>>
      BY <1>2, <1>4 DEF fails, Fails, waitVars
    <2> QED
      BY <1>1, <1>2, <2>1, SteadyWhen, FdFails
  <1>5. CASE waits(prog, j, fd, "EPOLLIN") /\ UNCHANGED <<caller, died, file>>
    <2>1. WaitsOrFails(prog)
      BY <1>1, <1>2, <1>5 DEF WaitsOrFails, Op
    <2>2. Steady /\ "EPOLLIN" \in Op
      BY <1>5, SteadyWhen DEF Op
    <2> QED
      BY <1>1, <1>2, <1>5, <2>1, <2>2, FdWaits
  <1> QED
    BY <1>3, <1>4, <1>5 DEF read

LEMMA FdWrite ==
  ASSUME ClientsInv, FdInv, NEW j \in {"conn", "pipe"},
         NEW fd \in {"conn", "stdin", "stdout"},
         NEW kind \in {"writeA", "pipewriteA"},
         Runs(prog, j, kind), write(prog, j, fd), fd = "conn" <=> j = "conn",
         j = "conn" => kind = "writeA",
         UNCHANGED <<tcpVars, timerVars, tlsVars, tunVars, prog>>
  PROVE  FdInv'
  <1>1. /\ file[fd].open /\ prog # "tlsclient" /\ ~Restarted
        /\ fd \in Fds /\ j \in Jobs /\ j # "ctx"
        /\ kind \in WaitKinds \ {"connectA"} /\ kind \notin DOMAIN Hands
        /\ kind \notin {"connectA", "timeropenA", "randopenA"}
    BY StreamOpen
  <1>2. /\ OnElement(prog) /\ Alive /\ run = j /\ Net[prog][current[prog]] = kind
        /\ immediate' = immediate /\ file \in [Fds -> File]
    BY <1>1, RunsFacts, FdTypes DEF tcpVars
  <1>3. CASE write_data(prog, j, fd)
    <2>1. returnA(prog, j) /\ UNCHANGED <<waitVars, caller, status>>
      BY <1>3 DEF write_data
    <2>2. PICK room \in BOOLEAN : file' = [file EXCEPT ![fd].room = room]
      BY <1>3 DEF write_data
    <2>3. Returns(prog)
      BY <1>1, <1>2, <2>1, ReturnsOn
    <2>4. Steady
      BY <1>1, <1>2, <2>2, OpenKept, SteadyWhen
    <2> QED
      BY <1>1, <1>2, <2>3, <2>4, FdPasses
  <1>4. CASE write_fails(prog, fd)
    <2>1. CASE fails(prog)
      <3>1. Fails(prog) /\ UNCHANGED <<file, armed>>
        BY <1>2, <2>1 DEF fails, Fails, waitVars
      <3> QED
        BY <1>1, <1>2, <3>1, SteadyWhen, FdFails
    <2>2. CASE UNCHANGED <<waitVars, control, status, file>>
      BY <1>2, <2>2, SteadyWhen, FdStays
    <2> QED
      BY <1>4, <2>1, <2>2 DEF write_fails
  <1>5. CASE write_waits(prog, j, fd)
    <2>1. waits(prog, j, fd, "EPOLLOUT") /\ UNCHANGED <<caller, died, file>>
      BY <1>5 DEF write_waits
    <2>2. WaitsOrFails(prog)
      BY <1>1, <1>2, <2>1 DEF WaitsOrFails, Op
    <2>3. Steady /\ "EPOLLOUT" \in Op
      BY <2>1, SteadyWhen DEF Op
    <2> QED
      BY <1>1, <1>2, <2>1, <2>2, <2>3, FdWaits
  <1> QED
    BY <1>3, <1>4, <1>5 DEF write

\* The elements that work on buffers, or hand one struct for another.
LEMMA FdWorks ==
  ASSUME ClientsInv, FdInv, NEW j \in {"conn", "rand", "pipe"},
         NEW kind \in {"newlineA", "greetingA", "httpreqA", "printA", "echoA",
                       "promptA", "countA"},
         NEW left, works(prog, j, kind, left),
         UNCHANGED <<tcpVars, timerVars, tunVars, prog>>
  PROVE  FdInv'
  <1>1. /\ Runs(prog, j, kind) /\ returnA(prog, j) /\ j \in Jobs
        /\ UNCHANGED <<waitVars, caller, status, file, immediate, prog>>
        /\ kind \notin DOMAIN Hands
    BY NameFacts DEF works, tcpVars, Hands
  <1>2. Returns(prog) /\ ~Restarted /\ Net[prog][current[prog]] = kind
    BY <1>1, ReturnsOn, NotRestarted, RunsFacts
  <1> QED
    BY <1>1, <1>2, SteadyWhen, FdPasses

LEMMA FdSays ==
  ASSUME ClientsInv, FdInv, NEW kind \in {"promptA", "countA"}, says(prog, kind),
         UNCHANGED <<tcpVars, timerVars, tunVars, prog>>
  PROVE  FdInv'
  <1>1. CASE works(prog, "pipe", kind, {data})
    BY <1>1, FdWorks
  <1>2. CASE Runs(prog, "pipe", kind) /\ UNCHANGED <<waitVars, control, status, file>>
    BY <1>2, SteadyWhen, FdStays DEF Runs
  <1> QED
    BY <1>1, <1>2 DEF says

LEMMA FdHands ==
  ASSUME ClientsInv, FdInv, hand(prog) \/ confused(prog),
         UNCHANGED <<tcpVars, timerVars, tunVars, prog>>
  PROVE  FdInv'
  <1>1. CASE hand(prog)
    <2>0. PICK kind \in DOMAIN Hands :
            \E j \in Takes(kind) : Runs(prog, j, kind) /\ returnA(prog, Hands[kind])
      BY <1>1 DEF hand
    <2>1. PICK j \in Takes(kind) : Runs(prog, j, kind) /\ returnA(prog, Hands[kind])
      BY <2>0
    <2>2. /\ kind # "timerA" \/ j = "ctx"
          /\ kind \notin {"connectA", "timeropenA", "randopenA"}
      BY <2>1, NameFacts DEF Hands, Takes
    <2>3. j \in Jobs
      BY <2>1, NameFacts DEF Hands, Takes
    <2>4. /\ OnElement(prog) /\ Net[prog][current[prog]] = kind
          /\ UNCHANGED <<waitVars, caller, status, file, immediate, prog>>
      BY <1>1, <2>1, <2>3, RunsFacts DEF hand, tcpVars
    <2>5. Returns(prog) /\ ~Restarted
      BY <2>1, <2>2, <2>3, <2>4, NotRestarted DEF Returns, Handed
    <2> QED
      BY <2>2, <2>4, <2>5, SteadyWhen, FdPasses
  <1>2. CASE confused(prog)
    BY <1>2, SteadyWhen, FdStays DEF confused
  <1> QED
    BY <1>1, <1>2

\* The random device.
LEMMA FdRand ==
  ASSUME ClientsInv, FdInv, randopenA(prog) \/ randreadA(prog) \/ randencA(prog),
         UNCHANGED <<tcpVars, timerVars, tunVars, prog>>
  PROVE  FdInv'
  <1>1. PICK kind \in {"randopenA", "randreadA", "randencA"} :
          /\ Runs(prog, "rand", kind)
          /\ kind = "randopenA" => randopenA(prog)
          /\ kind = "randreadA" => randreadA(prog)
          /\ kind = "randencA" => randencA(prog)
    BY DEF randopenA, randreadA, randencA, Runs
  <1>2. /\ OnElement(prog) /\ Alive /\ run = "rand" /\ current[prog] # 0 /\ ~Restarted
        /\ Net[prog][current[prog]] = kind /\ kind \notin DOMAIN Hands
        /\ "rand" \in Jobs /\ "rand" \in Fds /\ immediate' = immediate
        /\ file \in [Fds -> File]
    BY <1>1, RunsFacts, NotRestarted, NameFacts, FdTypes DEF Hands, tcpVars
  <1>3. CASE fails(prog)
    <2>1. Fails(prog) /\ UNCHANGED <<file, armed>>
      BY <1>2, <1>3 DEF fails, Fails, waitVars
    <2> QED
      BY <1>2, <2>1, SteadyWhen, FdFails
  <1>4. CASE /\ file' = [file EXCEPT !["rand"].open = TRUE]
             /\ returnA(prog, "rand")
             /\ UNCHANGED <<waitVars, caller, status>>
             /\ kind = "randopenA"
    <2>1. Returns(prog)
      BY <1>1, <1>2, <1>4, ReturnsOn
    <2>2. /\ file'["rand"].open
          /\ \A fd \in Fds : fd # "rand" => file'[fd] = file[fd]
      BY <1>2, <1>4 DEF File
    <2>3. /\ current'[prog] = Following(prog, current[prog])
          /\ run' = NULL => current'[prog] = 0
          /\ prog = "tlsclient" => current'[prog] # 0
          /\ UNCHANGED <<epfd, armed, batch, status>> /\ epfd = "open" /\ run # NULL
      BY <2>1, ReturnPlace
    <2>4. UNCHANGED <<tcpstatus, tries, sockets, immediate, timerstatus, calls, tunfds>>
      BY DEF tcpVars, timerVars, tunVars
    <2>5. OpeningInv /\ ImmediateInv
      BY DEF FdInv
    <2>6. OpeningInv'
      <3>1. ~Unset /\ calls # AllCalls
        BY <1>2, <2>3, <2>5 DEF OpeningInv
      <3>2. ~Unset' /\ file'["tun"].open = file["tun"].open
        BY <2>2, <2>4, <3>1, NameFacts DEF Unset
      <3> QED
        BY <2>4, <2>5, <3>1, <3>2, OpeningStays
    <2>7. \A fd \in Devices : Net[prog][current[prog]] = Opener[fd] => file'[fd].open
      BY <1>2, <1>4, <2>2 DEF Devices, Opener
    <2>8. \A fd \in Devices : Net[prog][current[prog]] # Opener[fd] =>
            file'[fd].open = file[fd].open /\ (Fresh(fd) => Fresh(fd)')
      <3>1. file'["conn"] = file["conn"] /\ file'["timer"] = file["timer"]
        BY <2>2, NameFacts
      <3>2. /\ Fresh("conn") => Fresh("conn")'
            /\ Fresh("timer") => Fresh("timer")'
        BY <2>4, <3>1 DEF Fresh
      <3>3. \A fd \in Devices : Net[prog][current[prog]] # Opener[fd] =>
              fd = "conn" \/ fd = "timer"
        BY <1>2, <1>4 DEF Devices, Opener
      <3> QED
        BY <3>1, <3>2, <3>3
    <2>9. immediate' => prog \in {"echoclient", "tlsclient"}
      BY <2>4, <2>5 DEF ImmediateInv
    <2>10. \A fd \in Fds : file[fd].open => file'[fd].open
      BY <2>2
    <2> QED
      BY <1>2, <2>2, <2>3, <2>6, <2>7, <2>8, <2>9, <2>10, FdGoes, NameFacts
  <1>5. CASE /\ kind \in {"randreadA", "randencA"}
             /\ returnA(prog, "rand")
             /\ UNCHANGED <<waitVars, caller, status, file>>
    <2>1. Returns(prog)
      BY <1>1, <1>2, <1>5, ReturnsOn
    <2> QED
      BY <1>2, <1>5, <2>1, SteadyWhen, FdPasses
  <1>6. CASE UNCHANGED <<waitVars, run, current, caller, status, file>>
    BY <1>2, <1>6, SteadyWhen, FdStays DEF control
  <1> QED
    BY <1>1, <1>3, <1>4, <1>5, <1>6 DEF randopenA, randreadA, randencA

\* OpenSSL does not close its connection.
LEMMA SslOpen ==
  ASSUME ClientsInv,
         \/ SSL_done \/ SSL_breaks \/ UNCHANGED file \/ Take
         \/ \E want \in {"EPOLLIN", "EPOLLOUT"} : SSL_wants(want),
         UNCHANGED <<tcpVars, timerVars, tunVars, prog>>
  PROVE  Steady
  <1>1. file \in [Fds -> File] /\ "conn" \in Fds
    BY FdTypes, NameFacts
  <1>2. UNCHANGED file \/ Take
    BY DEF SSL_done, SSL_breaks, SSL_wants
  <1>3. \A fd \in Fds : file'[fd].open = file[fd].open
    <2>1. CASE Take
      <3>1. PICK room : file' = [file EXCEPT !["conn"].in = @ - 1, !["conn"].room = room]
        BY <2>1 DEF Take
      <3>2. file["conn"] \in File
        BY <1>1
      <3>3. PICK f : f = [file["conn"] EXCEPT !.in = @ - 1, !.room = room]
        OBVIOUS
      <3>4. f.open = file["conn"].open
        BY <3>2, <3>3 DEF File
      <3>5. file' = [file EXCEPT !["conn"] = f]
        BY <1>1, <3>1, <3>3
      <3> QED
        BY <1>1, <3>4, <3>5
    <2> QED
      BY <1>2, <2>1
  <1> QED
    BY <1>3, SteadyWhen

\* The elements of tlsclient.
LEMMA TlsOpen ==
  ASSUME ClientsInv, FdInv, NEW kind \in {"tlsA", "tlswriteA", "tlsreadA"},
         Runs(prog, "conn", kind), UNCHANGED <<tcpVars, prog>>
  PROVE  /\ OnElement(prog) /\ Alive /\ run = "conn" /\ Net[prog][current[prog]] = kind
         /\ ~Restarted /\ file["conn"].open /\ "conn" \in Jobs /\ "conn" \in Fds
         /\ kind \in WaitKinds \ {"connectA"} /\ kind \notin DOMAIN Hands
         /\ kind \notin {"connectA", "timeropenA", "randopenA"} /\ immediate' = immediate
  <1>1. "conn" \in Devices /\ kind \in UsersOf["conn"]
    BY DEF Devices, UsersOf
  <1>2. file["conn"].open
    BY <1>1, UserOpen
  <1> QED
    BY <1>2, RunsFacts, NotRestarted, NameFacts DEF WaitKinds, Hands, tcpVars

LEMMA FdTls ==
  ASSUME ClientsInv, FdInv, NEW kind \in {"tlsA", "tlswriteA", "tlsreadA"},
         Runs(prog, "conn", kind), Steady, caller' = caller,
         UNCHANGED <<tcpVars, prog>>,
         \/ returnA(prog, "conn") /\ UNCHANGED <<waitVars, status>>
         \/ (\E op \in Op : waits(prog, "conn", "conn", op)) /\ UNCHANGED died
         \/ errorA(prog) /\ UNCHANGED <<waitVars, died>>
         \/ UNCHANGED <<waitVars, run, current, status>>
  PROVE  FdInv'
  <1>1. /\ OnElement(prog) /\ Alive /\ run = "conn" /\ Net[prog][current[prog]] = kind
        /\ ~Restarted /\ file["conn"].open /\ "conn" \in Jobs /\ "conn" \in Fds
        /\ kind \in WaitKinds \ {"connectA"} /\ kind \notin DOMAIN Hands
        /\ kind \notin {"connectA", "timeropenA", "randopenA"} /\ immediate' = immediate
    BY TlsOpen
  <1>2. CASE returnA(prog, "conn") /\ UNCHANGED <<waitVars, status>>
    <2>1. Returns(prog)
      BY <1>1, <1>2, ReturnsOn
    <2> QED
      BY <1>1, <2>1, FdPasses
  <1>3. CASE (\E op \in Op : waits(prog, "conn", "conn", op)) /\ UNCHANGED died
    <2>1. PICK op \in Op : waits(prog, run, "conn", op)
      BY <1>1, <1>3
    <2>2. WaitsOrFails(prog)
      BY <1>1, <1>3, <2>1 DEF WaitsOrFails
    <2> QED
      BY <1>1, <2>1, <2>2, FdWaits
  <1>4. CASE errorA(prog) /\ UNCHANGED <<waitVars, died>>
    <2>1. Fails(prog) /\ armed' = armed
      BY <1>1, <1>4 DEF Fails, waitVars
    <2> QED
      BY <1>1, <2>1, FdFails
  <1>5. CASE UNCHANGED <<waitVars, run, current, status>>
    BY <1>1, <1>5, FdStays DEF control
  <1> QED
    BY <1>2, <1>3, <1>4, <1>5

LEMMA FdTlsStep ==
  ASSUME ClientsInv, FdInv,
         \/ openssl_prepare_fails(prog) \/ tlsA(prog) \/ tlswriteA(prog)
         \/ tlsreadA_data(prog) \/ tlsreadA_waits(prog),
         UNCHANGED <<tcpVars, timerVars, tunVars, prog>>
  PROVE  FdInv'
  <1>1. "EPOLLIN" \in Op /\ "EPOLLOUT" \in Op
    BY DEF Op
  <1>2. CASE openssl_prepare_fails(prog)
    <2>1. Runs(prog, "conn", "tlsA") /\ errorA(prog)
          /\ UNCHANGED <<waitVars, caller, died, file>>
      BY <1>2 DEF openssl_prepare_fails, fails
    <2> QED
      BY <2>1, SslOpen, FdTls
  <1>3. CASE tlsA(prog)
    <2>1. /\ Runs(prog, "conn", "tlsA") /\ caller' = caller
          /\ \/ SSL_done \/ SSL_breaks
             \/ \E want \in {"EPOLLIN", "EPOLLOUT"} : SSL_wants(want)
          /\ \/ returnA(prog, "conn") /\ UNCHANGED <<waitVars, status>>
             \/ (\E op \in Op : waits(prog, "conn", "conn", op)) /\ UNCHANGED died
             \/ errorA(prog) /\ UNCHANGED <<waitVars, died>>
      BY <1>1, <1>3 DEF tlsA
    <2> QED
      BY <2>1, SslOpen, FdTls
  <1>4. CASE tlswriteA(prog)
    <2>1. CASE fails(prog)
      <3>1. Runs(prog, "conn", "tlswriteA") /\ errorA(prog)
            /\ UNCHANGED <<waitVars, caller, died, file>>
        BY <1>4, <2>1 DEF tlswriteA, fails
      <3> QED
        BY <3>1, SslOpen, FdTls
    <2>2. CASE tlswriteA_data(prog)
      <3>1. /\ Runs(prog, "conn", "tlswriteA") /\ caller' = caller
            /\ \/ SSL_done \/ SSL_breaks \/ UNCHANGED file
               \/ \E want \in {"EPOLLIN", "EPOLLOUT"} : SSL_wants(want)
            /\ \/ returnA(prog, "conn") /\ UNCHANGED <<waitVars, status>>
               \/ (\E op \in Op : waits(prog, "conn", "conn", op)) /\ UNCHANGED died
               \/ UNCHANGED <<waitVars, run, current, status>>
        BY <1>1, <1>4, <2>2 DEF tlswriteA, tlswriteA_data
      <3> QED
        BY <3>1, SslOpen, FdTls
    <2> QED
      BY <1>4, <2>1, <2>2 DEF tlswriteA
  <1>5. CASE tlsreadA_data(prog)
    <2>1. /\ Runs(prog, "conn", "tlsreadA") /\ caller' = caller /\ Take
          /\ returnA(prog, "conn") /\ UNCHANGED <<waitVars, status>>
      BY <1>5 DEF tlsreadA_data
    <2> QED
      BY <2>1, SslOpen, FdTls
  <1>6. CASE tlsreadA_waits(prog)
    <2>1. /\ Runs(prog, "conn", "tlsreadA") /\ caller' = caller
          /\ SSL_breaks \/ UNCHANGED file \/ Take
          /\ (\E op \in Op : waits(prog, "conn", "conn", op)) /\ UNCHANGED died
      BY <1>1, <1>6 DEF tlsreadA_waits
    <2> QED
      BY <2>1, SslOpen, FdTls
  <1> QED
    BY <1>2, <1>3, <1>4, <1>5, <1>6

-----------------------------------------------------------------------------
(* The elements that open descriptors.                                     *)

\* The place of such an element.  Neither a connection nor a timer is opened
\* after a connect that has succeeded at once.
LEMMA OpenerPlace ==
  ASSUME ClientsInv, FdInv, NEW fd \in {"conn", "timer"}, Runs(prog, fd, Opener[fd])
  PROVE  /\ OnElement(prog) /\ Alive /\ run = fd /\ run # NULL /\ run # "ctx"
         /\ Net[prog][current[prog]] = Opener[fd] /\ Opener[fd] \notin DOMAIN Hands
         /\ current[prog] # 0 /\ current[prog] = OpensAt[prog][fd] /\ ~Restarted
         /\ prog \in {"echoclient", "tlsclient"} /\ (fd = "timer" => prog = "echoclient")
         /\ fd = "conn" => Fresh("conn") \/ Connecting
         /\ ~immediate /\ calls # AllCalls
  <1>1. fd \in Jobs /\ fd \in Devices /\ Opener[fd] \in {"connectA", "timeropenA"}
    BY NameFacts DEF Devices, Opener
  <1>2. /\ OnElement(prog) /\ Alive /\ run = fd /\ run # NULL /\ run # "ctx"
        /\ Net[prog][current[prog]] = Opener[fd] /\ Opener[fd] \notin DOMAIN Hands
        /\ current[prog] # 0 /\ ~Restarted
    BY <1>1, RunsFacts, NotRestarted, NameFacts DEF Hands
  <1>3. /\ prog \in Circuits /\ current[prog] \in 1..Len(Net[prog])
        /\ current[prog] = OpensAt[prog][fd]
    BY <1>1, <1>2, PlaceOf
  <1>4. /\ prog \in {"echoclient", "tlsclient"}
        /\ fd = "timer" => prog = "echoclient" /\ current[prog] = 2
    <2>1. prog \in {"random", "echoshell", "tunnel"} => OpensAt[prog][fd] = 0
      BY DEF OpensAt, ClientCircuits
    <2>2. prog = "tlsclient" /\ fd = "timer" => OpensAt[prog][fd] = 0
      BY DEF OpensAt, ClientCircuits
    <2>3. prog = "echoclient" /\ fd = "timer" => OpensAt[prog][fd] = 2
      BY DEF OpensAt, ClientCircuits
    <2> QED
      BY <1>2, <1>3, <2>1, <2>2, <2>3, NameFacts DEF ClientCircuits
  <1>5. fd = "conn" => Fresh("conn") \/ Connecting
    BY <1>1, <1>2, <1>3 DEF FdInv, PlaceInv
  <1>6. fd = "timer" => Fresh("conn")
    <2>1. OpensAt["echoclient"]["conn"] = 5 /\ "conn" \in Devices
      BY DEF OpensAt, ClientCircuits, Devices
    <2> QED
      BY <1>2, <1>4, <2>1 DEF FdInv, PlaceInv
  <1>7. ~immediate
    BY <1>5, <1>6 DEF Fresh, Connecting
  <1>8. calls # AllCalls
    BY <1>2 DEF FdInv, OpeningInv
  <1> QED
    BY <1>2, <1>3, <1>4, <1>5, <1>7, <1>8

\* Where its RETURN_A leads.
LEMMA OpenerReturns ==
  ASSUME ClientsInv, NEW j \in Jobs, NEW kind, Runs(prog, j, kind), returnA(prog, j),
         prog' = prog
  PROVE  /\ current'[prog] = Following(prog, current[prog])
         /\ run' = NULL => current'[prog] = 0
         /\ prog = "tlsclient" => current'[prog] # 0
  <1>1. current[prog] # 0 /\ j # NULL
    BY RunsFacts, NameFacts
  <1>2. /\ current'[prog] = Following(prog, current[prog])
        /\ run' = IF current'[prog] = 0 THEN NULL ELSE j
    BY <1>1, ReturnFacts DEF ClientsInv, ControlInv
  <1> QED
    BY <1>1, <1>2, PlaceOf, TlsclientOpens

\* It fails: what is closed was not waited for.
LEMMA OpenerFails ==
  ASSUME ClientsInv, FdInv, NEW fd \in {"conn", "timer"}, Runs(prog, fd, Opener[fd]),
         errorA(prog), UNCHANGED <<epfd, batch, prog>>,
         armed' = armed \/ armed' = [armed EXCEPT !["conn"] = NULL],
         immediate' => prog \in {"echoclient", "tlsclient"},
         OpeningInv'
  PROVE  FdInv'
  <1>1. OnElement(prog) /\ ~immediate /\ run # NULL /\ epfd = "open"
    BY OpenerPlace DEF Alive
  <1>2. batch = {} /\ \A g \in Fds : armed[g] = NULL
    BY <1>1, NobodyWaits DEF ClientsInv
  <1>3. \A g \in Fds : armed'[g] = NULL
    BY <1>2, FdTypes
  <1> QED
    BY <1>1, <1>2, <1>3, ErrorPlace, FdEnds

\* The timer.
LEMMA FdTimerOpens ==
  ASSUME ClientsInv, FdInv, timeropenA(prog), UNCHANGED <<tcpVars, tunVars, prog>>
  PROVE  FdInv'
  <1>1. /\ Runs(prog, "timer", "timeropenA") /\ ~Unset
        /\ UNCHANGED <<waitVars, caller, timerstatus>>
        /\ UNCHANGED <<tcpstatus, tries, sockets, immediate, calls, tunfds>>
    BY DEF timeropenA, timerVars, tcpVars, tunVars
  <1>2. /\ Alive /\ run = "timer" /\ run # NULL /\ ~Restarted /\ calls # AllCalls
        /\ current[prog] # 0 /\ Net[prog][current[prog]] = "timeropenA"
        /\ Opener["timer"] = "timeropenA" /\ ~immediate
    BY <1>1, OpenerPlace DEF Opener
  <1>3. OpeningInv /\ PlaceInv
    BY DEF FdInv
  <1>4. CASE /\ file' = [file EXCEPT !["timer"].open = TRUE]
             /\ UNCHANGED <<run, current, status>>
    <2>1. /\ \A fd \in Fds : fd # "timer" => file'[fd] = file[fd]
          /\ file'["timer"].open
      BY <1>4, FdTypes, NameFacts DEF File
    <2>2. file'["conn"] = file["conn"] /\ file'["rand"] = file["rand"]
          /\ file'["tun"] = file["tun"]
      BY <2>1, NameFacts
    <2>3. OpeningInv'
      BY <1>1, <1>2, <1>3, <1>4, <2>2, OpeningStays
    <2>4. /\ \A fd \in Devices : Fresh(fd) => Fresh(fd)'
          /\ Connecting' <=> Connecting
      BY <1>1, <2>2 DEF Fresh, Devices, Connecting
    <2>5. PlaceInv'
      BY <1>2, <1>3, <1>4, <2>1, <2>4, PlaceStays
    <2>6. UNCHANGED control
      BY <1>1, <1>4 DEF control
    <2> QED
      BY <1>1, <1>2, <1>4, <2>1, <2>3, <2>5, <2>6, FdHere
  <1>5. CASE errorA(prog) /\ UNCHANGED file
    <2>1. ~Unset'
      BY <1>1, <1>5 DEF Unset
    <2>2. OpeningInv'
      BY <1>1, <1>2, <1>3, <1>5, <2>1, OpeningStays
    <2> QED
      BY <1>1, <1>2, <1>5, <2>2, OpenerFails DEF waitVars
  <1> QED
    BY <1>4, <1>5 DEF timeropenA

LEMMA FdTimerSet ==
  ASSUME ClientsInv, FdInv, timeropenA_set(prog), UNCHANGED <<tcpVars, tunVars, prog>>
  PROVE  FdInv'
  <1>1. /\ Runs(prog, "timer", "timeropenA") /\ Unset
        /\ UNCHANGED <<waitVars, caller>>
        /\ UNCHANGED <<tcpstatus, tries, sockets, immediate, calls, tunfds>>
    BY DEF timeropenA_set, tcpVars, tunVars
  <1>2. /\ Alive /\ run = "timer" /\ run # NULL /\ ~Restarted /\ calls # AllCalls
        /\ current[prog] # 0 /\ Net[prog][current[prog]] = "timeropenA"
        /\ Opener["timer"] = "timeropenA" /\ ~immediate /\ "timer" \in Jobs
        /\ UNCHANGED <<epfd, armed, batch>> /\ epfd = "open"
    BY <1>1, OpenerPlace, NameFacts DEF Opener, waitVars, Alive
  <1>3. OpeningInv
    BY DEF FdInv
  <1>4. CASE /\ timerstatus' = "IDLE" /\ returnA(prog, "timer")
             /\ UNCHANGED <<status, file>>
    <2>1. ~Unset' /\ file'["timer"].open
      BY <1>1, <1>4 DEF Unset
    <2>2. OpeningInv'
      BY <1>1, <1>2, <1>3, <1>4, <2>1, OpeningStays
    <2>3. /\ Fresh("conn") => Fresh("conn")'
          /\ Fresh("rand") => Fresh("rand")'
      BY <1>1, <1>4 DEF Fresh
    <2>4. \A fd \in Devices : Net[prog][current[prog]] # Opener[fd] =>
            fd = "conn" \/ fd = "rand"
      BY <1>2 DEF Devices
    <2>5. \A fd \in Devices : Net[prog][current[prog]] = Opener[fd] => fd = "timer"
      BY <1>2 DEF Devices, Opener
    <2>6. /\ current'[prog] = Following(prog, current[prog])
          /\ run' = NULL => current'[prog] = 0
          /\ prog = "tlsclient" => current'[prog] # 0
      BY <1>1, <1>2, <1>4, OpenerReturns
    <2> QED
      BY <1>1, <1>2, <1>4, <2>1, <2>2, <2>3, <2>4, <2>5, <2>6, FdGoes
  <1>5. CASE errorA(prog) /\ file' = [file EXCEPT !["timer"] = Closed]
    <2>1. ~file'["timer"].open /\ file'["tun"] = file["tun"]
      BY <1>5, FdTypes, NameFacts DEF Closed
    <2>2. ~Unset'
      BY <2>1 DEF Unset
    <2>3. OpeningInv'
      BY <1>1, <1>2, <1>3, <2>1, <2>2, OpeningStays
    <2> QED
      BY <1>1, <1>2, <1>5, <2>3, OpenerFails
  <1> QED
    BY <1>4, <1>5 DEF timeropenA_set

LEMMA FdSleep ==
  ASSUME ClientsInv, FdInv, timersleepA_first(prog) \/ timersleepA(prog),
         UNCHANGED <<tcpVars, tunVars, prog>>
  PROVE  FdInv'
  <1>1. /\ Runs(prog, "timer", "timersleepA") /\ caller' = caller
        /\ timerstatus # "none" /\ timerstatus' # "none"
    BY DEF timersleepA_first, timersleepA, timerVars
  <1>2. "timer" \in Devices /\ "timersleepA" \in UsersOf["timer"]
    BY DEF Devices, UsersOf
  <1>3. /\ OnElement(prog) /\ run = "timer" /\ Net[prog][current[prog]] = "timersleepA"
        /\ ~Restarted /\ file["timer"].open /\ "timer" \in Jobs /\ "timer" \in Fds
        /\ "timersleepA" \in WaitKinds \ {"connectA"} /\ "timersleepA" \notin DOMAIN Hands
        /\ immediate' = immediate /\ current[prog] # 0
    BY <1>1, <1>2, UserOpen, RunsFacts, NotRestarted, NameFacts DEF WaitKinds, Hands, tcpVars
  <1>4. prog # "tlsclient"
    BY <1>3, PlaceOf, TlsclientOpens
  <1>5. ASSUME \A fd \in Fds : file'[fd].open = file[fd].open
        PROVE  Steady
    BY <1>1, <1>5 DEF Steady
  <1>6. CASE waits(prog, "timer", "timer", "EPOLLIN") /\ UNCHANGED <<died, file>>
    <2>1. WaitsOrFails(prog) /\ "EPOLLIN" \in Op
      BY <1>1, <1>3, <1>6 DEF WaitsOrFails, Op
    <2>2. Steady
      BY <1>5, <1>6
    <2> QED
      BY <1>3, <1>4, <1>6, <2>1, <2>2, FdWaits
  <1>7. CASE /\ file' = [file EXCEPT !["timer"].in = 0]
             /\ returnA(prog, "timer") /\ UNCHANGED <<waitVars, status>>
    <2>1. Returns(prog)
      BY <1>1, <1>3, <1>7, ReturnsOn
    <2>2. Steady
      BY <1>3, <1>5, <1>7, OpenKept, FdTypes
    <2> QED
      BY <1>3, <2>1, <2>2, FdPasses
  <1>8. CASE errorA(prog) /\ UNCHANGED <<waitVars, died, file>>
    <2>1. Fails(prog) /\ armed' = armed
      BY <1>1, <1>3, <1>8 DEF Fails, waitVars
    <2>2. Steady
      BY <1>5, <1>8
    <2> QED
      BY <1>3, <2>1, <2>2, FdFails
  <1> QED
    BY <1>6, <1>7, <1>8 DEF timersleepA_first, timersleepA

\* connectA: the names of what its steps leave alone.
LEMMA ConnectFacts ==
  ASSUME ClientsInv, FdInv, Runs(prog, "conn", "connectA"),
         UNCHANGED <<timerVars, tunVars, prog>>
  PROVE  /\ OnElement(prog) /\ Alive /\ epfd = "open" /\ run = "conn" /\ run # NULL
         /\ current[prog] # 0 /\ current[prog] = OpensAt[prog]["conn"] /\ ~Restarted
         /\ Net[prog][current[prog]] = "connectA"
         /\ prog \in {"echoclient", "tlsclient"} /\ ~immediate /\ calls # AllCalls
         /\ UNCHANGED <<timerstatus, calls, tunfds>> /\ ~Unset
         /\ Fresh("conn") \/ Connecting
         /\ "conn" \in Fds /\ "conn" \in Jobs /\ Opener["conn"] = "connectA"
         /\ OpeningInv /\ PlaceInv /\ file \in [Fds -> File]
  <1>1. Opener["conn"] = "connectA"
    BY DEF Opener
  <1>2. /\ OnElement(prog) /\ Alive /\ run = "conn" /\ run # NULL
        /\ current[prog] # 0 /\ current[prog] = OpensAt[prog]["conn"] /\ ~Restarted
        /\ Net[prog][current[prog]] = "connectA"
        /\ prog \in {"echoclient", "tlsclient"} /\ ~immediate /\ calls # AllCalls
        /\ Fresh("conn") \/ Connecting
    BY <1>1, OpenerPlace
  <1>3. OpeningInv /\ PlaceInv
    BY DEF FdInv
  <1>4. ~Unset
    BY <1>2, <1>3 DEF OpeningInv
  <1> QED
    BY <1>1, <1>2, <1>3, <1>4, NameFacts, FdTypes DEF timerVars, tunVars, Alive

\* Opening goes on while connectA runs, with at most one socket.
LEMMA ConnectOpening ==
  ASSUME ClientsInv, FdInv, Runs(prog, "conn", "connectA"),
         UNCHANGED <<timerVars, tunVars, prog>>,
         sockets' \subseteq {tries'},
         \A fd \in Fds : fd # "conn" => file'[fd] = file[fd]
  PROVE  OpeningInv'
  <1>1. /\ UNCHANGED <<timerstatus, calls, tunfds>> /\ ~Unset /\ calls # AllCalls
        /\ OpeningInv
    BY ConnectFacts
  <1>2. file'["timer"] = file["timer"] /\ file'["tun"] = file["tun"]
    BY NameFacts
  <1>3. ~Unset'
    BY <1>1, <1>2 DEF Unset
  <1> QED
    BY <1>1, <1>2, <1>3 DEF OpeningInv

LEMMA FdConnect ==
  ASSUME ClientsInv, FdInv,
         connectA(prog) \/ connectA_socket(prog) \/ connectA_refused(prog),
         UNCHANGED <<timerVars, tunVars, prog>>
  PROVE  FdInv'
  <1>1. /\ Runs(prog, "conn", "connectA")
        /\ errorA(prog) \/ goes_on
        /\ UNCHANGED <<waitVars, caller, died, file, tcpstatus, immediate>>
    BY DEF connectA, connectA_socket, connectA_refused, next_address
  <1>2. /\ Alive /\ ~Restarted /\ ~immediate /\ UNCHANGED timerstatus
        /\ Opener["conn"] = "connectA" /\ OpeningInv /\ PlaceInv
    BY <1>1, ConnectFacts
  <1>3. sockets' \subseteq {tries'}
    <2>1. sockets \subseteq {tries} /\ \A i \in sockets : i # 0
      BY <1>2, TriesFacts DEF OpeningInv
    <2>2. CASE connectA(prog)
      BY <2>1, <2>2 DEF connectA
    <2>3. CASE connectA_socket(prog)
      BY <2>1, <2>3 DEF connectA_socket
    <2>4. CASE connectA_refused(prog)
      BY <2>1, <2>4 DEF connectA_refused
    <2> QED
      BY <2>2, <2>3, <2>4
  <1>4. OpeningInv'
    BY <1>1, <1>3, ConnectOpening
  <1>5. CASE errorA(prog)
    BY <1>1, <1>2, <1>4, <1>5, OpenerFails DEF waitVars
  <1>6. CASE goes_on
    <2>1. UNCHANGED <<run, current, caller, status>> /\ UNCHANGED control
      BY <1>1, <1>6 DEF goes_on, control
    <2>2. /\ \A fd \in Devices : Fresh(fd) => Fresh(fd)'
          /\ Connecting' <=> Connecting
      BY <1>1, <1>2 DEF Fresh, Devices, Connecting
    <2>3. PlaceInv'
      BY <1>1, <1>2, <2>1, <2>2, PlaceStays
    <2> QED
      BY <1>1, <1>2, <1>4, <2>1, <2>3, FdHere
  <1> QED
    BY <1>1, <1>5, <1>6

LEMMA FdConnectWaits ==
  ASSUME ClientsInv, FdInv, connectA_waits(prog), UNCHANGED <<timerVars, tunVars, prog>>
  PROVE  FdInv'
  <1>1. /\ Runs(prog, "conn", "connectA") /\ waits(prog, "conn", "conn", "EPOLLOUT")
        /\ file' = [file EXCEPT !["conn"] = NewSocket]
        /\ tcpstatus' = "_CONNECTING" /\ tries' = 0 /\ sockets' = sockets \ {tries}
        /\ UNCHANGED <<caller, died, immediate>>
    BY DEF connectA_waits, takes
  <1>2. /\ OnElement(prog) /\ run = "conn" /\ ~Restarted /\ ~immediate
        /\ UNCHANGED timerstatus /\ Net[prog][current[prog]] = "connectA"
        /\ current[prog] = OpensAt[prog]["conn"] /\ PlaceInv /\ OpeningInv
        /\ "conn" \in Fds /\ file \in [Fds -> File]
    BY <1>1, ConnectFacts
  <1>3. /\ file'["conn"].open /\ \A fd \in Fds : fd # "conn" => file'[fd] = file[fd]
        /\ "EPOLLOUT" \in Op /\ "connectA" \in WaitKinds
    BY <1>1, <1>2 DEF NewSocket, Closed, Op, WaitKinds
  <1>4. sockets' \subseteq {tries'}
    BY <1>1, <1>2 DEF OpeningInv
  <1>5. OpeningInv'
    BY <1>1, <1>3, <1>4, ConnectOpening
  <1>6. WaitsOrFails(prog)
    BY <1>1, <1>2, <1>3 DEF WaitsOrFails
  <1>7. Connecting'
    BY <1>1, <1>2, <1>3 DEF Connecting
  <1>8. \A fd \in Devices : (Fresh(fd) => Fresh(fd)') \/ fd = "conn"
    <2>1. file'["timer"] = file["timer"] /\ file'["rand"] = file["rand"]
      BY <1>3, NameFacts
    <2> QED
      BY <1>2, <2>1 DEF Fresh, Devices
  <1>9. current' = current => PlaceInv'
    BY <1>2, <1>3, <1>7, <1>8, PlaceStays
  <1> QED
    BY <1>1, <1>2, <1>3, <1>5, <1>6, <1>9, FdArms

\* The end of _connect_continue.
LEMMA FdConnected ==
  ASSUME ClientsInv, FdInv, Runs(prog, "conn", "connectA"), Connected(prog),
         UNCHANGED <<waitVars, timerVars, tunVars, prog>>,
         sockets' \subseteq {tries'}, file'["conn"].open,
         \A fd \in Fds : fd # "conn" => file'[fd] = file[fd]
  PROVE  FdInv'
  <1>1. /\ Alive /\ epfd = "open" /\ run = "conn" /\ run # NULL /\ current[prog] # 0
        /\ ~Restarted /\ Net[prog][current[prog]] = "connectA"
        /\ prog \in {"echoclient", "tlsclient"} /\ UNCHANGED timerstatus
        /\ "conn" \in Jobs /\ Opener["conn"] = "connectA"
    BY ConnectFacts
  <1>2. OpeningInv' /\ UNCHANGED <<epfd, armed, batch>>
    BY ConnectOpening DEF waitVars
  <1>3. CASE returnA(prog, "conn") /\ UNCHANGED status
    <2>1. /\ current'[prog] = Following(prog, current[prog])
          /\ run' = NULL => current'[prog] = 0
          /\ prog = "tlsclient" => current'[prog] # 0
      BY <1>1, <1>3, OpenerReturns
    <2>2. file'["timer"] = file["timer"] /\ file'["rand"] = file["rand"]
          /\ file'["stdin"] = file["stdin"] /\ file'["stdout"] = file["stdout"]
      BY NameFacts
    <2>3. \A fd \in Devices : Net[prog][current[prog]] = Opener[fd] => file'[fd].open
      BY <1>1 DEF Devices, Opener
    <2>4. \A fd \in Devices : Net[prog][current[prog]] # Opener[fd] =>
            fd = "timer" \/ fd = "rand"
      BY <1>1 DEF Devices
    <2>5. /\ Fresh("timer") => Fresh("timer")'
          /\ Fresh("rand") => Fresh("rand")'
      BY <1>1, <2>2 DEF Fresh
    <2>6. \A fd \in Devices : Net[prog][current[prog]] # Opener[fd] =>
            file'[fd].open = file[fd].open /\ (Fresh(fd) => Fresh(fd)')
      BY <2>2, <2>4, <2>5
    <2>7. \A fd \in Fds : file[fd].open => file'[fd].open
      OBVIOUS
    <2> QED
      BY <1>1, <1>2, <1>3, <2>1, <2>2, <2>3, <2>6, <2>7, FdGoes
  <1>4. CASE errorA(prog)
    BY <1>1, <1>2, <1>4, OpenerFails
  <1> QED
    BY <1>3, <1>4 DEF Connected

LEMMA FdConnectNow ==
  ASSUME ClientsInv, FdInv, connectA_now(prog), UNCHANGED <<timerVars, tunVars, prog>>
  PROVE  FdInv'
  <1>1. /\ Runs(prog, "conn", "connectA") /\ Connected(prog)
        /\ file' = [file EXCEPT !["conn"] = [NewSocket EXCEPT !.room = TRUE]]
        /\ tries' = 0 /\ sockets' = sockets \ {tries} /\ UNCHANGED waitVars
    BY DEF connectA_now, takes
  <1>2. /\ OpeningInv /\ "conn" \in Fds /\ file \in [Fds -> File]
    BY <1>1, ConnectFacts
  <1>3. /\ file'["conn"].open /\ \A fd \in Fds : fd # "conn" => file'[fd] = file[fd]
    BY <1>1, <1>2 DEF NewSocket, Closed
  <1>4. sockets' \subseteq {tries'}
    BY <1>1, <1>2 DEF OpeningInv
  <1> QED
    BY <1>1, <1>3, <1>4, FdConnected

LEMMA FdContinue ==
  ASSUME ClientsInv, FdInv, _connect_continue(prog), UNCHANGED <<timerVars, tunVars, prog>>
  PROVE  FdInv'
  <1>1. /\ Runs(prog, "conn", "connectA") /\ Connected(prog) /\ tcpstatus = "_CONNECTING"
        /\ UNCHANGED <<waitVars, file, tries, sockets>>
    BY DEF _connect_continue
  <1>2. OpeningInv /\ (Fresh("conn") \/ Connecting)
    BY <1>1, ConnectFacts
  <1>3. file["conn"].open
    BY <1>1, <1>2 DEF Fresh, Connecting
  <1>4. sockets' \subseteq {tries'}
    BY <1>1, <1>2 DEF OpeningInv
  <1> QED
    BY <1>1, <1>3, <1>4, FdConnected

LEMMA FdContinueFails ==
  ASSUME ClientsInv, FdInv, _connect_continue_fails(prog),
         UNCHANGED <<timerVars, tunVars, prog>>
  PROVE  FdInv'
  <1>1. /\ Runs(prog, "conn", "connectA") /\ errorA(prog)
        /\ \/ UNCHANGED <<file, armed>>
           \/ /\ file' = [file EXCEPT !["conn"] = Closed]
              /\ armed' = [armed EXCEPT !["conn"] = NULL]
        /\ UNCHANGED <<epfd, batch, tries, sockets, immediate>>
    BY DEF _connect_continue_fails
  <1>2. /\ OpeningInv /\ ~immediate /\ Opener["conn"] = "connectA" /\ file \in [Fds -> File]
    BY <1>1, ConnectFacts
  <1>3. \A fd \in Fds : fd # "conn" => file'[fd] = file[fd]
    BY <1>1, <1>2
  <1>4. sockets' \subseteq {tries'}
    BY <1>1, <1>2 DEF OpeningInv
  <1>5. OpeningInv'
    BY <1>1, <1>3, <1>4, ConnectOpening
  <1> QED
    BY <1>1, <1>2, <1>5, OpenerFails

\* connectA returns a second time.  The element that waits has opened nothing:
\* connectA itself does not wait then.
LEMMA FdReturnsAgain ==
  ASSUME ClientsInv, FdInv, connectA_returns(prog), UNCHANGED <<timerVars, tunVars, prog>>
  PROVE  FdInv'
  <1>1. /\ Alive /\ run = NULL /\ caller = "connectA" /\ returnA(prog, "conn")
        /\ UNCHANGED <<waitVars, status, file, tcpVars>> /\ epfd = "open"
    BY DEF connectA_returns, Alive
  <1>2. /\ immediate /\ caller # NULL /\ "conn" \in Jobs /\ "conn" # NULL
        /\ UNCHANGED <<epfd, armed, batch, tries, sockets, immediate, calls, tunfds, prog>>
        /\ UNCHANGED <<tcpstatus, timerstatus>> /\ ControlTypes
    BY <1>1, NameFacts DEF ClientsInv, ControlInv, waitVars, tcpVars, tunVars, timerVars
  <1>3. OpeningInv /\ PlaceInv /\ ArmedInv /\ ImmediateInv
    BY DEF FdInv
  <1>4. ~Unset' /\ calls # AllCalls
    BY <1>1, <1>2, <1>3, NameFacts DEF OpeningInv, Unset
  <1>5. OpeningInv'
    BY <1>1, <1>2, <1>3, <1>4, OpeningStays
  <1>6. CASE current[prog] = 0
    <2>1. UNCHANGED <<run, current>>
      BY <1>1, <1>6 DEF returnA
    <2>2. PlaceInv' /\ FreshInv'
      BY <1>1, <1>2, <1>6, <2>1 DEF PlaceInv, FreshInv
    <2>3. ArmedInv'
      BY <1>1, <1>2, <1>3, <1>6, <2>1, ArmedStays, FdTypes
    <2>4. ImmediateInv'
      BY <1>1, <1>2, <1>3, <1>6, <2>1, ImmediateStays DEF ImmediateInv
    <2> QED
      BY <1>5, <2>2, <2>3, <2>4 DEF FdInv
  <1>7. CASE current[prog] # 0
    <2>1. /\ current'[prog] = Following(prog, current[prog])
          /\ run' = NULL => current'[prog] = 0
      BY <1>1, <1>2, <1>7, ReturnFacts
    <2>2. prog = "tlsclient" => current'[prog] # 0
      BY <1>7, <2>1, PlaceOf, TlsclientOpens
    <2>3. ~Restarted /\ Net[prog][current[prog]] \in WaitKinds
      BY <1>1, <1>3, <1>7 DEF Restarted, ArmedInv
    <2>4. \A fd \in Devices : Net[prog][current[prog]] # Opener[fd]
      <3>1. Opener["conn"] = "connectA" /\ "conn" \in Devices
        BY DEF Opener, Devices
      <3>2. ~Fresh("conn") /\ ~Connecting
        BY <1>2 DEF Fresh, Connecting
      <3>3. current[prog] # OpensAt[prog]["conn"]
        BY <1>3, <1>7, <2>3, <3>1, <3>2 DEF PlaceInv
      <3>4. Net[prog][current[prog]] # "connectA"
        BY <1>7, <3>1, <3>3, PlaceOf
      <3> QED
        BY <2>3, <3>4 DEF Devices, Opener, WaitKinds
    <2>5. \A fd \in Devices : Fresh(fd) => Fresh(fd)'
      BY <1>1, <1>2 DEF Devices, Fresh
    <2>6. immediate' => prog \in {"echoclient", "tlsclient"}
      BY <1>2, <1>3 DEF ImmediateInv
    <2> QED
      BY <1>1, <1>2, <1>5, <1>7, <2>1, <2>2, <2>3, <2>4, <2>5, <2>6, FdGoes
  <1> QED
    BY <1>6, <1>7

\* tunopenA.  Its device is either being opened or known to t, and when all
\* calls have succeeded the program is done.
LEMMA FdTun ==
  ASSUME ClientsInv, FdInv,
         \/ tunopenA(prog) \/ tunopenA_set(prog)
         \/ _configure_interface(prog) \/ _configure_interface_fails(prog),
         UNCHANGED <<tcpVars, timerVars, prog>>
  PROVE  FdInv'
  <1>1. /\ Runs(prog, "tun", "tunopenA") /\ UNCHANGED <<waitVars, caller>>
        /\ \/ UNCHANGED <<run, current, status, died>>
           \/ errorA(prog) /\ UNCHANGED died
           \/ returnA(prog, "tun") /\ UNCHANGED status
    BY DEF tunopenA, tunopenA_set, _configure_interface, _configure_interface_fails,
           succeeds, gives_up
  <1>2. /\ OnElement(prog) /\ Alive /\ run = "tun" /\ run # NULL /\ current[prog] # 0
        /\ Net[prog][current[prog]] = "tunopenA" /\ ~Restarted
        /\ "tun" \in Jobs /\ "tun" \in Fds /\ file \in [Fds -> File]
    BY <1>1, RunsFacts, NotRestarted, NameFacts, FdTypes
  <1>3. prog = "tunnel" /\ current[prog] = 1 /\ Following(prog, 1) = 0
    <2>1. prog \in Circuits /\ current[prog] \in 1..Len(Net[prog])
      BY <1>2, PlaceOf
    <2>2. prog = "tunnel"
      BY <1>2, <2>1, ProgramsOpen
    <2>3. Net["tunnel"] = <<"tunopenA">> /\ Back["tunnel"] = 0
      BY ProgramsAssumption DEF ClientNet, ClientBack, ClientCircuits
    <2>4. Len(Net["tunnel"]) = 1
      BY <2>3
    <2> QED
      BY <2>1, <2>2, <2>3, <2>4 DEF Following
  <1>4. OpeningInv /\ PlaceInv /\ ImmediateInv
    BY DEF FdInv
  <1>5. ~immediate /\ ~Unset /\ calls # AllCalls
    BY <1>2, <1>3, <1>4 DEF ImmediateInv, OpeningInv
  <1>6. UNCHANGED <<tcpstatus, tries, sockets, immediate, timerstatus>>
    BY DEF tcpVars, timerVars
  <1>7. /\ epfd = "open" /\ epfd' = epfd /\ batch' = batch /\ armed' = armed
        /\ batch = {} /\ \A fd \in Fds : armed[fd] = NULL
    BY <1>1, <1>2, <1>5, NobodyWaits DEF waitVars, Alive, ClientsInv
  <1>8. \A fd \in Fds : fd # "tun" => file'[fd] = file[fd]
    BY <1>2 DEF tunopenA, tunopenA_set, _configure_interface, _configure_interface_fails
  <1>9. ~Unset'
    <2>1. file'["timer"] = file["timer"]
      BY <1>8, NameFacts
    <2> QED
      BY <1>5, <1>6, <2>1 DEF Unset
  <1>10. /\ calls \in 0..9 /\ AllCalls = 9 /\ ("device" \in tunfds => calls = 1)
         /\ (file["tun"].open => calls > 1) /\ sockets \subseteq {tries}
    BY <1>4, FdTypes DEF OpeningInv
  <1>11. CASE UNCHANGED <<run, current, status, died>>
    <2>1. /\ "device" \in tunfds' => calls' = 1
          /\ file'["tun"].open => calls' > 1
          /\ calls' # AllCalls /\ (file["tun"].open => file'["tun"].open)
      <3>1. CASE tunopenA(prog)
        BY <1>2, <1>5, <1>10, <1>11, <3>1 DEF tunopenA, gives_up, errorA
      <3>2. CASE tunopenA_set(prog)
        BY <1>2, <1>10, <1>11, <3>2 DEF tunopenA_set, gives_up, errorA, succeeds
      <3>3. CASE _configure_interface(prog)
        BY <1>2, <1>3, <1>10, <1>11, <3>3 DEF _configure_interface, succeeds, returnA
      <3>4. CASE _configure_interface_fails(prog)
        BY <1>2, <1>11, <3>4 DEF _configure_interface_fails, gives_up, errorA
      <3> QED
        BY <3>1, <3>2, <3>3, <3>4
    <2>2. OpeningInv'
      BY <1>6, <1>9, <1>10, <2>1 DEF OpeningInv
    <2>3. \A fd \in Fds : file[fd].open => file'[fd].open
      BY <1>8, <2>1
    <2>4. /\ \A fd \in Devices : Fresh(fd) => Fresh(fd)'
          /\ Connecting => Connecting'
      <3>1. file'["conn"] = file["conn"] /\ file'["rand"] = file["rand"]
        BY <1>8, NameFacts
      <3> QED
        BY <1>6, <3>1 DEF Devices, Fresh, Connecting
    <2>5. PlaceInv'
      BY <1>2, <1>4, <1>11, <2>3, <2>4, PlaceStays
    <2>6. UNCHANGED control
      BY <1>1, <1>11 DEF control
    <2> QED
      BY <1>1, <1>2, <1>6, <1>11, <2>2, <2>3, <2>5, <2>6, FdHere
  <1>12. CASE errorA(prog) /\ UNCHANGED died
    <2>1. run' = NULL /\ current'[prog] = 0
      BY <1>12, ErrorPlace
    <2>2. /\ "device" \in tunfds' => calls' = 1
          /\ file'["tun"].open => calls' > 1
      <3>1. CASE tunopenA(prog)
        BY <1>2, <1>5, <1>10, <2>1, <3>1 DEF tunopenA, gives_up
      <3>2. CASE tunopenA_set(prog)
        BY <1>2, <1>10, <2>1, <3>2 DEF tunopenA_set, gives_up, succeeds
      <3>3. CASE _configure_interface(prog)
        BY <1>2, <1>3, <1>10, <3>3 DEF _configure_interface, succeeds
      <3>4. CASE _configure_interface_fails(prog)
        BY <1>2, <1>10, <3>4 DEF _configure_interface_fails, gives_up, Closed
      <3> QED
        BY <3>1, <3>2, <3>3, <3>4
    <2>3. OpeningInv'
      BY <1>5, <1>6, <1>9, <1>10, <2>1, <2>2 DEF OpeningInv
    <2> QED
      BY <1>2, <1>3, <1>5, <1>6, <1>7, <2>1, <2>3, FdEnds
  <1>13. CASE returnA(prog, "tun") /\ UNCHANGED status
    <2>1. current'[prog] = 0 /\ run' = NULL
      BY <1>2, <1>3, <1>13, ReturnFacts DEF ClientsInv, ControlInv
    <2>2. /\ "device" \in tunfds' => calls' = 1
          /\ file'["tun"].open => calls' > 1
      <3>1. CASE tunopenA(prog)
        BY <1>2, <1>5, <1>10, <2>1, <3>1 DEF tunopenA, gives_up
      <3>2. CASE tunopenA_set(prog)
        BY <1>2, <1>10, <2>1, <3>2 DEF tunopenA_set, gives_up, succeeds
      <3>3. CASE _configure_interface(prog)
        BY <1>2, <1>3, <1>10, <3>3 DEF _configure_interface, succeeds
      <3>4. CASE _configure_interface_fails(prog)
        BY <1>2, <1>10, <3>4 DEF _configure_interface_fails, gives_up, Closed
      <3> QED
        BY <3>1, <3>2, <3>3, <3>4
    <2>3. OpeningInv'
      BY <1>5, <1>6, <1>9, <1>10, <2>1, <2>2 DEF OpeningInv
    <2> QED
      BY <1>2, <1>3, <1>5, <1>6, <1>7, <2>1, <2>3, FdEnds
  <1> QED
    BY <1>1, <1>11, <1>12, <1>13

-----------------------------------------------------------------------------
(* main, the loop, and what happens outside of the process.                *)

LEMMA FdMain ==
  ASSUME ClientsInv, FdInv, main(prog), UNCHANGED <<tcpVars, timerVars, tunVars, prog>>
  PROVE  FdInv'
  <1>1. /\ epfd = "none" /\ epfd' = "open" /\ UNCHANGED <<armed, batch, caller, file>>
        /\ runA(prog, FirstJob[prog])
        /\ UNCHANGED <<tcpstatus, tries, sockets, immediate, timerstatus, calls, tunfds, prog>>
    BY DEF main, init, tcpVars, timerVars, tunVars
  <1>2. /\ current[prog] = 0 /\ batch = {} /\ \A fd \in Fds : armed[fd] = NULL
    BY <1>1 DEF ClientsInv, StartInv
  <1>3. /\ \A fd \in Devices : Fresh(fd)
        /\ file["stdin"].open /\ file["stdout"].open /\ ~file["timer"].open /\ calls = 0
    BY <1>1 DEF FdInv, FreshInv
  <1>4. FirstJob[prog] \in Jobs /\ NULL \notin Jobs
    BY FdTypes, NameFacts DEF FirstJob, ClientCircuits
  <1>5. run' # NULL /\ current'[prog] = 1
    BY <1>1, <1>2, <1>4, FdTypes DEF runA
  <1>6. ~immediate
    BY <1>3 DEF Fresh, Devices
  <1>7. OpeningInv'
    BY <1>1, <1>3, FdTypes DEF FdInv, OpeningInv, Unset
  <1>8. PlaceInv'
    <2>1. \A fd \in Devices : Fresh(fd)'
      BY <1>1, <1>3 DEF Devices, Fresh
    <2>2. \A fd \in Devices : OpensAt[prog][fd] \in Nat
      BY FdTypes, ProgramsOpen DEF OpensFirst
    <2>3. \A fd \in Devices : OpensAt[prog][fd] # 0 => ~(current'[prog] > OpensAt[prog][fd])
      BY <1>5, <2>2
    <2> QED
      BY <1>1, <1>3, <2>1, <2>3 DEF PlaceInv
  <1>9. ArmedInv' /\ ImmediateInv' /\ FreshInv'
    BY <1>1, <1>2, <1>5, <1>6 DEF ArmedInv, ImmediateInv, FreshInv
  <1> QED
    BY <1>7, <1>8, <1>9 DEF FdInv

\* The values that the variables keep in a step that changes none of them.
LEMMA FdSame ==
  ASSUME UNCHANGED <<ioVars, tcpVars, timerVars, tunVars, prog>>
  PROVE  /\ UNCHANGED <<run, caller, current, status, died, file, immediate, prog>>
         /\ OpeningInv => OpeningInv'
         /\ PlaceInv => PlaceInv'
         /\ \A fd \in Devices : Fresh(fd) => Fresh(fd)'
         /\ UNCHANGED calls
  <1>1. /\ UNCHANGED <<run, caller, current, status, died, file, prog>>
        /\ UNCHANGED <<tcpstatus, tries, sockets, immediate, timerstatus, calls, tunfds>>
    BY DEF ioVars, control, tcpVars, timerVars, tunVars
  <1>2. /\ \A fd \in Devices : Fresh(fd)' <=> Fresh(fd)
        /\ Connecting' <=> Connecting
        /\ Restarted' <=> Restarted
        /\ Unset' <=> Unset
    BY <1>1 DEF Devices, Fresh, Connecting, Restarted, Unset
  <1>3. OpeningInv => OpeningInv'
    BY <1>1, <1>2 DEF OpeningInv
  <1>4. PlaceInv => PlaceInv'
    BY <1>1, <1>2 DEF PlaceInv
  <1> QED
    BY <1>1, <1>2, <1>3, <1>4

\* The process is left.
LEMMA FdLeaves ==
  ASSUME ClientsInv, FdInv, main_exits \/ loop_end,
         UNCHANGED <<tcpVars, timerVars, tunVars, prog>>
  PROVE  FdInv'
  <1>1. /\ epfd' \in {"closed", "exited"} /\ batch' = batch /\ UNCHANGED ioVars
        /\ \A fd \in Fds : armed'[fd] = NULL \/ armed'[fd] = armed[fd]
    BY DEF main_exits, loop_end, exit, deinit
  <1>2. /\ UNCHANGED <<run, caller, current, status, died, file, immediate, prog>>
        /\ OpeningInv' /\ PlaceInv'
    BY <1>1, FdSame DEF FdInv
  <1>3. ArmedInv'
    BY <1>1, <1>2 DEF FdInv, ArmedInv, Alive
  <1>4. ImmediateInv' /\ FreshInv'
    BY <1>1, <1>2 DEF FdInv, ImmediateInv, FreshInv
  <1> QED
    BY <1>2, <1>3, <1>4 DEF FdInv

\* What is reported was waited for.
LEMMA FdPolls ==
  ASSUME ClientsInv, FdInv, loop_wait, UNCHANGED <<tcpVars, timerVars, tunVars, prog>>
  PROVE  FdInv'
  <1>1. PICK reported \in SUBSET Fds : poll(reported)
    BY DEF loop_wait
  <1>2. /\ epfd = "open" /\ run = NULL /\ caller = NULL /\ status = "working" /\ died = "no"
        /\ UNCHANGED ioVars
    BY DEF loop_wait, Idle, Alive
  <1>3. /\ epfd' = epfd /\ \A fd \in reported : armed[fd] # NULL
        /\ \A fd \in Fds : armed'[fd] = IF fd \in reported THEN NULL ELSE armed[fd]
        /\ \A ev \in batch' : ev.fd \in reported /\ ev.job = armed[ev.fd].job
        /\ \A ev1, ev2 \in batch' : ev1.fd = ev2.fd => ev1 = ev2
    BY <1>1, PollTypes DEF ClientsInv, ControlInv
  <1>4. /\ UNCHANGED <<run, caller, current, status, died, file, immediate, prog>>
        /\ OpeningInv' /\ PlaceInv'
    BY <1>2, FdSame DEF FdInv
  <1>5. ArmedInv /\ ImmediateInv
    BY DEF FdInv
  <1>6. ArmedInv'
    <2>1. \A fd \in Fds : armed'[fd] # NULL => file'[fd].open /\ armed'[fd].job # "ctx"
      BY <1>3, <1>4, <1>5 DEF ArmedInv
    <2>2. \A ev \in batch' : file'[ev.fd].open /\ ev.job # "ctx"
      BY <1>3, <1>4, <1>5 DEF ArmedInv
    <2> QED
      BY <1>2, <1>3, <1>4, <1>5, <2>1, <2>2 DEF ArmedInv, Alive
  <1>7. ImmediateInv'
    BY <1>2, <1>3, <1>4, <1>5 DEF ImmediateInv
  <1>8. FreshInv'
    BY <1>2, <1>3 DEF FreshInv
  <1> QED
    BY <1>4, <1>6, <1>7, <1>8 DEF FdInv

\* What the loop has taken is the only thing that was reported for its fd, and
\* for tlsclient the only one.
LEMMA FdTakes ==
  ASSUME ClientsInv, FdInv, NEW ev \in batch, take(ev), Idle
  PROVE  /\ batch' \subseteq batch /\ \A x \in batch' : x.fd # ev.fd
         /\ prog = "tlsclient" => batch' = {} /\ current[prog] # 0
         /\ ev.fd \in Fds /\ ev.job \in Jobs /\ ev.job # "ctx" /\ ev.job # NULL
         /\ epfd' = epfd /\ epfd = "open" /\ run = NULL
         /\ ~immediate => current[prog] # 0
         /\ ~Unset
  <1>1. batch' = batch \ {ev} /\ epfd' = epfd
    BY DEF take
  <1>2. /\ \A ev1, ev2 \in batch : ev1.fd = ev2.fd => ev1 = ev2
        /\ ev.job # "ctx"
    BY DEF FdInv, ArmedInv
  <1>3. prog = "tlsclient" => (\A x \in batch : x.fd = "conn") /\ current[prog] # 0
    BY DEF FdInv, ImmediateInv
  <1>4. ev.fd \in Fds /\ ev.job \in Jobs
    BY FdTypes
  <1>5. epfd = "open" /\ run = NULL
    BY DEF Idle, Alive
  <1>6. ~immediate => current[prog] # 0
    BY DEF ClientsInv, ControlInv, OneWait, WaitsWith
  <1>7. ~Unset
    BY <1>5, NameFacts DEF FdInv, OpeningInv
  <1> QED
    BY <1>1, <1>2, <1>3, <1>4, <1>5, <1>6, <1>7, NameFacts

LEMMA FdLoopRuns ==
  ASSUME ClientsInv, FdInv, NEW ev \in batch, loop_run(prog, ev),
         UNCHANGED <<tcpVars, timerVars, tunVars, prog>>
  PROVE  FdInv'
  <1>1. /\ Idle /\ take(ev) /\ armed' = armed /\ run' = ev.job /\ UNCHANGED <<caller, file>>
        /\ current' = [current EXCEPT ![prog] = IF current[prog] = 0 THEN 1 ELSE current[prog]]
        /\ UNCHANGED <<tcpstatus, tries, sockets, immediate, timerstatus, calls, tunfds, prog>>
    BY DEF loop_run, take, runA, tcpVars, timerVars, tunVars
  <1>2. /\ batch' \subseteq batch /\ (prog = "tlsclient" => batch' = {} /\ current[prog] # 0)
        /\ run' # NULL /\ run' # "ctx" /\ epfd' = epfd /\ epfd = "open" /\ run = NULL
        /\ ~immediate => current[prog] # 0
        /\ ~Unset
    BY <1>1, FdTakes
  <1>3. /\ current[prog] = 0 => current'[prog] = 1
        /\ current[prog] # 0 => current'[prog] = current[prog]
    BY <1>1, FdTypes
  <1>4. OpeningInv /\ PlaceInv /\ ArmedInv /\ ImmediateInv
    BY DEF FdInv
  <1>5. calls # AllCalls
    BY <1>2, <1>4 DEF OpeningInv
  <1>6. /\ \A fd \in Devices : Fresh(fd) => Fresh(fd)'
        /\ Connecting => Connecting'
        /\ ~Unset'
    BY <1>1, <1>2 DEF Devices, Fresh, Connecting, Unset
  <1>7. OpeningInv'
    BY <1>1, <1>4, <1>5, <1>6, OpeningStays
  <1>8. PlaceInv'
    <2>1. CASE current[prog] # 0
      <3>1. ~Restarted
        BY <1>2 DEF Restarted
      <3> QED
        BY <1>1, <1>3, <1>4, <1>6, <2>1, <3>1, PlaceStays
    <2>2. CASE current[prog] = 0
      <3>1. immediate /\ prog = "echoclient"
        BY <1>2, <1>4, <2>2 DEF ImmediateInv
      <3>2. Restarted'
        BY <1>1, <1>2, <1>3, <2>2, <3>1 DEF Restarted
      <3> QED
        BY <3>2 DEF PlaceInv
    <2> QED
      BY <2>1, <2>2
  <1>9. ArmedInv'
    BY <1>1, <1>2, <1>4 DEF ArmedInv
  <1>10. ImmediateInv'
    BY <1>1, <1>2, <1>3, <1>4 DEF ImmediateInv
  <1>11. FreshInv'
    BY <1>2 DEF FreshInv
  <1> QED
    BY <1>7, <1>8, <1>9, <1>10, <1>11 DEF FdInv

LEMMA FdLoopCloses ==
  ASSUME ClientsInv, FdInv, NEW ev \in batch, loop_close(prog, ev),
         UNCHANGED <<tcpVars, timerVars, tunVars, prog>>
  PROVE  FdInv'
  <1>1. /\ Idle /\ take(ev) /\ armed' = [armed EXCEPT ![ev.fd] = NULL] /\ errorA(prog)
        /\ file' = [file EXCEPT ![ev.fd] = Closed] /\ UNCHANGED caller
        /\ UNCHANGED <<tcpstatus, tries, sockets, immediate, timerstatus, calls, tunfds, prog>>
    BY DEF loop_close, take, tcpVars, timerVars, tunVars
  <1>2. /\ batch' \subseteq batch /\ \A x \in batch' : x.fd # ev.fd
        /\ prog = "tlsclient" => batch' = {}
        /\ ev.fd \in Fds /\ epfd' = epfd /\ epfd = "open" /\ ~Unset
    BY <1>1, FdTakes
  <1>3. /\ run' = NULL /\ current'[prog] = 0
        /\ prog = "tlsclient" => status' # "working"
    BY <1>1, ErrorPlace
  <1>4. /\ \A fd \in Fds : fd # ev.fd => file'[fd] = file[fd] /\ armed'[fd] = armed[fd]
        /\ ~file'[ev.fd].open /\ armed'[ev.fd] = NULL
    BY <1>1, <1>2, FdTypes DEF Closed
  <1>5. OpeningInv /\ ArmedInv /\ ImmediateInv
    BY DEF FdInv
  <1>6. /\ file'["tun"].open => file["tun"].open
        /\ file'["timer"].open => file["timer"].open
    BY <1>4, NameFacts
  <1>7. OpeningInv'
    BY <1>1, <1>2, <1>3, <1>5, <1>6, OpeningStays DEF Unset
  <1>8. ArmedInv'
    <2>1. \A fd \in Fds : armed'[fd] # NULL => file'[fd].open /\ armed'[fd].job # "ctx"
      BY <1>4, <1>5 DEF ArmedInv
    <2>2. \A x \in batch' : file'[x.fd].open /\ x.job # "ctx"
      BY <1>2, <1>4, <1>5, FdTypes DEF ArmedInv
    <2>3. \A ev1, ev2 \in batch' : ev1.fd = ev2.fd => ev1 = ev2
      BY <1>2, <1>5 DEF ArmedInv
    <2> QED
      BY <1>1, <1>3, <2>1, <2>2, <2>3 DEF ArmedInv
  <1>9. ImmediateInv'
    BY <1>1, <1>2, <1>3, <1>4, <1>5 DEF ImmediateInv
  <1>10. PlaceInv' /\ FreshInv'
    BY <1>1, <1>2, <1>3 DEF PlaceInv, FreshInv
  <1> QED
    BY <1>7, <1>8, <1>9, <1>10 DEF FdInv

\* Peers, users and time.
LEMMA FdOutside ==
  ASSUME ClientsInv, FdInv, peer \/ user \/ Tick
  PROVE  FdInv'
  <1>1. /\ Alive /\ UNCHANGED <<waitVars, control, status>>
        /\ UNCHANGED <<tcpVars, timerVars, tunVars, prog>>
    BY DEF peer, user, Tick, tick
  <1>2. PICK fd \in Fds : \E v :
          \/ file' = [file EXCEPT ![fd].in = v]
          \/ file' = [file EXCEPT ![fd].room = v]
          \/ file' = [file EXCEPT ![fd].hup = v]
          \/ file' = [file EXCEPT ![fd].err = v]
    <2>1. CASE peer
      <3>1. \/ file' = [file EXCEPT !["conn"].in = file["conn"].in + 1]
            \/ file' = [file EXCEPT !["conn"].room = TRUE]
            \/ file' = [file EXCEPT !["conn"].hup = TRUE]
            \/ file' = [file EXCEPT !["conn"].err = TRUE]
        BY <2>1 DEF peer
      <3> QED
        BY <3>1, NameFacts
    <2>2. CASE user
      <3>1. \/ file' = [file EXCEPT !["stdin"].in = 1]
            \/ file' = [file EXCEPT !["stdin"].hup = TRUE]
            \/ file' = [file EXCEPT !["stdin"].room = TRUE]
            \/ file' = [file EXCEPT !["stdout"].room = TRUE]
            \/ file' = [file EXCEPT !["stdout"].err = TRUE]
        BY <2>2 DEF user
      <3> QED
        BY <3>1, NameFacts
    <2>3. CASE Tick
      BY <2>3, NameFacts DEF Tick, tick
    <2> QED
      BY <2>1, <2>2, <2>3
  <1>3. \A g \in Fds : file'[g].open = file[g].open
    BY <1>2, OpenKept, FdTypes
  <1> QED
    BY <1>1, <1>3, SteadyWhen, FdStays

LEMMA FdStutters ==
  ASSUME FdInv, UNCHANGED clientVars
  PROVE  FdInv'
  <1>1. UNCHANGED <<epfd, armed, batch, ioVars, tcpVars, timerVars, tunVars, prog>>
    BY DEF clientVars, waitVars
  <1>2. /\ UNCHANGED <<run, caller, current, status, died, file, immediate, prog, calls>>
        /\ OpeningInv' /\ PlaceInv' /\ \A fd \in Devices : Fresh(fd) => Fresh(fd)'
    BY <1>1, FdSame DEF FdInv
  <1>3. ArmedInv' /\ ImmediateInv'
    BY <1>1, <1>2 DEF FdInv, ArmedInv, ImmediateInv, Alive
  <1>4. FreshInv'
    BY <1>1, <1>2 DEF FdInv, FreshInv
  <1> QED
    BY <1>2, <1>3, <1>4 DEF FdInv

LEMMA InitFdInv == ClientsInit => FdInv
  <1> SUFFICES ASSUME ClientsInit PROVE FdInv
    OBVIOUS
  <1>1. /\ run = NULL /\ current = [c \in Circuits |-> 0] /\ prog \in Circuits
        /\ tcpstatus = "none" /\ tries = 0 /\ sockets = {} /\ immediate = FALSE
        /\ timerstatus = "none" /\ calls = 0 /\ tunfds = {}
        /\ epfd = "none" /\ batch = {} /\ armed = [fd \in Fds |-> NULL]
    BY NameFacts DEF ClientsInit, IoInit, WaitsInit, TcpClientInit, TimerInit, TuntapInit
  <1>2. /\ file["stdin"].open /\ file["stdout"].open
        /\ \A fd \in Fds \ {"stdin", "stdout"} : ~file[fd].open
    <2>1. PICK f : f = [Closed EXCEPT !.open = TRUE, !.room = TRUE]
      OBVIOUS
    <2>2. f.open /\ ~Closed.open
      BY <2>1 DEF Closed
    <2>3. file = [fd \in Fds |-> IF fd \in {"stdin", "stdout"} THEN f ELSE Closed]
      BY <2>1 DEF ClientsInit
    <2> QED
      BY <2>2, <2>3, NameFacts
  <1>3. /\ ~file["conn"].open /\ ~file["timer"].open /\ ~file["rand"].open
        /\ ~file["tun"].open
    BY <1>2, NameFacts
  <1>4. current[prog] = 0
    BY <1>1
  <1>5. OpeningInv
    BY <1>1, <1>3, TunFacts DEF OpeningInv, Unset
  <1>6. FreshInv
    BY <1>1, <1>2, <1>3 DEF FreshInv, Fresh, Devices
  <1>7. PlaceInv /\ ArmedInv /\ ImmediateInv
    BY <1>1, <1>4 DEF PlaceInv, ArmedInv, ImmediateInv, Alive
  <1> QED
    BY <1>5, <1>6, <1>7 DEF FdInv

\* A step of the program.
LEMMA ProgramKeepsFds == ClientsInv /\ FdInv /\ ProgramStep => FdInv'
  <1> SUFFICES ASSUME ClientsInv, FdInv, ProgramStep PROVE FdInv'
    OBVIOUS
  <1>1. UNCHANGED prog
    BY DEF ProgramStep
  <1>2. CASE /\ \/ connectA(prog) \/ connectA_socket(prog) \/ connectA_refused(prog)
                \/ connectA_waits(prog) \/ connectA_now(prog) \/ connectA_returns(prog)
                \/ _connect_continue(prog) \/ _connect_continue_fails(prog)
             /\ UNCHANGED <<timerVars, tunVars>>
    BY <1>1, <1>2, FdConnect, FdConnectWaits, FdConnectNow, FdReturnsAgain, FdContinue,
       FdContinueFails
  <1>3. CASE /\ \/ tunopenA(prog) \/ tunopenA_set(prog)
                \/ _configure_interface(prog) \/ _configure_interface_fails(prog)
             /\ UNCHANGED <<tcpVars, timerVars>>
    BY <1>1, <1>3, FdTun
  <1>4. CASE /\ \/ timeropenA(prog) \/ timeropenA_set(prog)
                \/ timersleepA_first(prog) \/ timersleepA(prog)
             /\ UNCHANGED <<tcpVars, tunVars>>
    BY <1>1, <1>4, FdTimerOpens, FdTimerSet, FdSleep
  <1>5. CASE UNCHANGED <<tcpVars, timerVars, tlsVars, tunVars>>
             /\ (readA(prog) \/ pipereadA(prog) \/ writeA(prog) \/ pipewriteA(prog))
    BY <1>1, <1>5, FdRead, FdWrite DEF readA, pipereadA, writeA, pipewriteA
  <1>6. CASE /\ \/ randopenA(prog) \/ randreadA(prog) \/ randencA(prog)
                \/ hand(prog) \/ confused(prog) \/ promptA(prog) \/ countA(prog)
             /\ UNCHANGED <<tcpVars, timerVars, tunVars>>
    BY <1>1, <1>6, FdRand, FdHands, FdSays DEF promptA, countA
  <1>7. CASE /\ \/ newlineA(prog) \/ greetingA(prog) \/ httpreqA(prog)
                \/ printA(prog) \/ echoA(prog)
             /\ UNCHANGED <<tcpVars, timerVars, tunVars>>
    BY <1>1, <1>7, FdWorks DEF newlineA, greetingA, httpreqA, printA, echoA
  <1>8. CASE /\ \/ openssl_prepare_fails(prog) \/ tlsA(prog) \/ tlswriteA(prog)
                \/ tlsreadA_data(prog) \/ tlsreadA_waits(prog)
                \/ main(prog) \/ main_exits
             /\ UNCHANGED <<tcpVars, timerVars, tunVars>>
    BY <1>1, <1>8, FdTlsStep, FdMain, FdLeaves
  <1>9. CASE loop(prog) /\ UNCHANGED <<tcpVars, timerVars, tunVars>>
    BY <1>1, <1>9, FdPolls, FdLoopRuns, FdLoopCloses, FdLeaves DEF loop
  <1> QED
    BY <1>2, <1>3, <1>4, <1>5, <1>6, <1>7, <1>8, <1>9 DEF ProgramStep

LEMMA AlwaysFdInv == ClientsSpec => [](ClientsInv /\ FdInv)
  <1>1. ClientsInv /\ FdInv /\ [ClientsNext]_clientVars => FdInv'
    BY ProgramKeepsFds, FdOutside, FdStutters DEF ClientsNext
  <1> QED
    BY <1>1, InitFdInv, AlwaysClientsInv, PTL DEF ClientsSpec

(***************************************************************************)
(* Nothing that connectA, tunopenA or timeropenA has opened is lost when a *)
(* later call of theirs fails: each address that refuses gets its socket   *)
(* closed, and so do a device and a timer that cannot be set up.  Only the *)
(* control socket of _configure_interface stays open.                      *)
(***************************************************************************)
THEOREM NoDescriptorLost == ClientsSpec => []NoOrphans
  <1>1. FdInv => NoOrphans
    BY DEF FdInv, OpeningInv, NoOrphans, Unset
  <1> QED
    BY <1>1, AlwaysFdInv, PTL

(***************************************************************************)
(* connectA, timeropenA, randopenA and tunopenA never overwrite the        *)
(* descriptor of a struct that has one: no loop, error or second return of *)
(* connectA leads back to them with it.                                    *)
(***************************************************************************)
THEOREM DescriptorsOpenedOnce == ClientsSpec => []OpensOnce
  <1>1. ASSUME ClientsInv, FdInv, NEW fd \in Devices, Runs(prog, fd, Opener[fd])
        PROVE  Fresh(fd) \/ (fd = "conn" /\ Connecting)
    <2>1. fd \in Jobs /\ Opener[fd] # "timerA"
      BY NameFacts DEF Devices, Opener
    <2>2. current[prog] # 0 /\ ~Restarted /\ Net[prog][current[prog]] = Opener[fd]
      BY <1>1, <2>1, RunsFacts, NotRestarted
    <2>3. current[prog] = OpensAt[prog][fd]
      BY <1>1, <2>2, PlaceOf
    <2> QED
      BY <1>1, <2>2, <2>3 DEF FdInv, PlaceInv
  <1>2. ASSUME ClientsInv, FdInv PROVE OpensOnce
    <2>1. /\ Opener["conn"] = "connectA" /\ Opener["timer"] = "timeropenA"
          /\ Opener["rand"] = "randopenA"
          /\ "conn" \in Devices /\ "timer" \in Devices /\ "rand" \in Devices
      BY DEF Opener, Devices
    <2>2. Runs(prog, "conn", "connectA") /\ tcpstatus # "_CONNECTING" => ~file["conn"].open
      BY <1>1, <1>2, <2>1 DEF Fresh, Connecting
    <2>3. /\ Runs(prog, "timer", "timeropenA") => timerstatus = "none"
          /\ Runs(prog, "rand", "randopenA") => ~file["rand"].open
      BY <1>1, <1>2, <2>1 DEF Fresh
    <2>4. Runs(prog, "tun", "tunopenA") => calls < AllCalls
      <3>1. Runs(prog, "tun", "tunopenA") => run # NULL
        BY RunsFacts, NameFacts
      <3> QED
        BY <1>2, <3>1, FdTypes DEF FdInv, OpeningInv
    <2> QED
      BY <2>2, <2>3, <2>4 DEF OpensOnce
  <1> QED
    BY <1>2, AlwaysFdInv, PTL

(***************************************************************************)
(* Nobody uses or waits for a descriptor that is closed, whoever closed    *)
(* it: meloop_io_loop, connectA or an element that could not set it up.    *)
(* In particular _connect_continue finds the socket of its wait open.      *)
(***************************************************************************)
THEOREM DescriptorsOpenWhileUsed == ClientsSpec => []OpenWhileUsed
  <1>1. ASSUME ClientsInv, FdInv PROVE OpenWhileUsed
    <2>1. /\ \A fd \in Fds : armed[fd] # NULL => file[fd].open
          /\ \A ev \in batch : file[ev.fd].open
      BY <1>1 DEF FdInv, ArmedInv
    <2>2. DOMAIN UsersOf = Devices
      BY DEF UsersOf, Devices
    <2>3. \A fd \in DOMAIN UsersOf : \A kind \in UsersOf[fd] :
            Runs(prog, fd, kind) => file[fd].open
      BY <1>1, <2>2, UserOpen
    <2>4. Runs(prog, "conn", "connectA") /\ tcpstatus = "_CONNECTING" => file["conn"].open
      <3>1. Opener["conn"] = "connectA"
        BY DEF Opener
      <3>2. Runs(prog, "conn", "connectA") => Fresh("conn") \/ Connecting
        BY <1>1, <3>1, OpenerPlace
      <3> QED
        BY <3>2 DEF Fresh, Connecting
    <2> QED
      BY <2>1, <2>3, <2>4 DEF OpenWhileUsed
  <1> QED
    BY <1>1, AlwaysFdInv, PTL
=============================================================================
