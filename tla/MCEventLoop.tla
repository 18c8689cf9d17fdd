----------------------------- MODULE MCEventLoop -----------------------------
(***************************************************************************)
(* Instances of EventLoop for TLC.  The jobs are those of the examples: an *)
(* echo job reads and writes in a ring (examples/echoserver.c), a reply    *)
(* job computes, writes once and is done.                                  *)
(***************************************************************************)
EXTENDS EventLoop

CONSTANTS j1, j2

\* Every job has a circuit of its own.
OwnCircuits == {j1, j2}
OwnCircOf   == [j \in {j1, j2} |-> j]
OwnNet      == [c \in {j1, j2} |-> IF c = j1 THEN <<"read", "write">>
                                             ELSE <<"task", "write">>]
OwnBack     == [c \in {j1, j2} |-> IF c = j1 THEN 1 ELSE 0]

\* One worker circuit for every job, as in examples/echoserver.c.
SharedCircuits == {"worker"}
SharedCircOf   == [j \in {j1, j2} |-> "worker"]
SharedNet      == [c \in {"worker"} |-> <<"read", "write">>]
SharedBack     == [c \in {"worker"} |-> 1]
=============================================================================
