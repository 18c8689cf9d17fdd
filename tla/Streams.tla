------------------------------ MODULE Streams -------------------------------
(***************************************************************************)
(* The elements that move bytes between a descriptor and the buffer that   *)
(* the structs of a program share: readA and writeA of meloop/io.c, the    *)
(* two of meloop/pipe.c, and the three of meloop/random.c.                 *)
(*                                                                         *)
(* A pipeS given to readA or writeA is taken for a fileS, whose fd lies    *)
(* where the pipe has rfd: both then use stdin.                            *)
(***************************************************************************)
EXTENDS IoLoop

VARIABLES
  data,      \* What the shared stringS holds.  "SIZE_MAX" is a size.
  nonblock,  \* Whether stdin and stdout were handed over with O_NONBLOCK.
  owed,      \* Whether the peer has a line of ours that it has not echoed.
  split      \* Whether a line ever went out or came back in parts (history).

streamVars == <<data, nonblock, owed, split>>

StreamsTypeOK ==
  /\ data \in {"empty", "raw", "letters", "line", "input", "request", "SIZE_MAX"}
  /\ nonblock \in BOOLEAN
  /\ owed \in BOOLEAN
  /\ split \in BOOLEAN

StreamsInit ==
  /\ data = "empty"
  /\ nonblock \in BOOLEAN
  /\ owed = FALSE
  /\ split = FALSE

\* Without O_NONBLOCK the process waits inside read or write.
Blocks(fd) == fd \in {"stdin", "stdout"} /\ ~nonblock

\* ERROR_A as the last thing an element does.
fails(c) == errorA(c) /\ UNCHANGED <<waitVars, caller, died, file, streamVars>>

\* A bug: there is something to read, whatever read says.
read_unchecked(c, j, fd) ==
  /\ file' = [file EXCEPT ![fd].in = @ - 1]
  /\ data' = "input"
  /\ returnA(c, j)
  /\ UNCHANGED <<waitVars, caller, status, nonblock, owed, split>>

\* A bug: nothing to read is as good as something.
read_skips(c, j, fd) ==
  \/ /\ ~AtEnd(fd)
     /\ file' = [file EXCEPT ![fd].in = IF @ = 0 THEN 0 ELSE @ - 1]
     /\ data' = "input"
     /\ returnA(c, j)
     /\ UNCHANGED <<waitVars, caller, status, nonblock, owed, split>>
  \/ AtEnd(fd) /\ fails(c)

\* The body that readA and pipereadA share.
read(c, j, fd) ==
  \/ /\ HasData(fd)
     /\ file' = [file EXCEPT ![fd].in = @ - 1]
     /\ data' = "input"
     /\ returnA(c, j)
     /\ UNCHANGED <<waitVars, caller, status, nonblock, owed, split>>
  \/ /\ AtEnd(fd)
     /\ fails(c)
  \/ /\ Again(fd) /\ ~Blocks(fd)
     /\ waits(c, j, fd, "EPOLLIN")
     /\ UNCHANGED <<caller, died, file, streamVars>>

\* An empty buffer needs no room.
Fits(fd) == HasRoom(fd) \/ (data = "empty" /\ ~file[fd].err)

\* The kernel takes the buffer or a part of it; the rest is not kept.
write_data(c, j, fd) ==
  /\ Fits(fd)
  /\ \E room, whole \in BOOLEAN :
       /\ file' = [file EXCEPT ![fd].room = room]
       /\ split' = (split \/ (fd \in Sockets /\ ~whole))
  /\ owed' = (owed \/ fd \in Sockets)
  /\ returnA(c, j)
  /\ UNCHANGED <<waitVars, caller, status, data, nonblock>>

\* The other end is gone; or stdin is not open for writing.
write_fails(c, fd) ==
  \/ /\ file[fd].err \/ fd = "stdin"
     /\ fails(c)
  \/ /\ file[fd].err /\ (file[fd].hup \/ fd \notin Sockets)
     /\ died' = "SIGPIPE"
     /\ UNCHANGED <<waitVars, control, status, file, streamVars>>

\* A bug: after WAIT_A there is no return.
write_waits_and_returns(c, j, fd) ==
  /\ Full(fd) /\ ~Blocks(fd)
  /\ arm(fd, j, "EPOLLOUT")
  /\ returnA(c, j)
  /\ UNCHANGED <<caller, status, file, streamVars>>

write_waits(c, j, fd) ==
  /\ Full(fd) /\ ~Fits(fd) /\ ~Blocks(fd)
  /\ waits(c, j, fd, "EPOLLOUT")
  /\ UNCHANGED <<caller, died, file, streamVars>>

\* The body that writeA and pipewriteA share.
write(c, j, fd) ==
  write_data(c, j, fd) \/ write_fails(c, fd) \/ write_waits(c, j, fd)

readA(c) ==
  \/ Runs(c, "conn", "readA") /\ read(c, "conn", "conn")
  \/ Runs(c, "pipe", "readA") /\ read(c, "pipe", "stdin")

writeA(c) ==
  \/ Runs(c, "conn", "writeA") /\ write(c, "conn", "conn")
  \/ Runs(c, "pipe", "writeA") /\ write(c, "pipe", "stdin")

pipereadA(c) == Runs(c, "pipe", "pipereadA") /\ read(c, "pipe", "stdin")

pipewriteA(c) == Runs(c, "pipe", "pipewriteA") /\ write(c, "pipe", "stdout")

-----------------------------------------------------------------------------
(* random.c.                                                               *)

randopenA(c) ==
  /\ Runs(c, "rand", "randopenA")
  /\ \/ /\ file' = [file EXCEPT !["rand"].open = TRUE]
        /\ returnA(c, "rand")
        /\ UNCHANGED <<waitVars, caller, status, streamVars>>
     \/ fails(c)

\* size is unsigned, and never less than 0: a failed read fills the buffer
\* with SIZE_MAX bytes.
randreadA(c) ==
  /\ Runs(c, "rand", "randreadA")
  /\ data' \in {"raw", "SIZE_MAX"}
  /\ returnA(c, "rand")
  /\ UNCHANGED <<waitVars, caller, status, file, nonblock, owed, split>>

\* Every byte becomes a letter, as far as memory goes.
randencA(c) ==
  /\ Runs(c, "rand", "randencA")
  /\ IF data = "SIZE_MAX"
     THEN died' = "SIGSEGV" /\ UNCHANGED <<run, current, data>>
     ELSE data' = "letters" /\ returnA(c, "rand")
  /\ UNCHANGED <<waitVars, caller, status, file, nonblock, owed, split>>
=============================================================================
