-------------------------------- MODULE Waits --------------------------------
(***************************************************************************)
(* What meloop/ev.c promises to its callers, without bags, table or        *)
(* addresses: a wait registered for a descriptor comes back once, with the *)
(* job it was registered for, when epoll reports the descriptor; and       *)
(* meloop_ev_more() counts the waits that still may come back, as long as  *)
(* no more than EV_MAXEVENTS are under way at once.                        *)
(*                                                                         *)
(* Ev.tla implements it (Ev!ImplementsWaits).  The models of the programs  *)
(* are built on it, through IoLoop.tla.                                    *)
(***************************************************************************)
EXTENDS Integers, FiniteSets

CONSTANTS
  EV_MAXEVENTS,  \* How many waits are counted, and reported at a time.
  Fds, Jobs,
  NULL

Op   == {"EPOLLIN", "EPOLLOUT"}
Flag == {"EPOLLRDHUP", "EPOLLERR", "ready"}
Wait == [job : Jobs, op : Op, counted : BOOLEAN]

ASSUME WaitsAssumption ==
  /\ EV_MAXEVENTS \in Nat \ {0}
  /\ NULL \notin Wait

VARIABLES
  epfd,    \* "none", "open", "closed", or "exited" once the process is gone.
  armed,   \* Per descriptor: the wait registered for it, or NULL.
  count,   \* What meloop_ev_more() says.
  batch    \* The reported waits that the loop has not handled yet.

waitVars == <<epfd, armed, count, batch>>

WaitsTypeOK ==
  /\ epfd \in {"none", "open", "closed", "exited"}
  /\ armed \in [Fds -> Wait \cup {NULL}]
  /\ count \in 0..EV_MAXEVENTS
  /\ batch \subseteq [fd : Fds, job : Jobs, counted : BOOLEAN, flag : Flag]

WaitsInit ==
  /\ epfd = "none"
  /\ armed = [fd \in Fds |-> NULL]
  /\ count = 0
  /\ batch = {}

init == epfd = "none" /\ epfd' = "open" /\ UNCHANGED <<armed, count, batch>>

exit == epfd' = "exited" /\ UNCHANGED <<armed, count, batch>>

\* A wait beyond the limit is registered but not counted.
Counted == count < EV_MAXEVENTS

enter == count' = IF Counted THEN count + 1 ELSE count

\* A descriptor has one wait: the newest.  The one it replaces stays counted
\* and never comes back.
arm(fd, job, op) ==
  /\ epfd = "open"
  /\ enter
  /\ armed' = [armed EXCEPT ![fd] =
                 [job |-> job, op |-> op, counted |-> Counted]]
  /\ UNCHANGED <<epfd, batch>>

\* epoll_ctl refuses the descriptor, after the wait was counted.
refuse ==
  /\ epfd = "open"
  /\ enter
  /\ UNCHANGED <<epfd, armed, batch>>

\* Every reported wait is disarmed.
poll(reported) ==
  /\ epfd = "open"
  /\ batch = {}
  /\ reported # {}
  /\ Cardinality(reported) <= EV_MAXEVENTS
  /\ \A fd \in reported : armed[fd] # NULL
  /\ \E flag \in [reported -> Flag] :
       batch' = {[fd |-> fd, job |-> armed[fd].job, flag |-> flag[fd],
                  counted |-> armed[fd].counted] : fd \in reported}
  /\ armed' = [fd \in Fds |-> IF fd \in reported THEN NULL ELSE armed[fd]]
  /\ UNCHANGED <<epfd, count>>

\* A reported wait is handled; the loop also dearms a descriptor in error.
take(ev) ==
  /\ epfd = "open"
  /\ ev \in batch
  /\ batch' = batch \ {ev}
  /\ count' = IF ev.counted THEN count - 1 ELSE count
  /\ armed' = IF ev.flag = "ready" THEN armed
              ELSE [armed EXCEPT ![ev.fd] = NULL]
  /\ UNCHANGED epfd

deinit ==
  /\ epfd = "open"
  /\ batch = {}
  /\ epfd' = "closed"
  /\ armed' = [fd \in Fds |-> NULL]
  /\ UNCHANGED <<count, batch>>

WaitsNext ==
  \/ init
  \/ epfd \in {"none", "open"} /\ exit
  \/ \E fd \in Fds, job \in Jobs, op \in Op : arm(fd, job, op)
  \/ refuse
  \/ \E reported \in SUBSET Fds : poll(reported)
  \/ \E ev \in batch : take(ev)
  \/ deinit

WaitsSpec == WaitsInit /\ [][WaitsNext]_waitVars
=============================================================================
