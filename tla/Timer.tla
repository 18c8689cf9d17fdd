------------------------------- MODULE Timer --------------------------------
(***************************************************************************)
(* meloop/timer.c: timeropenA and timersleepA.                             *)
(***************************************************************************)
EXTENDS IoLoop

CONSTANT Intervals  \* The values of interval_ns, in units that do not matter.

ASSUME TimerAssumption == Intervals \subseteq Int

VARIABLES
  interval,    \* priv->interval_ns.
  timerstatus  \* t->status.

timerVars == <<interval, timerstatus>>

TimerTypeOK ==
  /\ interval \in Intervals
  /\ timerstatus \in {"none", "IDLE", "WAITING"}

TimerInit ==
  /\ interval \in Intervals
  /\ timerstatus = "none"

\* timeropenA has a timer, and has not set it.
Unset == file["timer"].open /\ timerstatus = "none"

timeropenA(c) ==
  /\ Runs(c, "timer", "timeropenA")
  /\ ~Unset
  /\ \/ /\ file' = [file EXCEPT !["timer"].open = TRUE]
        /\ UNCHANGED <<run, current, status>>
     \/ errorA(c) /\ UNCHANGED file
  /\ UNCHANGED <<waitVars, caller, died, timerVars>>

\* timerfd_settime does not take a negative interval, and the timer is closed.
timeropenA_set(c) ==
  /\ Runs(c, "timer", "timeropenA")
  /\ Unset
  /\ \/ /\ interval >= 0
        /\ timerstatus' = "IDLE"
        /\ returnA(c, "timer")
        /\ UNCHANGED <<status, file>>
     \/ /\ interval < 0
        /\ errorA(c)
        /\ file' = [file EXCEPT !["timer"] = Closed]
        /\ UNCHANGED <<died, timerstatus>>
  /\ UNCHANGED <<waitVars, caller, interval>>

\* The first sleep does not look at the timer before it waits.  The timer counts
\* as WAITING even if the wait fails, and for ever.
timersleepA_first(c) ==
  /\ Runs(c, "timer", "timersleepA") /\ timerstatus = "IDLE"
  /\ timerstatus' = "WAITING"
  /\ waits(c, "timer", "timer", "EPOLLIN")
  /\ UNCHANGED <<caller, died, file, interval>>

\* A bug: the status goes back to IDLE, and the expiry is not read.
timersleepA_again(c) ==
  /\ Runs(c, "timer", "timersleepA") /\ timerstatus = "WAITING"
  /\ timerstatus' = "IDLE"
  /\ waits(c, "timer", "timer", "EPOLLIN")
  /\ UNCHANGED <<caller, died, file, interval>>

\* Later it reads first: the timer may have expired since.
timersleepA(c) ==
  /\ Runs(c, "timer", "timersleepA") /\ timerstatus = "WAITING"
  /\ \/ /\ file["timer"].in > 0
        /\ file' = [file EXCEPT !["timer"].in = 0]
        /\ returnA(c, "timer")
        /\ UNCHANGED <<waitVars, status>>
     \/ /\ file["timer"].in = 0
        /\ waits(c, "timer", "timer", "EPOLLIN")
        /\ UNCHANGED <<died, file>>
     \/ /\ errorA(c)
        /\ UNCHANGED <<waitVars, died, file>>
  /\ UNCHANGED <<caller, timerVars>>

\* The kernel: an interval goes by.
tick ==
  /\ Alive
  /\ file["timer"].open /\ timerstatus # "none" /\ interval > 0
  /\ file["timer"].in = 0
  /\ file' = [file EXCEPT !["timer"].in = 1]
  /\ UNCHANGED <<waitVars, control, status, died, timerVars>>
=============================================================================
