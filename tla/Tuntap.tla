------------------------------- MODULE Tuntap -------------------------------
(***************************************************************************)
(* tunopenA of meloop/tuntap.c, one step per call that can fail.           *)
(***************************************************************************)
EXTENDS IoLoop

VARIABLES
  calls,   \* How many calls of the last tunopenA have succeeded.
  tunfds   \* The descriptors that are open and that only a local knows.

tunVars == <<calls, tunfds>>

\* The calls of _configure_interface, in their order.
Configuration ==
  <<"socket", "inet_pton address", "SIOCSIFADDR", "inet_pton destaddress",
    "SIOCSIFDSTADDR", "inet_pton netmask", "SIOCSIFNETMASK">>

\* open and TUNSETIFF come before them.
AllCalls == 2 + Len(Configuration)

TuntapTypeOK ==
  /\ calls \in 0..AllCalls
  /\ tunfds \subseteq {"device", "control"}

TuntapInit ==
  /\ calls = 0
  /\ tunfds = {}

\* A call succeeds that is not the last.
succeeds ==
  /\ calls' = calls + 1
  /\ UNCHANGED <<run, current, status, died>>

gives_up(c) ==
  /\ calls' = 0
  /\ errorA(c)
  /\ UNCHANGED died

tunopenA(c) ==
  /\ Runs(c, "tun", "tunopenA")
  /\ calls \in {0, AllCalls}
  /\ \/ /\ calls' = 1
        /\ tunfds' = tunfds \cup {"device"}
        /\ UNCHANGED <<run, current, status, died>>
     \/ gives_up(c) /\ UNCHANGED tunfds
  /\ UNCHANGED <<waitVars, caller, file>>

\* TUNSETIFF: t gets the device, or it is closed.
tunopenA_set(c) ==
  /\ Runs(c, "tun", "tunopenA")
  /\ calls = 1
  /\ tunfds' = tunfds \ {"device"}
  /\ \/ succeeds /\ file' = [file EXCEPT !["tun"].open = TRUE]
     \/ gives_up(c) /\ UNCHANGED file
  /\ UNCHANGED <<waitVars, caller>>

\* No path closes the control socket.
_configure_interface(c) ==
  /\ Runs(c, "tun", "tunopenA")
  /\ calls \in 2..(AllCalls - 1)
  /\ tunfds' = tunfds \cup (IF Configuration[calls - 1] = "socket" THEN {"control"} ELSE {})
  /\ IF calls = AllCalls - 1
     THEN calls' = AllCalls /\ returnA(c, "tun") /\ UNCHANGED status
     ELSE succeeds
  /\ UNCHANGED <<waitVars, caller, file>>

\* A call of _configure_interface fails, and the device is closed.
_configure_interface_fails(c) ==
  /\ Runs(c, "tun", "tunopenA")
  /\ calls \in 2..(AllCalls - 1)
  /\ file' = [file EXCEPT !["tun"] = Closed]
  /\ gives_up(c)
  /\ UNCHANGED <<waitVars, caller, tunfds>>
=============================================================================
