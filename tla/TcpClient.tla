----------------------------- MODULE TcpClient ------------------------------
(***************************************************************************)
(* connectA of meloop/tcp.c.                                               *)
(***************************************************************************)
EXTENDS IoLoop

CONSTANT MaxAddrs  \* Bounds the addresses that the name resolves to.

ASSUME TcpClientAssumption == MaxAddrs \in Nat \ {0}

VARIABLES
  tcpstatus,  \* priv->status.
  tries,      \* The addresses that the loop of connectA has not given up on,
              \* with the one it is at; 0 outside the loop.
  sockets,    \* The sockets that are open and that no struct knows, each by
              \* the tries there were at its address.
  immediate   \* Whether connect ever succeeded at once (history).

tcpVars == <<tcpstatus, tries, sockets, immediate>>

TcpClientTypeOK ==
  /\ tcpstatus \in {"none", "_CONNECTING", "_CONNECTED", "_FAILED"}
  /\ tries \in 0..MaxAddrs
  /\ sockets \subseteq 1..MaxAddrs
  /\ immediate \in BOOLEAN

TcpClientInit ==
  /\ tcpstatus = "none"
  /\ tries = 0
  /\ sockets = {}
  /\ immediate = FALSE

\* The element goes on with its next call.
goes_on == UNCHANGED <<run, current, status>>

\* getaddrinfo finds some addresses, or none.
connectA(c) ==
  /\ Runs(c, "conn", "connectA")
  /\ tcpstatus # "_CONNECTING" /\ tries = 0
  /\ \/ tries' \in 1..MaxAddrs /\ goes_on
     \/ tries' = 0 /\ errorA(c)
  /\ UNCHANGED <<waitVars, caller, died, file, tcpstatus, sockets, immediate>>

\* The loop gives up on an address.  After the last one connectA fails.
next_address(c) ==
  /\ tries' = tries - 1
  /\ IF tries = 1 THEN errorA(c) ELSE goes_on

connectA_socket(c) ==
  /\ Runs(c, "conn", "connectA")
  /\ tries # 0 /\ tries \notin sockets
  /\ \/ sockets' = sockets \cup {tries} /\ goes_on /\ UNCHANGED tries
     \/ next_address(c) /\ UNCHANGED sockets
  /\ UNCHANGED <<waitVars, caller, died, file, tcpstatus, immediate>>

\* A bug: the socket of an address that refuses is not closed.
connectA_refused_unclosed(c) ==
  /\ Runs(c, "conn", "connectA")
  /\ tries \in sockets
  /\ next_address(c)
  /\ UNCHANGED <<waitVars, caller, died, file, tcpstatus, sockets, immediate>>

\* connect fails, and the socket is closed.
connectA_refused(c) ==
  /\ Runs(c, "conn", "connectA")
  /\ tries \in sockets
  /\ sockets' = sockets \ {tries}
  /\ next_address(c)
  /\ UNCHANGED <<waitVars, caller, died, file, tcpstatus, immediate>>

\* conn gets the socket of the address that is being tried, in state f.
takes(f) ==
  /\ tries \in sockets
  /\ sockets' = sockets \ {tries}
  /\ tries' = 0
  /\ file' = [file EXCEPT !["conn"] = f]

NewSocket == [Closed EXCEPT !.open = TRUE]

connectA_waits(c) ==
  /\ Runs(c, "conn", "connectA")
  /\ takes(NewSocket)
  /\ tcpstatus' = "_CONNECTING"
  /\ waits(c, "conn", "conn", "EPOLLOUT")
  /\ UNCHANGED <<caller, died, immediate>>

\* The end of _connect_continue: the circuit goes on, unless getsockname fails.
Connected(c) ==
  /\ tcpstatus' = "_CONNECTED"
  /\ \/ returnA(c, "conn") /\ UNCHANGED status
     \/ errorA(c) /\ UNCHANGED died

\* connect succeeds at once.  _connect_continue goes on with the circuit, and
\* connectA is not done when that comes back.
connectA_now(c) ==
  /\ Runs(c, "conn", "connectA")
  /\ takes([NewSocket EXCEPT !.room = TRUE])
  /\ immediate' = TRUE
  /\ caller' = "connectA"
  /\ Connected(c)
  /\ UNCHANGED waitVars

\* It returns to the circuit a second time.
connectA_returns(c) ==
  /\ Alive /\ run = NULL
  /\ caller = "connectA"
  /\ caller' = NULL
  /\ returnA(c, "conn")
  /\ UNCHANGED <<waitVars, status, file, tcpVars>>

_connect_continue(c) ==
  /\ Runs(c, "conn", "connectA") /\ tcpstatus = "_CONNECTING"
  /\ ~file["conn"].err
  /\ Connected(c)
  /\ UNCHANGED <<waitVars, caller, file, tries, sockets, immediate>>

\* getsockopt fails, and the socket stays open; or it reports an error, and the
\* socket is dearmed and closed.
_connect_continue_fails(c) ==
  /\ Runs(c, "conn", "connectA") /\ tcpstatus = "_CONNECTING"
  /\ tcpstatus' = "_FAILED"
  /\ errorA(c)
  /\ \/ UNCHANGED <<file, armed>>
     \/ /\ file["conn"].err
        /\ file' = [file EXCEPT !["conn"] = Closed]
        /\ armed' = [armed EXCEPT !["conn"] = NULL]
  /\ UNCHANGED <<epfd, count, batch, caller, died, tries, sockets, immediate>>
=============================================================================
