-------------------------------- MODULE Tls ---------------------------------
(***************************************************************************)
(* meloop/tls.c and meloop/openssl_helpers.c, with OpenSSL as they use it. *)
(*                                                                         *)
(* A chunk of input is a part of a handshake, or of a record.              *)
(***************************************************************************)
EXTENDS Streams

VARIABLES
  tlsstatus,  \* priv->tlsstatus.
  ssl,        \* OpenSSL: "none", "handshake", "up" or "broken".
  roots,      \* OpenSSL: whether /etc/ssl/certs could be loaded.
  trusted,    \* Whether the chain and the name of the peer are good.
  requested   \* Whether a request went out (history).

tlsVars == <<tlsstatus, ssl, roots, trusted, requested>>

TlsTypeOK ==
  /\ tlsstatus \in {"none", "_CONNECTING", "_CONNECTED"}
  /\ ssl \in {"none", "handshake", "up", "broken"}
  /\ roots \in BOOLEAN
  /\ trusted \in BOOLEAN
  /\ requested \in BOOLEAN

TlsInit ==
  /\ tlsstatus = "none"
  /\ ssl = "none"
  /\ roots = FALSE
  /\ trusted \in BOOLEAN
  /\ requested = FALSE

\* Roots that cannot be loaded are not fatal.
openssl_init ==
  /\ roots' \in BOOLEAN
  /\ UNCHANGED <<tlsstatus, ssl, trusted, requested>>

\* A bug: the callback logs what is wrong with a chain, and accepts it.
openssl_verify_callback_accepts(preverify) == TRUE

\* What the callback returns.
openssl_verify_callback(preverify) == preverify

\* SSL_new, a cipher list or a host name fails.
openssl_prepare_fails(c) ==
  /\ Runs(c, "conn", "tlsA") /\ tlsstatus # "_CONNECTING"
  /\ fails(c)
  /\ UNCHANGED tlsVars

-----------------------------------------------------------------------------
(* OpenSSL: what a call may find, how it changes ssl and the connection.   *)

\* It takes a chunk, and what it sends may fill the connection.
Take ==
  \E room \in {file["conn"].room, FALSE} :
    file' = [file EXCEPT !["conn"].in = @ - 1, !["conn"].room = room]

\* The handshake ends well: only if the chain is accepted.
SSL_done ==
  /\ ssl \in {"none", "handshake"}
  /\ HasData("conn")
  /\ openssl_verify_callback(trusted /\ roots)
  /\ ssl' = "up"
  /\ Take

\* It goes on.
SSL_wants(want) ==
  /\ ssl \in {"none", "handshake"}
  /\ ssl' = "handshake"
  /\ \/ want = "EPOLLIN" /\ Again("conn") /\ UNCHANGED file
     \/ want = "EPOLLIN" /\ HasData("conn") /\ Take
     \/ want = "EPOLLOUT" /\ Full("conn") /\ UNCHANGED file

\* It fails, or has failed before.  What can be read may be left there.
SSL_breaks ==
  /\ ssl' = "broken"
  /\ ssl = "broken" \/ HasData("conn") \/ AtEnd("conn")
  /\ UNCHANGED file

-----------------------------------------------------------------------------

tlsA(c) ==
  /\ Runs(c, "conn", "tlsA")
  /\ \/ /\ SSL_done
        /\ tlsstatus' = "_CONNECTED"
        /\ returnA(c, "conn")
        /\ UNCHANGED <<waitVars, status>>
     \/ /\ \E want \in {"EPOLLIN", "EPOLLOUT"} :
             SSL_wants(want) /\ waits(c, "conn", "conn", want)
        /\ tlsstatus' = "_CONNECTING"
        /\ UNCHANGED died
     \/ /\ SSL_breaks
        /\ tlsstatus' = "_CONNECTING"
        /\ errorA(c)
        /\ UNCHANGED <<waitVars, died>>
  /\ UNCHANGED <<caller, streamVars, roots, trusted, requested>>

\* The branch after a failed SSL_write is an assignment, and always taken: it
\* waits, whatever the failure was.
tlswriteA_data(c) ==
  /\ \/ /\ \/ ssl = "up" /\ HasRoom("conn") /\ UNCHANGED <<ssl, file>>
           \/ SSL_done
        /\ requested' = TRUE
        /\ returnA(c, "conn")
        /\ UNCHANGED <<waitVars, status>>
     \/ /\ \/ ssl = "up" /\ Full("conn") /\ UNCHANGED <<ssl, file>>
           \/ \E want \in {"EPOLLIN", "EPOLLOUT"} : SSL_wants(want)
           \/ SSL_breaks
        /\ waits(c, "conn", "conn", "EPOLLOUT")
        /\ UNCHANGED <<died, requested>>
     \/ /\ file["conn"].err /\ file["conn"].hup
        /\ died' = "SIGPIPE"
        /\ UNCHANGED <<waitVars, run, current, status, file, ssl, requested>>
  /\ UNCHANGED <<caller, streamVars, tlsstatus, roots, trusted>>

tlswriteA(c) ==
  /\ Runs(c, "conn", "tlswriteA")
  /\ IF data = "empty" THEN fails(c) /\ UNCHANGED tlsVars ELSE tlswriteA_data(c)

tlsreadA_data(c) ==
  /\ Runs(c, "conn", "tlsreadA")
  /\ HasData("conn")
  /\ ssl = "up" /\ UNCHANGED ssl
  /\ Take
  /\ data' = "input"
  /\ returnA(c, "conn")
  /\ UNCHANGED <<waitVars, caller, status, nonblock, owed, split,
                 tlsstatus, roots, trusted, requested>>

\* A bug: SSL_read that has nothing goes on with the circuit.
tlsreadA_goes_on(c) ==
  /\ Runs(c, "conn", "tlsreadA")
  /\ ssl = "up" /\ ~HasData("conn")
  /\ returnA(c, "conn")
  /\ UNCHANGED <<waitVars, caller, status, file, streamVars, tlsVars>>

\* The same assignment: every failed SSL_read waits, for more of a record, after
\* the end of the connection, or in a broken one.
tlsreadA_waits(c) ==
  /\ Runs(c, "conn", "tlsreadA")
  /\ \/ ssl = "up" /\ Again("conn") /\ UNCHANGED <<ssl, file>>
     \/ ssl = "up" /\ HasData("conn") /\ Take /\ UNCHANGED ssl
     \/ SSL_breaks
  /\ waits(c, "conn", "conn", "EPOLLIN")
  /\ UNCHANGED <<caller, died, streamVars, tlsstatus, roots, trusted, requested>>
=============================================================================
