-------------------------------- MODULE Relay --------------------------------
(***************************************************************************)
(* One request/response exchange through the host-side bridge             *)
(* (src/aws/vsock-bridge.py, bridge) and the enclave's connection handler  *)
(* (src/aws/enclave-server.py, handle_connection and dispatch), over a     *)
(* discrete clock.                                                         *)
(*                                                                         *)
(*   client --TCP--> bridge --vsock--> server                              *)
(*                                                                         *)
(* The client is the environment: it sends its request in Chunks pieces,  *)
(* may pause between them, may or may not half-close, and may reset the    *)
(* connection.  The bridge connects to the enclave, reads the client until *)
(* EOF or an idle timeout, forwards everything at once with a half-close,  *)
(* reads the enclave until EOF or a receive timeout, relays what it got    *)
(* and closes both sockets.  The server reads until EOF or its own idle    *)
(* timeout, parses, dispatches and sends one reply.  Exchanges do not      *)
(* share state, so one exchange at a time is modelled; a finished exchange *)
(* is followed by the next one.                                            *)
(*                                                                         *)
(* Time advances in ticks (Tick).  A socket timeout is a countdown armed   *)
(* when the blocking call starts; every step the threads can take without *)
(* waiting is taken before time advances (Urgent).                         *)
(***************************************************************************)
EXTENDS Naturals

CONSTANTS Chunks,         \* pieces the client's request is sent in
          IdleTimeout,    \* settimeout(5) / settimeout(5.0), in ticks
          VsockTimeout,   \* vs.settimeout(30), in ticks
          ProveTime,      \* longest a prove dispatch runs: 2 x 120 s, in ticks
          Kinds           \* request types: "health", "prove", "attestation", other

ASSUME RelayAssumption ==
  /\ Chunks \in Nat \ {0}
  /\ IdleTimeout \in Nat \ {0}
  /\ VsockTimeout \in Nat \ {0}
  /\ ProveTime \in Nat
  /\ "prove" \in Kinds
  /\ "invalid" \notin Kinds /\ "none" \notin Kinds   \* reply labels of the model

NoReply == "none"              \* nothing (b"") was received or sent
Replies == Kinds \cup {"invalid"}  \* reply to a request of kind k, or "Invalid JSON"

VARIABLES
  cl,       \* client: "idle", "open", "reset" or "done"
  kind,     \* type of the client's request
  sent,     \* chunks the client has written
  fin,      \* the client has half-closed (shutdown SHUT_WR)
  got,      \* what the client received before its connection closed
  bpc,      \* bridge thread: "idle", "connect", "readClient", "forward", "readEnclave", "closed"
  bbuf,     \* chunks the bridge has read from the client (data)
  bt,       \* bridge's armed socket timeout, ticks left
  fwd,      \* the bridge's sendall(data) and shutdown reached the vsock
  vsClosed, \* the bridge closed the vsock
  spc,      \* server thread: "idle", "accept", "read", "compute", "closed"
  sraw,     \* chunks the server read (raw)
  st,       \* server's deadline: read timeout, or end of a prove, ticks left
  sreply,   \* the reply the server built
  out       \* its sendall: "none", "sent" or "lost"

vars == <<cl, kind, sent, fin, got, bpc, bbuf, bt, fwd, vsClosed, spc, sraw, st, sreply, out>>

TypeOK ==
  /\ cl \in {"idle", "open", "reset", "done"}
  /\ kind \in Kinds
  /\ sent \in 0..Chunks /\ bbuf \in 0..Chunks /\ sraw \in 0..Chunks
  /\ fin \in BOOLEAN /\ fwd \in BOOLEAN /\ vsClosed \in BOOLEAN
  /\ got \in Replies \cup {NoReply} /\ sreply \in Replies \cup {NoReply}
  /\ bpc \in {"idle", "connect", "readClient", "forward", "readEnclave", "closed"}
  /\ spc \in {"idle", "accept", "read", "compute", "closed"}
  /\ bt \in 0..VsockTimeout \cup 0..IdleTimeout /\ st \in 0..ProveTime \cup 0..IdleTimeout
  /\ out \in {"none", "sent", "lost"}

Init ==
  /\ cl = "idle" /\ kind \in Kinds /\ sent = 0 /\ fin = FALSE /\ got = NoReply
  /\ bpc = "idle" /\ bbuf = 0 /\ bt = 0 /\ fwd = FALSE /\ vsClosed = FALSE
  /\ spc = "idle" /\ sraw = 0 /\ st = 0 /\ sreply = NoReply /\ out = "none"

-----------------------------------------------------------------------------
(* The client (environment). *)

Open ==
  /\ cl = "idle" /\ bpc = "idle"
  /\ cl' = "open" /\ bpc' = "connect"
  /\ kind' \in Kinds
  /\ UNCHANGED <<sent, fin, got, bbuf, bt, fwd, vsClosed, spc, sraw, st, sreply, out>>

Send ==
  /\ cl = "open" /\ sent < Chunks
  /\ sent' = sent + 1
  /\ UNCHANGED <<cl, kind, fin, got, bpc, bbuf, bt, fwd, vsClosed, spc, sraw, st, sreply, out>>

HalfClose ==
  /\ cl = "open" /\ sent = Chunks /\ ~fin
  /\ fin' = TRUE
  /\ UNCHANGED <<cl, kind, sent, got, bpc, bbuf, bt, fwd, vsClosed, spc, sraw, st, sreply, out>>

Reset ==
  /\ cl = "open"
  /\ cl' = "reset"
  /\ UNCHANGED <<kind, sent, fin, got, bpc, bbuf, bt, fwd, vsClosed, spc, sraw, st, sreply, out>>

-----------------------------------------------------------------------------
(* The bridge thread. *)

(* The finally clause: vs.close() and tcp_conn.close().  A client still    *)
(* connected sees EOF after whatever tcp_conn.sendall delivered.           *)
CloseBoth(resp) ==
  /\ bpc' = "closed" /\ vsClosed' = TRUE
  /\ IF cl = "open" THEN cl' = "done" /\ got' = resp
                    ELSE UNCHANGED <<cl, got>>

(* vs.settimeout(30); vs.connect(...): the enclave's accept loop starts a  *)
(* handler thread; or connect raises and both sockets are closed.          *)
BConnect ==
  /\ bpc = "connect"
  /\ \/ /\ bpc' = "readClient" /\ bt' = IdleTimeout /\ spc' = "accept"
        /\ UNCHANGED <<cl, got, vsClosed>>
     \/ CloseBoth(NoReply) /\ UNCHANGED <<bt, spc>>
  /\ UNCHANGED <<kind, sent, fin, bbuf, fwd, sraw, st, sreply, out>>

\* Mutant: tcp_conn.recv without a timeout; only EOF ends the loop.
BReadNoTimeout ==
  /\ bpc = "readClient"
  /\ \/ cl # "reset" /\ sent > bbuf /\ bbuf' = sent /\ bt' = IdleTimeout
        /\ UNCHANGED <<bpc, cl, got, vsClosed>>
     \/ cl # "reset" /\ sent = bbuf /\ fin /\ bpc' = "forward"
        /\ UNCHANGED <<bbuf, bt, cl, got, vsClosed>>
     \/ cl = "reset" /\ CloseBoth(NoReply) /\ UNCHANGED <<bbuf, bt>>
  /\ UNCHANGED <<kind, sent, fin, fwd, spc, sraw, st, sreply, out>>

(* The tcp_conn.recv loop with settimeout(5): a chunk re-arms the timeout; *)
(* EOF or socket.timeout ends the loop; a reset raises out of bridge().    *)
BRead ==
  /\ bpc = "readClient"
  /\ \/ cl # "reset" /\ sent > bbuf /\ bbuf' = sent /\ bt' = IdleTimeout
        /\ UNCHANGED <<bpc, cl, got, vsClosed>>
     \/ cl # "reset" /\ sent = bbuf /\ fin /\ bpc' = "forward"
        /\ UNCHANGED <<bbuf, bt, cl, got, vsClosed>>
     \/ cl # "reset" /\ sent = bbuf /\ ~fin /\ bt = 0 /\ bpc' = "forward"
        /\ UNCHANGED <<bbuf, bt, cl, got, vsClosed>>
     \/ cl = "reset" /\ CloseBoth(NoReply) /\ UNCHANGED <<bbuf, bt>>
  /\ UNCHANGED <<kind, sent, fin, fwd, spc, sraw, st, sreply, out>>

(* vs.sendall(data); vs.shutdown(SHUT_WR), then the vsock timeout of 30 s  *)
(* governs each recv.  If the server has already closed its end the send   *)
(* may raise, which closes both sockets.                                   *)
BForward ==
  /\ bpc = "forward"
  /\ \/ /\ fwd' = TRUE /\ bpc' = "readEnclave" /\ bt' = VsockTimeout
        /\ UNCHANGED <<cl, got, vsClosed>>
     \/ spc = "closed" /\ CloseBoth(NoReply) /\ UNCHANGED <<fwd, bt>>
  /\ UNCHANGED <<kind, sent, fin, bbuf, spc, sraw, st, sreply, out>>

\* Mutant: the receive timeout is honoured even when the reply is there.
BRecvTimeoutFirst ==
  /\ bpc = "readEnclave"
  /\ \/ out = "sent" /\ CloseBoth(sreply)
     \/ spc = "closed" /\ out # "sent" /\ CloseBoth(NoReply)
     \/ bt = 0 /\ CloseBoth(NoReply)
  /\ UNCHANGED <<kind, sent, fin, bbuf, bt, fwd, spc, sraw, st, sreply, out>>

(* The vs.recv loop: the server's reply and its close, or a bare EOF, or   *)
(* socket.timeout with nothing received; then tcp_conn.sendall(resp) and   *)
(* close both.                                                             *)
BRecv ==
  /\ bpc = "readEnclave"
  /\ \/ out = "sent" /\ CloseBoth(sreply)
     \/ spc = "closed" /\ out # "sent" /\ CloseBoth(NoReply)
     \/ spc # "closed" /\ bt = 0 /\ CloseBoth(NoReply)
  /\ UNCHANGED <<kind, sent, fin, bbuf, bt, fwd, spc, sraw, st, sreply, out>>

-----------------------------------------------------------------------------
(* The server's handler thread. *)

(* server.accept() and the thread start; handle_connection arms           *)
(* conn.settimeout(5.0) for its recv loop.                                 *)
SAccept ==
  /\ spc = "accept"
  /\ spc' = "read" /\ st' = IdleTimeout
  /\ UNCHANGED <<cl, kind, sent, fin, got, bpc, bbuf, bt, fwd, vsClosed, sraw, sreply, out>>

(* conn.sendall(json.dumps(response)) and conn.close() in finally.  A      *)
(* closed peer makes sendall raise; the error reply the except clause      *)
(* tries to send fails the same way.                                       *)
SendReply(r) ==
  /\ spc' = "closed" /\ sreply' = r
  /\ out' = IF vsClosed THEN "lost" ELSE "sent"

\* Mutant: the prove deadline armed one tick late.
DispatchLate ==
  IF kind = "prove"
  THEN spc' = "compute" /\ st' = ProveTime + 1 /\ UNCHANGED <<sreply, out>>
  ELSE SendReply(kind) /\ UNCHANGED st

(* dispatch(request): prove runs the pipeline; health, attestation and an  *)
(* unknown type are answered at once.                                      *)
Dispatch ==
  IF kind = "prove"
  THEN spc' = "compute" /\ st' = ProveTime /\ UNCHANGED <<sreply, out>>
  ELSE SendReply(kind) /\ UNCHANGED st

(* The recv loop ends on data followed by EOF, on a bare EOF, or on        *)
(* socket.timeout; then: empty raw -> return without a reply; bytes that   *)
(* are not a whole JSON document -> "Invalid JSON" error; else dispatch.   *)
SRead ==
  /\ spc = "read"
  /\ \/ fwd /\ sraw' = bbuf
     \/ ~fwd /\ vsClosed /\ sraw' = 0
     \/ ~fwd /\ ~vsClosed /\ st = 0 /\ sraw' = 0
  /\ \/ sraw' = 0 /\ spc' = "closed" /\ UNCHANGED <<st, sreply, out>>
     \/ sraw' \in 1..(Chunks - 1) /\ SendReply("invalid") /\ UNCHANGED st
     \/ sraw' = Chunks /\ Dispatch
  /\ UNCHANGED <<cl, kind, sent, fin, got, bpc, bbuf, bt, fwd, vsClosed>>

(* handle_prove returns, within the two 120 s tool timeouts, and the       *)
(* reply is sent.                                                          *)
SRespond ==
  /\ spc = "compute"
  /\ SendReply(kind)
  /\ UNCHANGED <<cl, kind, sent, fin, got, bpc, bbuf, bt, fwd, vsClosed, sraw, st>>

-----------------------------------------------------------------------------
(* Time.  Every step a thread can take without waiting comes first; a      *)
(* prove must end by its deadline.                                         *)

Urgent == BConnect \/ BRead \/ BForward \/ BRecv \/ SAccept \/ SRead
            \/ (st = 0 /\ SRespond)

Tick ==
  /\ ~ENABLED Urgent
  /\ bt' = IF bpc \in {"readClient", "readEnclave"} /\ bt > 0 THEN bt - 1 ELSE bt
  /\ st' = IF spc \in {"read", "compute"} /\ st > 0 THEN st - 1 ELSE st
  /\ UNCHANGED <<cl, kind, sent, fin, got, bpc, bbuf, fwd, vsClosed, spc, sraw, sreply, out>>

(* Both threads are gone; the next client connects to a fresh pair. *)
NextExchange ==
  /\ cl \in {"done", "reset"} /\ bpc = "closed" /\ spc \in {"idle", "closed"}
  /\ cl' = "idle" /\ kind' \in Kinds /\ sent' = 0 /\ fin' = FALSE /\ got' = NoReply
  /\ bpc' = "idle" /\ bbuf' = 0 /\ bt' = 0 /\ fwd' = FALSE /\ vsClosed' = FALSE
  /\ spc' = "idle" /\ sraw' = 0 /\ st' = 0 /\ sreply' = NoReply /\ out' = "none"

Client == Open \/ Send \/ HalfClose \/ Reset
Bridge == BConnect \/ BRead \/ BForward \/ BRecv
Server == SAccept \/ SRead \/ SRespond

Next == Client \/ Bridge \/ Server \/ Tick \/ NextExchange

(* Threads are scheduled and time passes; the client need not act.         *)
Fairness == WF_vars(Bridge) /\ WF_vars(Server) /\ WF_vars(Tick)

Spec == Init /\ [][Next]_vars /\ Fairness

-----------------------------------------------------------------------------
(* A reply the server managed to write before the bridge closed the vsock  *)
(* reaches the client unchanged: the bridge's 30 s receive timeout never   *)
(* discards a reply that is already there (bridge, lines 49-59).           *)
DeliveredIntact ==
  cl = "done" /\ out = "sent" => got = sreply

(* Both threads of every exchange end, for every client that writes its   *)
(* request in at most Chunks pieces: it may pause between pieces as long   *)
(* as it likes, never half-close, or reset, and the enclave may take its   *)
(* full 240 s; each blocking call of the bridge and the server is bounded  *)
(* by a timeout or by the peer's close.  A client that keeps writing more  *)
(* often than every 5 s is not covered: every chunk re-arms settimeout(5)  *)
(* (vsock-bridge.py 34-40) and nothing bounds the whole read, so such a    *)
(* client holds the bridge thread for as long as it writes.                *)
ThreadsEnd ==
  /\ bpc = "connect" ~> bpc = "closed"
  /\ spc = "accept" ~> spc = "closed"

(* Spec 4.1 and 7: an empty request body is an error and yields an Error   *)
(* response while the connection is still writable.  handle_connection    *)
(* returns without replying (line 519).                                    *)
EmptyRequestAnswered ==
  spc = "closed" /\ sraw = 0 /\ ~vsClosed => out = "sent"

(* Spec 4.4: the bridge relays the enclave's response for the exchange.    *)
(* Any reply the enclave builds reaches the client; the bridge's 30 s      *)
(* receive timeout (vsock-bridge.py line 29) cuts off a proof that takes   *)
(* longer, while spec 4.2 allows 120 s per tool.                           *)
AnswerReachesClient ==
  cl = "done" /\ spc = "closed" /\ sreply # NoReply => got = sreply

(* Spec 4.1 and 4.4: the server reads the request the bridge forwards.     *)
(* The bridge connects before it reads the client (vsock-bridge.py line    *)
(* 30), so the enclave's 5 s idle timer runs while the bridge is still     *)
(* waiting for the client's half-close or its own 5 s timer.               *)
ForwardedRequestRead ==
  fwd /\ spc \notin {"accept", "read"} => sraw = bbuf

=============================================================================
