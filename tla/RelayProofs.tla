----------------------------- MODULE RelayProofs -----------------------------
(***************************************************************************)
(* Safety of one bridge/enclave exchange for every number of chunks and    *)
(* every value of the timeouts: the state stays well typed, and a reply    *)
(* the enclave wrote reaches the client unchanged.                         *)
(*                                                                         *)
(* Tick is guarded by ~ENABLED Urgent; the proofs never need that guard,   *)
(* only what Tick does to the two timers.                                  *)
(***************************************************************************)
EXTENDS Relay, TLAPS

(* The order in which the code moves the request and the reply along:     *)
(* the enclave thread exists only once the bridge has connected; the       *)
(* bridge reads no more than the client sent, and the server no more than  *)
(* the bridge read and nothing before it was forwarded, and a prove runs   *)
(* only on a forwarded request; nothing is forwarded before the bridge is  *)
(* done reading; the server writes nothing                                 *)
(* before the request was forwarded, and writes at most once, as its last  *)
(* act; a finished client was closed by the bridge, which closed the vsock *)
(* with it.                                                                *)
Ordering ==
  /\ sraw <= bbuf /\ bbuf <= sent
  /\ sraw > 0 => fwd
  /\ spc = "compute" => fwd
  /\ bpc \in {"idle", "connect"} => spc = "idle"
  /\ bpc \in {"idle", "connect", "readClient", "forward"} => ~fwd
  /\ ~fwd => out = "none"
  /\ out = "sent" => spc = "closed"
  /\ spc \in {"idle", "accept", "read", "compute"} => sreply = NoReply
  /\ bpc = "closed" => vsClosed
  /\ cl = "done" => bpc = "closed"

(* The inductive invariant. *)
IInv == TypeOK /\ Ordering /\ DeliveredIntact

-----------------------------------------------------------------------------
(* A fresh exchange, nothing sent, read or written, satisfies IInv. *)
LEMMA IInvInit == Init => IInv
<1> SUFFICES ASSUME Init PROVE IInv
  OBVIOUS
<1>1. TypeOK
  <2>1. bt \in 0..VsockTimeout \cup 0..IdleTimeout /\ st \in 0..ProveTime \cup 0..IdleTimeout
    BY RelayAssumption DEF Init
  <2>2. sent \in 0..Chunks /\ bbuf \in 0..Chunks /\ sraw \in 0..Chunks
    BY RelayAssumption DEF Init
  <2>3. got \in Replies \cup {NoReply} /\ sreply \in Replies \cup {NoReply}
    BY DEF Init, Replies
  <2>4. QED
    BY <2>1, <2>2, <2>3, Zenon DEF Init, TypeOK
<1>2. Ordering
  BY DEF Init, Ordering, NoReply
<1>3. DeliveredIntact
  BY RelayAssumption DEF Init, DeliveredIntact, NoReply
<1>4. QED
  BY <1>1, <1>2, <1>3 DEF IInv

(* What the finally clause of bridge() leaves: both sockets closed, and a *)
(* client that was connected done with the response relayed.              *)
LEMMA CloseBothType ==
  ASSUME TypeOK, NEW resp \in Replies \cup {NoReply}, CloseBoth(resp)
  PROVE  /\ cl' \in {"idle", "open", "reset", "done"}
         /\ got' \in Replies \cup {NoReply}
         /\ bpc' = "closed" /\ vsClosed' = TRUE
<1>1. CASE cl = "open"
  BY <1>1, Zenon DEF CloseBoth
<1>2. CASE cl # "open"
  BY <1>2, Zenon DEF CloseBoth, TypeOK
<1>3. QED
  BY <1>1, <1>2

(* TypeOK, split into the counters and timers and the control state. *)
TypeNum ==
  /\ sent \in 0..Chunks /\ bbuf \in 0..Chunks /\ sraw \in 0..Chunks
  /\ bt \in 0..VsockTimeout \cup 0..IdleTimeout /\ st \in 0..ProveTime \cup 0..IdleTimeout

TypeSym ==
  /\ cl \in {"idle", "open", "reset", "done"}
  /\ kind \in Kinds
  /\ fin \in BOOLEAN /\ fwd \in BOOLEAN /\ vsClosed \in BOOLEAN
  /\ got \in Replies \cup {NoReply} /\ sreply \in Replies \cup {NoReply}
  /\ bpc \in {"idle", "connect", "readClient", "forward", "readEnclave", "closed"}
  /\ spc \in {"idle", "accept", "read", "compute", "closed"}
  /\ out \in {"none", "sent", "lost"}

(* The two halves together are TypeOK. *)
LEMMA TypeSplit == TypeOK <=> TypeNum /\ TypeSym
BY Zenon DEF TypeOK, TypeNum, TypeSym

(* Tick only counts the armed timeouts down. *)
LEMMA TickEffect ==
  ASSUME Tick
  PROVE  /\ bt' = IF bpc \in {"readClient", "readEnclave"} /\ bt > 0 THEN bt - 1 ELSE bt
         /\ st' = IF spc \in {"read", "compute"} /\ st > 0 THEN st - 1 ELSE st
         /\ UNCHANGED <<cl, kind, sent, fin, got, bpc, bbuf, fwd, vsClosed, spc, sraw, sreply, out>>
BY DEF Tick

(* No step takes a counter or a timer out of its range. *)
LEMMA NumStep == TypeOK /\ [Next]_vars => TypeNum'
<1> SUFFICES ASSUME TypeOK, [Next]_vars PROVE TypeNum'
  OBVIOUS
<1> USE RelayAssumption DEF TypeOK, TypeNum
<1>1. CASE Client
  BY <1>1 DEF Client, Open, Send, HalfClose, Reset
<1>2. CASE Bridge
  BY <1>2 DEF Bridge, BConnect, BRead, BForward, BRecv, CloseBoth
<1>3. CASE Server
  BY <1>3 DEF Server, SAccept, SRead, SRespond, Dispatch, SendReply
<1>4. CASE Tick
  BY <1>4, TickEffect
<1>5. CASE NextExchange
  BY <1>5 DEF NextExchange
<1>6. CASE UNCHANGED vars
  BY <1>6 DEF vars
<1>7. QED
  BY <1>1, <1>2, <1>3, <1>4, <1>5, <1>6 DEF Next

(* No step gives a control variable a value outside its type. *)
LEMMA SymStep == TypeOK /\ [Next]_vars => TypeSym'
<1> SUFFICES ASSUME TypeOK, [Next]_vars PROVE TypeSym'
  OBVIOUS
<1> USE DEF TypeOK, TypeSym
<1>1. CASE Open
  BY <1>1 DEF Open
<1>9. CASE Send
  BY <1>9 DEF Send
<1>10. CASE HalfClose
  BY <1>10 DEF HalfClose
<1>11. CASE Reset
  BY <1>11 DEF Reset
<1>2. CASE BConnect \/ BRead \/ BForward
  <2>1. CASE CloseBoth(NoReply)
    BY <1>2, <2>1, CloseBothType DEF BConnect, BRead, BForward, NoReply
  <2>2. CASE ~CloseBoth(NoReply)
    BY <1>2, <2>2 DEF BConnect, BRead, BForward
  <2>3. QED
    BY <2>1, <2>2
<1>3. CASE BRecv
  <2>1. \E resp \in Replies \cup {NoReply} : CloseBoth(resp)
    BY <1>3 DEF BRecv
  <2>2. QED
    BY <1>3, <2>1, CloseBothType DEF BRecv
<1>4. CASE Server
  BY <1>4, RelayAssumption DEF Server, SAccept, SRead, SRespond, Dispatch,
                                       SendReply, Replies
<1>5. CASE Tick
  BY <1>5, TickEffect
<1>6. CASE NextExchange
  BY <1>6 DEF NextExchange, NoReply, Replies
<1>7. CASE UNCHANGED vars
  BY <1>7 DEF vars
<1>8. QED
  BY <1>1, <1>9, <1>10, <1>11, <1>2, <1>3, <1>4, <1>5, <1>6, <1>7
  DEF Next, Client, Bridge

(* No step of the exchange breaks TypeOK. *)
LEMMA TypeStep == TypeOK /\ [Next]_vars => TypeOK'
BY NumStep, SymStep, Zenon DEF TypeOK, TypeNum, TypeSym

(* The rest of IInv, step by step, the types known on both sides. *)
LEMMA OrderStep ==
  IInv /\ TypeOK' /\ [Next]_vars => (Ordering /\ DeliveredIntact)'
<1> SUFFICES ASSUME IInv, TypeOK', [Next]_vars
             PROVE  (Ordering /\ DeliveredIntact)'
  OBVIOUS
<1> USE RelayAssumption DEF IInv, Ordering, DeliveredIntact, NoReply
<1>1. CASE Open
  BY <1>1 DEF Open
<1>2. CASE Send
  BY <1>2 DEF Send, TypeOK
<1>3. CASE HalfClose
  BY <1>3 DEF HalfClose
<1>4. CASE Reset
  BY <1>4 DEF Reset
<1>5. CASE BConnect
  BY <1>5 DEF BConnect, CloseBoth
<1>6. CASE BRead
  BY <1>6 DEF BRead, CloseBoth, TypeOK
<1>7. CASE BForward
  BY <1>7 DEF BForward, CloseBoth
<1>8. CASE BRecv
  BY <1>8 DEF BRecv, CloseBoth
<1>9. CASE SAccept
  BY <1>9 DEF SAccept
<1>10. CASE SRead
  BY <1>10 DEF SRead, Dispatch, SendReply, TypeOK
<1>11. CASE SRespond
  BY <1>11 , SMTT(30) DEF SRespond, SendReply
<1>12. CASE Tick
  BY <1>12 DEF Tick
<1>13. CASE NextExchange
  BY <1>13 DEF NextExchange
<1>14. CASE UNCHANGED vars
  BY <1>14 DEF vars
<1>15. QED
  BY <1>1, <1>2, <1>3, <1>4, <1>5, <1>6, <1>7, <1>8, <1>9, <1>10, <1>11,
     <1>12, <1>13, <1>14 DEF Next, Client, Bridge, Server

(* IInv is inductive. *)
LEMMA IInvStep == IInv /\ [Next]_vars => IInv'
BY TypeStep, OrderStep DEF IInv


-----------------------------------------------------------------------------
(* IInv holds in every state of every exchange. *)
THEOREM IInvInvariant == Spec => []IInv
<1>1. Init => IInv
  BY IInvInit
<1>2. IInv /\ [Next]_vars => IInv'
  BY IInvStep
<1>3. QED
  BY <1>1, <1>2, PTL DEF Spec

(* Every state of the bridge and the enclave handler is well typed, for    *)
(* any number of chunks and any timeouts: in particular bridge() only ever *)
(* arms its socket timeout with 5 s or 30 s, and handle_connection its     *)
(* deadline with 5 s or the length of a prove.                             *)
THEOREM RelayTypeCorrect == Spec => []TypeOK
BY IInvInvariant, PTL DEF IInv

(* A reply the enclave's sendall wrote before the bridge closed the vsock  *)
(* is what the client receives: whatever the timers, bridge() never        *)
(* replaces an answer already sent with the empty response of its 30 s     *)
(* receive timeout (vsock-bridge.py 48-59).                                *)
THEOREM ReplyDeliveredIntact == Spec => []DeliveredIntact
BY IInvInvariant, PTL DEF IInv

=============================================================================
