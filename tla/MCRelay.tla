------------------------------- MODULE MCRelay -------------------------------
(***************************************************************************)
(* Relay for TLC.  One tick is 5 s: the idle timeouts are 1 tick, the      *)
(* bridge's vsock timeout 6 ticks, and a prove dispatch may run up to two  *)
(* 120 s tool timeouts, 48 ticks.  Health stands for every request type    *)
(* answered at once (attestation, unknown type).                           *)
(***************************************************************************)
EXTENDS Relay

MCKinds == {"health", "prove"}

=============================================================================
