---------------------------- MODULE ProofService ----------------------------
(***************************************************************************)
(* What the prover promises a caller of a prove request (spec 4.1, 4.2,    *)
(* 7 and 8), with no workspace, tool or thread in sight: a request is      *)
(* taken, and later answered once, atomically, with                        *)
(*   - the validation error for a request without circuitId, or without    *)
(*     both proverToml and a list of inputs, checked in that order;        *)
(*   - UnknownCircuit, then ArtifactMissing, for a circuit that is not     *)
(*     registered or whose artifacts are not on disk;                      *)
(*   - otherwise a proof with at most one public-inputs entry, or one of   *)
(*     the pipeline's failures.                                            *)
(* Any number of requests are served at once, independently.               *)
(***************************************************************************)
EXTENDS ProveRequest

CONSTANTS Requests     \* request slots served concurrently

VARIABLES present,     \* registered circuits whose artifacts exist
          inflight,    \* slots holding a request not yet answered
          request,     \* each slot's request
          response     \* each slot's answer, NoResult until given

svars == <<present, inflight, request, response>>

(* The failures of a pipeline run on an admissible request. *)
PipelineErrors == {"Internal", "NargoFailed", "Timeout", "WitnessMissing",
                   "BbFailed", "ProofMissing"}

(* Inputs are supplied as a proverToml payload or a non-empty list. *)
Supplied(p) == p.toml # "absent" \/ p.inputs = "list"

(* The answers a request may get, given the artifacts on disk; the checks *)
(* are made in this order.                                                 *)
Allowed(p) ==
  IF p.cid = NoValue THEN {Err("MissingCircuitId")}
  ELSE IF ~Supplied(p) THEN {Err("MissingInputs")}
  ELSE IF p.cid \notin Circuits THEN {Err("UnknownCircuit")}
  ELSE IF p.cid \notin present THEN {Err("ArtifactMissing")}
  ELSE {Err(k) : k \in PipelineErrors} \cup ProofResults

SInit ==
  /\ present \in SUBSET Circuits
  /\ inflight = {}
  /\ request \in [Requests -> Payloads]
  /\ response = [r \in Requests |-> NoResult]

Submit(r) ==
  /\ r \notin inflight
  /\ inflight' = inflight \cup {r}
  /\ \E p \in Payloads : request' = [request EXCEPT ![r] = p]
  /\ response' = [response EXCEPT ![r] = NoResult]
  /\ UNCHANGED present

Respond(r) ==
  /\ r \in inflight
  /\ inflight' = inflight \ {r}
  /\ \E a \in Allowed(request[r]) : response' = [response EXCEPT ![r] = a]
  /\ UNCHANGED <<present, request>>

SNext == \E r \in Requests : Submit(r) \/ Respond(r)

(* Every request taken is answered. *)
SSpec == SInit /\ [][SNext]_svars /\ \A r \in Requests : WF_svars(Respond(r))

=============================================================================
