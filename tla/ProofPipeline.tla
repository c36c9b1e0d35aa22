--------------------------- MODULE ProofPipeline ----------------------------
(***************************************************************************)
(* The proof pipeline of the enclave server (src/aws/enclave-server.py):   *)
(* handle_prove and generate_proof, run by one worker thread per accepted  *)
(* connection.  The workers share nothing but the filesystem under         *)
(* CIRCUIT_BASE_DIR, where each pipeline creates a request-scoped          *)
(* workspace with tempfile.TemporaryDirectory and removes it when the      *)
(* `with` block exits, on success and on every exception.                  *)
(*                                                                         *)
(* A worker slot r carries one prove request at a time: pc[r] is where its *)
(* thread is in handle_prove/generate_proof, ws[r] the workspace mkdtemp   *)
(* gave it, result[r] the value handle_prove will return (set where the    *)
(* code raises or builds the result), and disk the workspaces that exist.  *)
(* External tools, the filesystem and the NSM device are the environment:  *)
(* each of their outcomes is a disjunct.                                   *)
(***************************************************************************)
EXTENDS Naturals, NsmAttestation, ProveRequest

CONSTANTS Requests,    \* worker slots (one thread per accepted connection)
          WsNames      \* names mkdtemp may draw for a workspace

ASSUME PipelineAssumption ==
  /\ Circuits \subseteq CircuitIds
  /\ NoValue \notin CircuitIds \cup WsNames

PCs == {"validate", "resolve", "mkdtemp", "stage", "nargo", "witness", "bb",
        "output", "attest", "cleanup", "done"}

(* The statements executed inside `with TemporaryDirectory(...)`. *)
WithBlock == {"stage", "nargo", "witness", "bb", "output", "attest", "cleanup"}

VARIABLES pc, req, present, ws, disk, result

vars == <<pc, req, present, ws, disk, result>>

Live == {r \in Requests : pc[r] \in WithBlock}

TypeOK ==
  /\ pc \in [Requests -> PCs]
  /\ req \in [Requests -> Payloads]
  /\ present \subseteq Circuits
  /\ ws \in [Requests -> WsNames \cup {NoValue}]
  /\ disk \subseteq WsNames
  /\ result \in [Requests -> Results]

(* The artifacts baked into the image are fixed at start: `present` are    *)
(* the registered circuits whose bytecode and vk both exist.  Every worker *)
(* is idle.                                                                *)
Init ==
  /\ pc = [r \in Requests |-> "done"]
  /\ req \in [Requests -> Payloads]
  /\ present \in SUBSET Circuits
  /\ ws = [r \in Requests |-> NoValue]
  /\ disk = {}
  /\ result = [r \in Requests |-> NoResult]

Goto(r, l) == pc' = [pc EXCEPT ![r] = l]

(* An exception before the `with` block: handle_prove returns it. *)
Fail(r, k) ==
  /\ result' = [result EXCEPT ![r] = Err(k)]
  /\ Goto(r, "done")
  /\ UNCHANGED <<req, present, ws, disk>>

(* An exception inside the `with` block: __exit__ runs first. *)
Abort(r, k) ==
  /\ result' = [result EXCEPT ![r] = Err(k)]
  /\ Goto(r, "cleanup")
  /\ UNCHANGED <<req, present, ws, disk>>

Step(r, l) == Goto(r, l) /\ UNCHANGED <<req, present, ws, disk, result>>

-----------------------------------------------------------------------------
(* Plausible bugs in the actions below, each the mutant of one property.   *)

\* The artifact check moved after mkdtemp (or dropped).
ResolveNoArtifactCheck(r) ==
  LET c == req[r].cid IN
  /\ pc[r] = "resolve"
  /\ \/ c \notin Circuits /\ Fail(r, "UnknownCircuit")
     \/ c \in Circuits /\ Step(r, "mkdtemp")

\* A hand-rolled workspace name without O_EXCL: an existing one may be taken.
MakeWorkspaceAnyName(r) ==
  /\ pc[r] = "mkdtemp"
  /\ \/ /\ req[r].rid = "plain"
        /\ \E w \in WsNames :
             /\ ws' = [ws EXCEPT ![r] = w]
             /\ disk' = disk \cup {w}
        /\ Goto(r, "stage")
        /\ UNCHANGED <<req, present, result>>
     \/ Fail(r, "Internal")

\* TimeoutExpired handled around the tool call and returned directly,
\* bypassing the workspace removal.
NargoTimeoutEscapes(r) ==
  /\ pc[r] = "nargo"
  /\ \/ Step(r, "witness")
     \/ Abort(r, "NargoFailed")
     \/ Fail(r, "Timeout")

\* A non-zero nargo exit retried from the staging step instead of reported.
NargoRetry(r) ==
  /\ pc[r] = "nargo"
  /\ \/ Step(r, "witness")
     \/ Step(r, "stage")
     \/ Abort(r, "Timeout")

\* public_inputs returned split into its field elements instead of as the
\* sole element of the list.
ReadOutputSplit(r) ==
  /\ pc[r] = "output"
  /\ \/ Abort(r, "ProofMissing")
     \/ /\ \E n \in 0..2 :
             result' = [result EXCEPT ![r] = [type |-> "proof", pis |-> n, att |-> FALSE]]
        /\ Goto(r, "attest")
        /\ UNCHANGED <<req, present, ws, disk>>

-----------------------------------------------------------------------------
(* run_server accepts a connection and its thread dispatches a "prove"     *)
(* request to handle_prove; the slot's earlier request left no state.      *)
Accept(r) ==
  /\ pc[r] = "done"
  /\ \E p \in Payloads : req' = [req EXCEPT ![r] = p]
  /\ ws' = [ws EXCEPT ![r] = NoValue]
  /\ result' = [result EXCEPT ![r] = NoResult]
  /\ Goto(r, "validate")
  /\ UNCHANGED <<present, disk>>

(* handle_prove: the two early returns, then the call of generate_proof. *)
Validate(r) ==
  LET p == req[r] IN
  /\ pc[r] = "validate"
  /\ \/ p.cid = NoValue /\ Fail(r, "MissingCircuitId")
     \/ /\ p.cid # NoValue
        /\ p.toml = "absent" /\ p.inputs # "list"
        /\ Fail(r, "MissingInputs")
     \/ /\ p.cid # NoValue
        /\ p.toml # "absent" \/ p.inputs = "list"
        /\ Step(r, "resolve")

(* get_circuit_paths and the artifact existence check, before any         *)
(* workspace exists.                                                       *)
Resolve(r) ==
  LET c == req[r].cid IN
  /\ pc[r] = "resolve"
  /\ \/ c \notin Circuits /\ Fail(r, "UnknownCircuit")
     \/ c \in Circuits \ present /\ Fail(r, "ArtifactMissing")
     \/ c \in present /\ Step(r, "mkdtemp")

(* tempfile.TemporaryDirectory(prefix=f"proof-{request_id}-", ...):       *)
(* mkdtemp creates a directory under a name no existing entry has (O_EXCL  *)
(* retry).  A "/" in request_id names a parent that does not exist, and    *)
(* mkdir can fail outright; both raise an OSError handle_prove reports as  *)
(* an internal error.                                                      *)
MakeWorkspace(r) ==
  /\ pc[r] = "mkdtemp"
  /\ \/ /\ req[r].rid = "plain"
        /\ \E w \in WsNames \ disk :
             /\ ws' = [ws EXCEPT ![r] = w]
             /\ disk' = disk \cup {w}
        /\ Goto(r, "stage")
        /\ UNCHANGED <<req, present, result>>
     \/ Fail(r, "Internal")

(* Prover.toml from proverToml or from the inputs, then the copies of      *)
(* Nargo.toml, src/ and target/.  f.write of a non-string proverToml       *)
(* raises TypeError; a copy can raise OSError.                             *)
Stage(r) ==
  /\ pc[r] = "stage"
  /\ \/ req[r].toml = "nonstr" /\ Abort(r, "Internal")
     \/ Abort(r, "Internal")
     \/ req[r].toml # "nonstr" /\ Step(r, "nargo")

(* nargo execute under subprocess.run(timeout=PROVE_TIMEOUT_SECONDS). *)
Nargo(r) ==
  /\ pc[r] = "nargo"
  /\ \/ Step(r, "witness")
     \/ Abort(r, "NargoFailed")
     \/ Abort(r, "Timeout")

(* target/<circuit>.gz, else target/witness.gz, else RuntimeError. *)
LocateWitness(r) ==
  /\ pc[r] = "witness"
  /\ \/ Step(r, "bb")
     \/ Abort(r, "WitnessMissing")

(* bb prove under the same timeout. *)
Bb(r) ==
  /\ pc[r] = "bb"
  /\ \/ Step(r, "output")
     \/ Abort(r, "BbFailed")
     \/ Abort(r, "Timeout")

(* Read the proof file, then public_inputs if bb wrote it. *)
ReadOutput(r) ==
  /\ pc[r] = "output"
  /\ \/ Abort(r, "ProofMissing")
     \/ /\ \E n \in 0..1 :
             result' = [result EXCEPT ![r] = [type |-> "proof", pis |-> n, att |-> FALSE]]
        /\ Goto(r, "attest")
        /\ UNCHANGED <<req, present, ws, disk>>

(* get_nsm_attestation(sha256(proof)) inside try/except: whatever the      *)
(* device does, the proof result is kept; the document only if truthy.     *)
Attest(r) ==
  /\ pc[r] = "attest"
  /\ \E e \in NsmEnv :
       result' = [result EXCEPT ![r].att = DocAttached(e)]
  /\ Goto(r, "cleanup")
  /\ UNCHANGED <<req, present, ws, disk>>

(* TemporaryDirectory.__exit__ removes the workspace; then generate_proof  *)
(* returns or its exception reaches handle_prove, which returns.           *)
Cleanup(r) ==
  /\ pc[r] = "cleanup"
  /\ disk' = disk \ {ws[r]}
  /\ Goto(r, "done")
  /\ UNCHANGED <<req, present, ws, result>>

Worker(r) ==
  \/ Validate(r) \/ Resolve(r) \/ MakeWorkspace(r) \/ Stage(r) \/ Nargo(r)
  \/ LocateWitness(r) \/ Bb(r) \/ ReadOutput(r) \/ Attest(r) \/ Cleanup(r)

Next == \E r \in Requests : Accept(r) \/ Worker(r)

(* Every running thread is scheduled, every tool call returns within its   *)
(* timeout, and the NSM ioctl returns (it has no timeout of its own).      *)
(* Connections arriving is not fair.                                       *)
Fairness == \A r \in Requests : WF_vars(Worker(r))

Spec == Init /\ [][Next]_vars /\ Fairness

-----------------------------------------------------------------------------
(* What the spec asks of a request before a workspace may be made for it:  *)
(* a circuit id that is registered with its artifacts on disk, and inputs  *)
(* or a proverToml payload.                                                *)
Admissible(p) ==
  /\ p.cid \in present
  /\ p.toml \in {"str", "nonstr"} \/ p.inputs = "list"

(* mkdtemp isolation: two requests in flight never work in the same       *)
(* directory, even when one's workspace name is reused after another's     *)
(* cleanup (TemporaryDirectory at line 256).                               *)
WorkspaceExclusive ==
  \A r1, r2 \in Live : r1 # r2 => ws[r1] # ws[r2]

(* No workspace outlives its request: the directories on disk are exactly  *)
(* those of the pipelines still inside their `with` block, so every        *)
(* response, error or proof, is sent after its workspace was removed.      *)
NoOrphanWorkspace ==
  disk = {ws[r] : r \in Live}

(* A workspace is only ever created for an admissible request: a          *)
(* directory that appears on disk was made by the mkdtemp of a thread      *)
(* whose request passed the validation in handle_prove and the artifact    *)
(* check in generate_proof, both of which run before it (spec 4.2 edge     *)
(* policy).                                                                *)
NoDoomedWorkspace ==
  [][\A w \in disk' \ disk :
       \E r \in Requests : pc[r] = "mkdtemp" /\ ws'[r] = w /\ Admissible(req[r])]_vars

(* Every accepted prove request is eventually answered, under the timeouts *)
(* on nargo and bb: handle_prove returns a result.                         *)
EveryRequestAnswered ==
  \A r \in Requests : pc[r] = "validate" ~> (pc[r] = "done" /\ result[r] # NoResult)

=============================================================================
