# Formal model of the proofport enclave prover

TLA+ modules, TLC configurations and TLAPS proofs for the enclave-side
prover in `src/aws/enclave-server.py` and the host-side relay in
`src/aws/vsock-bridge.py`.

## 1. Inventory

### Components

| Component | Source | State it keeps | Operations |
|---|---|---|---|
| Protocol Server | `run_server`, `run_tcp_fallback`, `handle_connection`, `dispatch`, `handle_health` (enclave-server.py 412-631) | none across connections; per connection: the bytes read so far and the socket | accept loop with one daemon thread per connection; read until EOF or the 5 s idle timeout; empty request → close with no reply; invalid JSON → error reply; dispatch by `type`; send the reply; close |
| Proof Pipeline | `handle_prove`, `generate_proof`, `get_circuit_paths`, `write_prover_toml` (198-450) | the read-only `CIRCUITS` registry and circuit artifacts; per request a `TemporaryDirectory` workspace under `CIRCUIT_BASE_DIR` | validation (two early returns), circuit resolution, artifact check, `mkdtemp`, staging of Prover.toml / Nargo.toml / src / target, `nargo execute` (120 s timeout), witness lookup under two names, `bb prove` (120 s timeout), reading proof and public inputs, attestation of `sha256(proof)`, workspace removal on every exit |
| Attestation Client | `get_nsm_attestation`, `handle_attestation` (102-191, 453-477) | nothing between calls | open `/dev/nsm`, one `ioctl` with a packed `nsm_raw` struct, decode the CBOR reply; every failure becomes `None`. `handle_attestation` decodes `proofHash` with `lstrip("0x")` and turns `None` into an error |
| Bridge | `bridge`, `main` (vsock-bridge.py) | none across connections | accept TCP; connect vsock (30 s timeout); read the client until EOF or 5 s idle; forward and half-close; read the enclave until EOF or a 30 s receive timeout; forward back; close both |
| TCP fallback, logging | `run_tcp_fallback`, `log*` | none | same handler over TCP; JSON lines on stderr |

### How they interact

The host client talks TCP to the Bridge, which opens one vsock connection
per client connection to the Protocol Server. The server runs each connection
in its own thread. A prove request goes to the Proof Pipeline, which runs two
external processes and then calls the Attestation Client. An attestation
request calls the Attestation Client directly. The only state shared between
threads is the filesystem under `CIRCUIT_BASE_DIR`, where every pipeline
creates and deletes its workspace, and the NSM device, which each call opens
and closes on its own.

### What is hard

* **Interleaving.** Any number of pipelines run at once in one directory.
  Workspace names are drawn at random and reused once freed.
* **Partial failure.** Any of ten steps can fail after the workspace exists.
  Every exit must remove the workspace. An attestation failure must not fail
  the proof.
* **Timeouts.** The tools are bounded at 120 s each. The NSM ioctl has no
  timeout. Both the bridge and the server treat a 5 s read-idle timeout as
  end-of-request, and these two timers run at the same time. The bridge gives
  up on the enclave after 30 s, although a proof may legitimately take longer.
* **Edge data.** `proofHash` is stripped with `lstrip("0x")`. The NSM reply is
  cut at a 16 KB buffer.

### Properties that make each component correct

* Pipeline: no two requests share a workspace. No workspace outlives its
  request. No workspace is made for a request that is bound to fail
  validation or the artifact check. A proof is never lost to attestation
  (kept by construction by the `try/except`, so no run checks it). Every
  request is answered.
* Attestation client: the `user_data` bound into the document is the digest
  the caller sent. Every failure is `None`, never an exception.
* Server: every request that is read gets exactly one reply, and every reply
  carries its request's id. An empty or unparsable body yields an error
  reply (spec section 8).
* Bridge: the client receives the enclave's full reply, unmodified, for every
  request the enclave answers.

The hazards, each at its line, are listed in `PROJECT.json`.

## 2. Modules

| Module | Models | Status |
|---|---|---|
| `ProveRequest` | the prove request and the value `handle_prove` returns, shared by the next two | done |
| `ProofPipeline` | concurrent `handle_prove` / `generate_proof` over a shared workspace directory | done, model-checked, invariants proved |
| `NsmAttestation` | the outcome of one `get_nsm_attestation` call | done |
| `ProofService` | the abstract promise of a prove request: taken, then answered once with an allowed answer | done |
| `ProofPipelineRefinement` | the refinement mapping from `ProofPipeline` to `ProofService` | model-checked with fairness, safety part proved |
| `AttestationRequest` | `handle_attestation` and its `proofHash` decoding | done, model-checked, `BoundIsSuffix` proved |
| `Relay` | one exchange through `bridge` (vsock-bridge.py) and `handle_connection` / `dispatch` (enclave-server.py) over a discrete clock | done, model-checked, safety invariants proved |
| `ProofPipelineProofs`, `ProofPipelineRefinementProofs`, `AttestationRequestProofs`, `RelayProofs` | TLAPS proofs | all obligations checked |

Still open: the `nsm_raw` layout (`QIIQII`, native alignment) and the
`_IOWR` encoding of `NSM_IOCTL_CMD` as arithmetic.

## 3. The model of the pipeline (`ProofPipeline.tla`)

A **worker slot** `r ∈ Requests` stands for the thread of one accepted
connection that carries a prove request. When its request is answered, the
slot may take the next connection. State:

* `pc[r]`: where the thread is in `handle_prove` / `generate_proof`.
  `WithBlock` is the set of locations inside `with TemporaryDirectory(...)`.
* `req[r]`: the request, abstracted to what the code branches on. That is
  the circuit id (registered or not, or absent), whether `proverToml` is
  absent, a string or a non-string, whether `inputs` is absent, empty, a
  list or a non-list, and whether the requestId contains `/`.
* `present`: the registered circuits whose bytecode and vk exist. It is
  fixed at start, as baked into the image.
* `ws[r]`: the workspace name `mkdtemp` returned. `disk` is the set of
  workspace directories that exist.
* `result[r]`: what `handle_prove` will return. It is set where the code
  raises or builds its result.

One action per step of the code, in its order:

| Action | Code |
|---|---|
| `Accept` | `run_server` accept and the thread's dispatch of a prove request |
| `Validate` | the two early returns of `handle_prove` |
| `Resolve` | `get_circuit_paths` and the artifact check |
| `MakeWorkspace` | `mkdtemp`, with a name not on disk |
| `Stage` | writing Prover.toml and the copies |
| `Nargo` | `nargo execute` |
| `LocateWitness` | the witness file under its two names |
| `Bb` | `bb prove` |
| `ReadOutput` | reading the proof and public inputs |
| `Attest` | `get_nsm_attestation(sha256(proof))` |
| `Cleanup` | the exit of the `with` block |

An exception before the `with` block (`Fail`) returns at once. An exception
inside it (`Abort`) goes through `Cleanup` first. Environment outcomes (tool
exit codes and timeouts, files present or not, `OSError` on mkdir or copy)
are disjuncts. `NsmAttestation` reduces one device call to its result. Any
failure (device absent, cbor2 missing, ioctl error, length 0 or longer than
the buffer, error map, other shapes) gives `None`. An empty document is
returned but dropped by the caller's `if nsm_doc:`.

**Fairness.** `WF_vars(Worker(r))` for every slot. A running Python thread
gets scheduled. Both tool calls return within their timeouts. The NSM ioctl
is *assumed* to return, since it has no timeout (see hazards). `Accept` is not
fair: clients need not connect.

### Runs

| Run | Config | Checks | Shows |
|---|---|---|---|
| `pipeline_safety` | `MCProofPipelineSafety.cfg`: 3 workers, 3 names, symmetry | `TypeOK`, `WorkspaceExclusive`, `NoOrphanWorkspace`, `NoDoomedWorkspace` | workspace isolation and cleanup under every interleaving of three requests, with names reused after cleanup; a new directory is always the one made by the `mkdtemp` of a request that passed validation and the artifact check |
| `pipeline_liveness` | `MCProofPipelineLiveness.cfg`: 2 workers, no symmetry | `EveryRequestAnswered` | every accepted request is answered |
| `pipeline_refinement` | `MCProofPipelineRefinement.cfg`: 2 workers, no symmetry | `ImplementsService` | the pipeline, with its fairness, implements `ProofService` (section 6) |

`MCPayloads` takes one request per path through the validation: missing
circuitId, missing inputs, unknown circuit, `proverToml` taking precedence
over a non-list `inputs`, generic inputs, a non-string `proverToml`, and an
id with `/`. Both artifact cases are covered by the initial choice of
`present`. Three workers with exactly three names is the smallest instance
where every name is both held concurrently and reused, so a collision on
reuse would show. Each property has a mutant in `PROJECT.json` that TLC
catches: the artifact check moved after `mkdtemp`, a name picked without
`O_EXCL`, a timeout returned around the `with` block, a nargo failure
retried, and public inputs split into several entries.

## 4. The attestation request (`AttestationRequest.tla`)

A digest is a sequence over `HexDigits \cup {"x"}` (the MC module uses
`{"0","a"}`), of up to `MaxDigest` bytes, sent bare or with a `0x` prefix,
or absent. `LStrip` is `str.lstrip`: it drops the longest prefix made of the
given characters (a CHOOSE over the cut point, not a recursion). `FromHexOK`
and `FromHex` are `bytes.fromhex`: an even number of hex digits, one byte per
pair. `HandleAttestation` is lines 453-477: no digest gives `b""`; a
decodable one is bound; `ValueError` from `fromhex` gives an error reply.
`Attest` calls the `NsmAttestation` outcome and replies with a document only
when one is attached. `NextRequest` is the close of the connection and the
accept of the next one.

| Run | Config | Checks | Shows |
|---|---|---|---|
| `attestation_proofhash` | `MCAttestationRequest.cfg` | `BoundDigest` (expected violation) | **finding**: for `proofHash = "0x00"` the document is returned bound to `b""`, not to the byte `00`; every leading zero digit is stripped with the prefix |
| `attestation_suffix` | `MCAttestationRequestSuffix.cfg` | `BoundIsSuffix` | what the code does guarantee: the bound bytes are a suffix of the digest sent, so the loss is detectable by a verifier that compares whole digests |

Two-byte digests over `{0, a}` include every case that matters: a leading
`0` digit followed by a non-zero one (odd length, rejected), a whole leading
zero byte (silently dropped), an all-zero digest (bound as empty) and a
digest with no leading zero (bound intact). `SuffixOf` is SequencesExt's
`IsSuffix` written with `SubSeq`, so that the module stays provable (see
section 7). The mutant `StripBoth`
(`strip` instead of `lstrip`, which also eats trailing zeros) breaks
`BoundIsSuffix`.

## 5. The relay (`Relay.tla`)

One request/response exchange: a client (the environment), the bridge
thread and the enclave's connection thread. Exchanges share no state, so one
is modelled at a time and `NextExchange` starts the next when both threads
have closed. Time is discrete: `Tick` decrements every armed socket timeout,
and only when no thread can move without waiting (`~ENABLED Urgent`), which
is how a blocking `recv` with `settimeout` behaves.

| Variable | Code |
|---|---|
| `cl`, `kind`, `sent`, `fin`, `got` | the client: state, request type, chunks written, half-closed, bytes received |
| `bpc`, `bbuf`, `bt`, `fwd`, `vsClosed` | `bridge`: where it is, `request` so far, the armed timeout, `sendall`+`SHUT_WR` done, `vs.close()` done |
| `spc`, `sraw`, `st`, `sreply`, `out` | `handle_connection`: where it is, `raw` so far, the read timeout or the end of a prove, the reply, whether its `sendall` reached the bridge |

| Action | Code |
|---|---|
| `BConnect` | `vs.connect` (or its failure, which closes both sockets) |
| `BRead` | the client read loop: a chunk re-arms `settimeout(5)`; EOF or `socket.timeout` ends it |
| `BForward` | `vs.sendall(request)` and `shutdown(SHUT_WR)` |
| `BRecv` | the enclave read loop under `vs.settimeout(30)`, then the relay to the client and `finally` |
| `SAccept` | `run_server` accept; `conn.settimeout(5.0)` |
| `SRead` | the read loop; empty body → close, no reply; bad JSON → `Invalid JSON`; else `dispatch` |
| `Dispatch`, `SRespond` | `dispatch`: health, attestation and unknown types answer at once; prove runs up to `ProveTime` |
| `SendReply` | `conn.sendall`, which fails if the bridge has closed the vsock |

**Bounds.** One tick is 5 s: `IdleTimeout = 1`, `VsockTimeout = 6`,
`ProveTime = 48` (two 120 s tool timeouts). Two chunks let a client pause
mid-request. The two request kinds stand for "answered at once" and "prove".
The client writes at most `Chunks` pieces. A real client can write for as
long as it likes, and the bridge re-arms its 5 s timeout on every chunk
(vsock-bridge.py 34-40) with no limit on the whole read. So a client that
writes more often than every 5 s holds the bridge thread for as long as it
writes. `ThreadsEnd` says nothing about that client.

**Fairness.** Weak fairness on the bridge, the server and `Tick`: both are
running threads and time passes. The client is not fair: it may never send,
never half-close, or reset.

| Run | Checks | Shows |
|---|---|---|
| `relay_safety` | `TypeOK`, `DeliveredIntact`, `ThreadsEnd` | a reply the bridge relays is the server's, unmodified; for a client that writes a finite request, both threads always finish (no thread waits forever on the other) |
| `relay_empty_request` | `EmptyRequestAnswered` (violation) | **finding**: an empty body, sent or timed out, gets no reply, though spec section 8 asks for an Error |
| `relay_bridge_timeout` | `AnswerReachesClient` (violation) | **finding**: a prove over 30 s is computed and lost; the client gets an empty response |
| `relay_idle_race` | `ForwardedRequestRead` (violation, `Chunks = 1`) | **finding**: a client that does not half-close can lose its request: the enclave's 5 s timer, armed at accept, and the bridge's idle timer expire in the same tick, and the enclave may read first |

Each passing property has a mutant TLC catches: the bridge ignoring its idle
timeout, the 30 s check taken before a reply already sent, and a prove
deadline one tick late. The model takes any proper prefix of a request to
be invalid JSON, since the bytes are abstracted to a chunk count, so no
property is stated about what the enclave does with a request the bridge
cut.

## 6. The abstract service and the refinement

`ProofService` says what a caller of a prove request is promised, with no
thread, workspace or tool in sight. A slot is submitted, then answered once.
The answer is in `Allowed(p)`: the validation errors in the order
`handle_prove` checks them, then `UnknownCircuit`, then `ArtifactMissing`,
and otherwise a proof or one of the pipeline's failures. Every submitted
request is answered (`WF` on `Respond`).

`ProofPipelineRefinement` maps the pipeline onto it. A slot is in flight
while its thread is not at `done`. The response is `result` once the thread
is back at `done`, and `NoResult` before. `ws`, `disk` and the intermediate
results are hidden. `ImplementsService == PS!SSpec` is checked by TLC in
`pipeline_refinement`, fairness included, so it also says that every request
is answered. Moving the artifact check after `mkdtemp`
(`ResolveNoArtifactCheck`) breaks it.

## 7. What is proved

### `ProofPipelineProofs.tla`

These theorems hold for every set of workers, circuits and workspace names.
They use only the assumptions `PipelineAssumption` and `NsmAssumption`.

* `TypeCorrect: Spec => []TypeOK`. The inductive form adds
  `AttestHoldsProof`: a thread at the attestation step already holds a proof
  result, so the record update there is well typed.
* `WorkspaceIsolation: Spec => [](WorkspaceExclusive /\ NoOrphanWorkspace)`.
  Neither conjunct is inductive alone. The inductive invariant `IInv` adds
  `TypeInv` and `LiveHasWs`, which says every live pipeline holds a real
  name. With these, `MakeWorkspace` adds a name that no live pipeline holds,
  and `Cleanup` removes a name that only its own pipeline holds. Every other
  step keeps its thread on the same side of the `with` block
  (`SameSideIInv`). TLC checked `IInv` on the 3-worker instance before it
  was proved.

* `Exclusive: Spec => []WorkspaceExclusive`, the first half of
  `WorkspaceIsolation` on its own.

Only TLC checks liveness (`EveryRequestAnswered`), because TLAPS cannot
reason about fairness and ENABLED.

### `ProofPipelineRefinementProofs.tla`

* `Refinement: Spec => PS!SInit /\ [][PS!SNext]_PS!svars`, the safety part
  of `ImplementsService`, for every set of workers, circuits and names.
  The argument rests on the inductive invariant `RInv`, which is `TypeInv`
  plus `SlotOK(r)` for every slot. `SlotOK` records what the code has
  established about a thread's request by where the thread is:
  - at `resolve`, the request has a circuit id and supplied inputs;
  - from `mkdtemp` on, it is `Admissible`;
  - at `attest` and `cleanup`, the result is a pipeline answer;
  - at `done`, the result is one the service allows, or `NoResult` before
    the first request.
  Accepting maps to `Submit`. A step back to `done` (an early return, or
  the exit of the `with` block) maps to `Respond` with the thread's
  result. That result is allowed by `SlotOK` and is not `NoResult`
  (`ReturnsAnswer`). Every other step leaves the service's view unchanged
  (`Simulation`).
* `NoDoomed: Spec => NoDoomedWorkspace`. Only `MakeWorkspace` adds to
  `disk`, and by `SlotOK` its thread's request is admissible.

The fairness part of `ImplementsService` (every request answered) stays
with TLC.

### `AttestationRequestProofs.tla`

* `BoundSuffix: Spec => []BoundIsSuffix`. It holds for every alphabet of
  hex digits and every digest length, assuming only `AttestationAssumption`:
  `"0"` is a digit, `"x"` is not, and `MaxDigest > 0`. The inductive
  invariant `IInv` strengthens the property in two ways. `proofHash` is a
  digest a caller may send. After an attestation, `fromhex` accepted
  `lstrip`'s result and `bound` is that result decoded (`Binding`). The
  property itself is not inductive, because it does not record what the
  code computed. TLC checked `IInv` on the run's instance first.
  The step from `IInv` to the property is the lemma `StripSuffix`:
  - `lstrip` cuts at a point `k` (`CutExists`, using `NatMin`, the
    least-number principle from `WellFoundedInduction`);
  - a `0x` prefix is entirely inside the cut (`CallerHashForm`);
  - the bytes of the caller's digest and the bytes left after the cut both
    have even length, so `k` falls between two bytes;
  - the decoded result is therefore the digest decoded, minus its first
    `(k - p) / 2` bytes, where `p` is the length of the `0x` prefix.
  The finding `BoundDigest` is the other side of this theorem: bytes can be
  lost, but no byte is ever altered.

### `RelayProofs.tla`

These theorems hold for every number of chunks and every value of the three
timeouts. They assume `RelayAssumption`: the bounds are naturals, and the
reply labels `"invalid"` and `"none"` are not request kinds.

* `RelayTypeCorrect: Spec => []TypeOK`. The timers' type is
  `0..VsockTimeout \cup 0..IdleTimeout` (bridge) and
  `0..ProveTime \cup 0..IdleTimeout` (server), because each timer is armed
  with one of two values.
* `ReplyDeliveredIntact: Spec => []DeliveredIntact`.

Both follow from the inductive invariant
`IInv == TypeOK /\ Ordering /\ DeliveredIntact`.
`Ordering` is the order in which the code moves data. It has these parts,
each needed by some step:
- `sraw <= bbuf <= sent`: data is read only after it was written.
- `sraw > 0 => fwd`: the server reads only what `sendall` forwarded. This
  is needed for `SRespond`.
- `spc = "compute" => fwd`: a prove runs only on a forwarded request, so
  its reply is written after the forward. This is also needed for
  `SRespond`.
- `bpc \in {idle, connect} => spc = idle`: the enclave thread exists only
  after the bridge connected. This is needed for `BConnect`.
- The server holds no reply before it has dispatched (`sreply = NoReply`
  while `spc` is `idle`, `accept`, `read` or `compute`).
- Nothing is forwarded before the bridge stops reading.
- Nothing is written before it was forwarded.
- `out = "sent"` only when the server thread is closed: the server writes
  once, as its last act.
- A closed bridge has closed the vsock, and a finished client was closed by
  the bridge.
TLC checked `IInv` first, on the `relay_safety` constants and on a
three-chunk instance. The proof of `Tick` never uses its `~ENABLED Urgent`
guard. The lemma `TickEffect` states only what `Tick` does to the two
timers, so no obligation mentions `ENABLED`. `ThreadsEnd` is liveness and
stays with TLC.

### What stays with TLC

- Liveness and fairness: `EveryRequestAnswered`, `ThreadsEnd`, and the
  fairness part of `ImplementsService`. TLAPS does not reason about
  `ENABLED` and fairness here.
- The violation runs. Each one is a counterexample, not a theorem.


## 8. Not modelled

`run_server` falling back to TCP when the vsock socket cannot be created,
and `KeyboardInterrupt`, end the server, not a connection. The
`nsm_raw` struct layout is not modelled yet: the ioctl is reduced to its
outcome. The read loop of `handle_connection` ends on EOF, on
`socket.timeout`, or on another exception, which is logged; the bytes read so far are then
parsed (enclave-server.py 507-516). The model has the EOF and timeout
exits. A peer reset in the middle of a write comes only from a direct vsock
client. The bridge writes with one `sendall`, so through the bridge the
enclave reads all of a request or none of it. The hazard is noted in
`PROJECT.json`.

The TCP fallback differs from the vsock server only in its socket family.
Logging changes no state. Payload contents (proof bytes, TOML text, JSON
wording) are abstracted to the classes the code branches on. Circuit ids
that are not strings (for example, a list, which raises `TypeError` in the
registry lookup) are left out: they end in the same internal-error path as a
non-string `proverToml`.
