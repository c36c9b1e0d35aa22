----------------------- MODULE ProofPipelineRefinement -----------------------
(***************************************************************************)
(* ProofPipeline implements ProofService.  A worker whose thread is back   *)
(* at "done" has answered; any other holds its request in flight.  The     *)
(* result a thread builds (an error set inside the with block, a proof     *)
(* before attestation) is hidden until handle_prove returns, and the       *)
(* workspaces, tool runs and the NSM call are hidden altogether.           *)
(***************************************************************************)
EXTENDS ProofPipeline

Answered(r) == pc[r] = "done"

PS == INSTANCE ProofService WITH
        present  <- present,
        inflight <- {r \in Requests : ~Answered(r)},
        request  <- req,
        response <- [r \in Requests |-> IF Answered(r) THEN result[r] ELSE NoResult]

(* Every behaviour of the pipeline, with its fairness, is one the service  *)
(* allows: each prove request is answered once with the answer spec 4.2    *)
(* and 8 prescribe for it (validation and artifact errors in their order,  *)
(* a proof only for an admissible request, at most one public-inputs       *)
(* entry), and every request is answered.                                  *)
ImplementsService == PS!SSpec

=============================================================================
