-------------------------- MODULE MCProofPipeline ---------------------------
(* Model-checking instance of ProofPipeline: up to three concurrent        *)
(* workers, one registered circuit and one unregistered id, and exactly as *)
(* many workspace names as workers, so that every name is reused by other  *)
(* requests after a cleanup.                                               *)
EXTENDS ProofPipelineRefinement, TLC

CONSTANTS r1, r2, r3, c1, cX, w1, w2, w3

MCRequests2 == {r1, r2}
MCWsNames2 == {w1, w2}
MCRequests3 == {r1, r2, r3}
MCWsNames3 == {w1, w2, w3}
MCCircuits == {c1}
MCCircuitIds == {c1, cX}

(* One payload per path through handle_prove / generate_proof: missing    *)
(* circuitId, missing inputs, unknown circuit, proverToml taking           *)
(* precedence over a non-list inputs, generic inputs, a non-string         *)
(* proverToml, and a requestId containing "/".                             *)
MCPayloads ==
  { [cid |-> NoValue, toml |-> "absent", inputs |-> "list",    rid |-> "plain"],
    [cid |-> c1,      toml |-> "absent", inputs |-> "empty",   rid |-> "plain"],
    [cid |-> cX,      toml |-> "str",    inputs |-> "absent",  rid |-> "plain"],
    [cid |-> c1,      toml |-> "str",    inputs |-> "nonlist", rid |-> "plain"],
    [cid |-> c1,      toml |-> "absent", inputs |-> "list",    rid |-> "plain"],
    [cid |-> c1,      toml |-> "nonstr", inputs |-> "absent",  rid |-> "plain"],
    [cid |-> c1,      toml |-> "str",    inputs |-> "absent",  rid |-> "slash"] }

(* Workers and workspace names are interchangeable: nothing orders them. *)
Symmetry == Permutations(MCRequests3) \cup Permutations(MCWsNames3)

=============================================================================
