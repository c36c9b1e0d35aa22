---------------------------- MODULE ProveRequest ----------------------------
(***************************************************************************)
(* The prove request and the value handle_prove returns for it             *)
(* (src/aws/enclave-server.py), shared by the pipeline and by the service  *)
(* it implements.                                                          *)
(***************************************************************************)
EXTENDS Naturals

CONSTANTS Circuits,    \* circuit ids registered in CIRCUITS
          CircuitIds,  \* circuit ids a caller may send (Circuits and others)
          NoValue      \* a field absent from the request / no workspace

(* A prove request, abstracted to what handle_prove and generate_proof     *)
(* branch on.  toml: proverToml absent or falsy, a non-empty string, or a  *)
(* truthy non-string; inputs: absent, [], a non-empty list, or a truthy    *)
(* non-list; rid: a requestId usable in a directory-name prefix, or one    *)
(* containing "/".                                                         *)
Payloads == [cid    : CircuitIds \cup {NoValue},
             toml   : {"absent", "str", "nonstr"},
             inputs : {"absent", "empty", "list", "nonlist"},
             rid    : {"plain", "slash"}]

ErrorKinds == {"MissingCircuitId", "MissingInputs", "UnknownCircuit",
               "ArtifactMissing", "Internal", "NargoFailed", "Timeout",
               "WitnessMissing", "BbFailed", "ProofMissing"}

(* A proof response: publicInputs has pis entries; att says whether an     *)
(* attestationDocument is attached.                                        *)
ProofResults == [type : {"proof"}, pis : 0..1, att : BOOLEAN]

Results == [type : {"none"}] \cup
           [type : {"error"}, error : ErrorKinds] \cup
           ProofResults

NoResult == [type |-> "none"]
Err(k) == [type |-> "error", error |-> k]

=============================================================================
