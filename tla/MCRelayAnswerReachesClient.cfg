\* Exchanges through the bridge and the enclave handler, with a client that
\* may pause, never half-close or reset.
CONSTANTS
  Chunks = 2
  IdleTimeout = 1
  VsockTimeout = 6
  ProveTime = 48
  Kinds <- MCKinds

SPECIFICATION Spec

INVARIANTS
  AnswerReachesClient
