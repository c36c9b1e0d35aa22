\* Three concurrent prove requests: workspace isolation and cleanup.
CONSTANTS
  r1 = r1
  r2 = r2
  r3 = r3
  c1 = c1
  cX = cX
  w1 = w1
  w2 = w2
  w3 = w3
  NoValue = NoValue
  Requests <- MCRequests3
  Circuits <- MCCircuits
  CircuitIds <- MCCircuitIds
  WsNames <- MCWsNames3
  Payloads <- MCPayloads
  NsmBufSize = 2
  NsmMaxLen = 3

SPECIFICATION Spec

SYMMETRY Symmetry

INVARIANTS
  TypeOK
  WorkspaceExclusive
  NoOrphanWorkspace

PROPERTIES
  NoDoomedWorkspace
