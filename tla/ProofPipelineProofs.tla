------------------------ MODULE ProofPipelineProofs -------------------------
(***************************************************************************)
(* Proofs about ProofPipeline for every set of workers, circuits and       *)
(* workspace names.                                                        *)
(***************************************************************************)
EXTENDS ProofPipeline, TLAPS

(* A thread calling get_nsm_attestation already holds its proof result. *)
AttestHoldsProof ==
  \A r \in Requests : pc[r] = "attest" => result[r] \in ProofResults

TypeInv == TypeOK /\ AttestHoldsProof

-----------------------------------------------------------------------------
(* The step shapes every action is built from keep TypeInv. *)

LEMMA FailType ==
  ASSUME TypeInv, NEW r \in Requests, NEW k \in ErrorKinds, Fail(r, k)
  PROVE  TypeInv'
BY DEF Fail, Goto, Err, TypeInv, TypeOK, AttestHoldsProof, Results, PCs

LEMMA AbortType ==
  ASSUME TypeInv, NEW r \in Requests, NEW k \in ErrorKinds, Abort(r, k)
  PROVE  TypeInv'
BY DEF Abort, Goto, Err, TypeInv, TypeOK, AttestHoldsProof, Results, PCs

LEMMA StepType ==
  ASSUME TypeInv, NEW r \in Requests, NEW l \in PCs \ {"attest"}, Step(r, l)
  PROVE  TypeInv'
BY DEF Step, Goto, TypeInv, TypeOK, AttestHoldsProof

-----------------------------------------------------------------------------
LEMMA TypeInvInit == Init => TypeInv
BY DEF Init, TypeInv, TypeOK, AttestHoldsProof, NoResult, Results, PCs

LEMMA TypeInvStep == TypeInv /\ [Next]_vars => TypeInv'
<1> SUFFICES ASSUME TypeInv, [Next]_vars PROVE TypeInv'
  OBVIOUS
<1> USE DEF ErrorKinds, PCs
<1>1. ASSUME NEW r \in Requests, Accept(r) PROVE TypeInv'
  BY <1>1 DEF Accept, Goto, NoResult, TypeInv, TypeOK, AttestHoldsProof, Results
<1>2. ASSUME NEW r \in Requests, Validate(r) PROVE TypeInv'
  BY <1>2, FailType, StepType DEF Validate
<1>3. ASSUME NEW r \in Requests, Resolve(r) PROVE TypeInv'
  BY <1>3, FailType, StepType DEF Resolve
<1>4. ASSUME NEW r \in Requests, MakeWorkspace(r) PROVE TypeInv'
  <2>1. CASE Fail(r, "Internal")
    BY <2>1, FailType
  <2>2. CASE /\ req[r].rid = "plain"
             /\ \E w \in WsNames \ disk :
                  /\ ws' = [ws EXCEPT ![r] = w]
                  /\ disk' = disk \cup {w}
             /\ Goto(r, "stage")
             /\ UNCHANGED <<req, present, result>>
    BY <2>2 DEF Goto, TypeInv, TypeOK, AttestHoldsProof
  <2>3. QED
    BY <1>4, <2>1, <2>2 DEF MakeWorkspace
<1>5. ASSUME NEW r \in Requests, Stage(r) PROVE TypeInv'
  BY <1>5, AbortType, StepType DEF Stage
<1>6. ASSUME NEW r \in Requests, Nargo(r) PROVE TypeInv'
  BY <1>6, AbortType, StepType DEF Nargo
<1>7. ASSUME NEW r \in Requests, LocateWitness(r) PROVE TypeInv'
  BY <1>7, AbortType, StepType DEF LocateWitness
<1>8. ASSUME NEW r \in Requests, Bb(r) PROVE TypeInv'
  BY <1>8, AbortType, StepType DEF Bb
<1>9. ASSUME NEW r \in Requests, ReadOutput(r) PROVE TypeInv'
  <2>1. CASE Abort(r, "ProofMissing")
    BY <2>1, AbortType
  <2>2. ASSUME NEW n \in 0..1,
               result' = [result EXCEPT ![r] = [type |-> "proof", pis |-> n, att |-> FALSE]],
               Goto(r, "attest"),
               UNCHANGED <<req, present, ws, disk>>
        PROVE TypeInv'
    BY <2>2 DEF Goto, TypeInv, TypeOK, AttestHoldsProof, Results, ProofResults
  <2>3. QED
    BY <1>9, <2>1, <2>2 DEF ReadOutput
<1>10. ASSUME NEW r \in Requests, Attest(r) PROVE TypeInv'
  <2>1. PICK e \in NsmEnv : result' = [result EXCEPT ![r].att = DocAttached(e)]
    BY <1>10 DEF Attest
  <2>2. result[r] \in ProofResults
    BY <1>10 DEF Attest, TypeInv, AttestHoldsProof
  <2>3. DocAttached(e) \in BOOLEAN
    BY DEF DocAttached
  <2>4. result'[r] \in ProofResults
    BY <2>1, <2>2, <2>3 DEF TypeInv, TypeOK, ProofResults
  <2>5. QED
    BY <1>10, <2>1, <2>4 DEF Attest, Goto, TypeInv, TypeOK, AttestHoldsProof, Results, ProofResults
<1>11. ASSUME NEW r \in Requests, Cleanup(r) PROVE TypeInv'
  BY <1>11 DEF Cleanup, Goto, TypeInv, TypeOK, AttestHoldsProof
<1>12. CASE UNCHANGED vars
  BY <1>12 DEF vars, TypeInv, TypeOK, AttestHoldsProof
<1>13. QED
  BY <1>1, <1>2, <1>3, <1>4, <1>5, <1>6, <1>7, <1>8, <1>9, <1>10, <1>11, <1>12
  DEF Next, Worker

(* Type correctness: every reachable state of the pipeline has the types   *)
(* TypeOK gives its variables, whatever the numbers of workers, circuits   *)
(* and workspace names; in particular handle_prove only ever holds a       *)
(* result of the shapes it can return.                                     *)
THEOREM TypeCorrect == Spec => []TypeOK
<1>1. Spec => []TypeInv
  BY TypeInvInit, TypeInvStep, PTL DEF Spec
<1>2. QED
  BY <1>1, PTL DEF TypeInv

-----------------------------------------------------------------------------
(* Workspace isolation.  WorkspaceExclusive and NoOrphanWorkspace are not  *)
(* inductive alone: a step from "mkdtemp" must know the name it adds is    *)
(* not held by a live pipeline, and Cleanup must know that the name it     *)
(* removes is a real name held by no other live pipeline.                  *)
LiveHasWs == \A r \in Live : ws[r] \in WsNames

IInv == TypeInv /\ LiveHasWs /\ WorkspaceExclusive /\ NoOrphanWorkspace

(* A step of r that keeps it on the same side of the `with` block and     *)
(* touches no workspace keeps IInv.                                        *)
LEMMA SameSideIInv ==
  ASSUME IInv, TypeInv', NEW r \in Requests, NEW l \in PCs,
         pc' = [pc EXCEPT ![r] = l],
         pc[r] \in WithBlock <=> l \in WithBlock,
         UNCHANGED <<ws, disk>>
  PROVE  IInv'
<1>1. Live' = Live
  BY DEF Live, TypeInv, TypeOK
<1>2. QED
  BY <1>1 DEF IInv, LiveHasWs, WorkspaceExclusive, NoOrphanWorkspace

(* The workspaces named by a set of pipelines depend only on their ws. *)
LEMMA ImageEq ==
  ASSUME NEW S, NEW f, NEW g, \A x \in S : f[x] = g[x]
  PROVE  {f[x] : x \in S} = {g[x] : x \in S}
OBVIOUS

LEMMA FailIInv ==
  ASSUME IInv, TypeInv', NEW r \in Requests, NEW k, Fail(r, k),
         pc[r] \notin WithBlock
  PROVE  IInv'
BY SameSideIInv DEF Fail, Goto, PCs, WithBlock

LEMMA AbortIInv ==
  ASSUME IInv, TypeInv', NEW r \in Requests, NEW k, Abort(r, k),
         pc[r] \in WithBlock
  PROVE  IInv'
BY SameSideIInv DEF Abort, Goto, PCs, WithBlock

LEMMA StepIInv ==
  ASSUME IInv, TypeInv', NEW r \in Requests, NEW l \in PCs, Step(r, l),
         pc[r] \in WithBlock <=> l \in WithBlock
  PROVE  IInv'
BY SameSideIInv DEF Step, Goto

LEMMA IInvInit == Init => IInv
BY TypeInvInit DEF Init, IInv, LiveHasWs, WorkspaceExclusive, NoOrphanWorkspace,
                   Live, WithBlock

LEMMA IInvStep == IInv /\ [Next]_vars => IInv'
<1> SUFFICES ASSUME IInv, [Next]_vars PROVE IInv'
  OBVIOUS
<1>0. TypeInv'
  BY TypeInvStep DEF IInv
<1> USE <1>0 DEF PCs, WithBlock
<1>1. ASSUME NEW r \in Requests, Accept(r) PROVE IInv'
  <2>1. Live' = Live /\ r \notin Live
    BY <1>1 DEF Accept, Goto, Live, IInv, TypeInv, TypeOK
  <2>2. \A q \in Live : ws'[q] = ws[q]
    BY <1>1, <2>1 DEF Accept, IInv, TypeInv, TypeOK
  <2>3. {ws'[q] : q \in Live'} = {ws[q] : q \in Live}
    BY <2>1, <2>2, ImageEq
  <2>4. disk' = disk
    BY <1>1 DEF Accept
  <2>5. QED
    BY <2>1, <2>2, <2>3, <2>4 DEF IInv, LiveHasWs, WorkspaceExclusive, NoOrphanWorkspace
<1>2. ASSUME NEW r \in Requests, Validate(r) PROVE IInv'
  <2>1. pc[r] = "validate"
    BY <1>2 DEF Validate
  <2>2. CASE Fail(r, "MissingCircuitId") \/ Fail(r, "MissingInputs")
    BY <2>1, <2>2, FailIInv
  <2>3. CASE Step(r, "resolve")
    BY <2>1, <2>3, StepIInv
  <2>4. QED
    BY <1>2, <2>2, <2>3 DEF Validate
<1>3. ASSUME NEW r \in Requests, Resolve(r) PROVE IInv'
  <2>1. pc[r] = "resolve"
    BY <1>3 DEF Resolve
  <2>2. CASE Fail(r, "UnknownCircuit") \/ Fail(r, "ArtifactMissing")
    BY <2>1, <2>2, FailIInv
  <2>3. CASE Step(r, "mkdtemp")
    BY <2>1, <2>3, StepIInv
  <2>4. QED
    BY <1>3, <2>2, <2>3 DEF Resolve
<1>4. ASSUME NEW r \in Requests, MakeWorkspace(r) PROVE IInv'
  <2>0. pc[r] = "mkdtemp" /\ r \notin Live
    BY <1>4 DEF MakeWorkspace, Live
  <2>1. CASE Fail(r, "Internal")
    BY <2>0, <2>1, FailIInv
  <2>2. CASE /\ req[r].rid = "plain"
             /\ \E w \in WsNames \ disk :
                  /\ ws' = [ws EXCEPT ![r] = w]
                  /\ disk' = disk \cup {w}
             /\ Goto(r, "stage")
             /\ UNCHANGED <<req, present, result>>
    <3>1. PICK w \in WsNames \ disk : ws' = [ws EXCEPT ![r] = w] /\ disk' = disk \cup {w}
      BY <2>2
    <3>2. Live' = Live \cup {r}
      BY <2>0, <2>2 DEF Goto, Live, IInv, TypeInv, TypeOK
    <3>3. \A q \in Live : ws'[q] = ws[q] /\ ws[q] # w
      BY <2>0, <3>1 DEF IInv, TypeInv, TypeOK, NoOrphanWorkspace
    <3>4. ws'[r] = w
      BY <3>1 DEF IInv, TypeInv, TypeOK
    <3>5. {ws'[q] : q \in Live} = {ws[q] : q \in Live}
      BY <3>3, ImageEq
    <3>6. NoOrphanWorkspace'
      BY <3>1, <3>2, <3>4, <3>5 DEF IInv, NoOrphanWorkspace
    <3>7. LiveHasWs'
      BY <3>2, <3>3, <3>4 DEF IInv, LiveHasWs
    <3>8. WorkspaceExclusive'
      BY <2>0, <3>2, <3>3, <3>4 DEF IInv, WorkspaceExclusive
    <3>9. QED
      BY <3>6, <3>7, <3>8 DEF IInv
  <2>3. QED
    BY <1>4, <2>1, <2>2 DEF MakeWorkspace
<1>5. ASSUME NEW r \in Requests, Stage(r) PROVE IInv'
  <2>1. pc[r] = "stage"
    BY <1>5 DEF Stage
  <2>2. QED
    BY <1>5, <2>1, AbortIInv, StepIInv DEF Stage
<1>6. ASSUME NEW r \in Requests, Nargo(r) PROVE IInv'
  <2>1. pc[r] = "nargo"
    BY <1>6 DEF Nargo
  <2>2. QED
    BY <1>6, <2>1, AbortIInv, StepIInv DEF Nargo
<1>7. ASSUME NEW r \in Requests, LocateWitness(r) PROVE IInv'
  <2>1. pc[r] = "witness"
    BY <1>7 DEF LocateWitness
  <2>2. QED
    BY <1>7, <2>1, AbortIInv, StepIInv DEF LocateWitness
<1>8. ASSUME NEW r \in Requests, Bb(r) PROVE IInv'
  <2>1. pc[r] = "bb"
    BY <1>8 DEF Bb
  <2>2. QED
    BY <1>8, <2>1, AbortIInv, StepIInv DEF Bb
<1>9. ASSUME NEW r \in Requests, ReadOutput(r) PROVE IInv'
  <2>1. pc[r] = "output"
    BY <1>9 DEF ReadOutput
  <2>2. CASE Abort(r, "ProofMissing")
    BY <2>1, <2>2, AbortIInv
  <2>3. CASE pc' = [pc EXCEPT ![r] = "attest"] /\ UNCHANGED <<ws, disk>>
    BY <2>1, <2>3, SameSideIInv
  <2>4. QED
    BY <1>9, <2>2, <2>3 DEF ReadOutput, Goto
<1>10. ASSUME NEW r \in Requests, Attest(r) PROVE IInv'
  <2>1. pc[r] = "attest" /\ pc' = [pc EXCEPT ![r] = "cleanup"] /\ UNCHANGED <<ws, disk>>
    BY <1>10 DEF Attest, Goto
  <2>2. QED
    BY <2>1, SameSideIInv
<1>11. ASSUME NEW r \in Requests, Cleanup(r) PROVE IInv'
  <2>1. r \in Live /\ Live' = Live \ {r}
    BY <1>11 DEF Cleanup, Goto, Live, IInv, TypeInv, TypeOK
  <2>2. \A q \in Live \ {r} : ws[q] # ws[r]
    BY <2>1 DEF IInv, WorkspaceExclusive
  <2>3. disk' = {ws[q] : q \in Live \ {r}}
    <3>1. disk' = {ws[q] : q \in Live} \ {ws[r]}
      BY <1>11 DEF Cleanup, IInv, NoOrphanWorkspace
    <3>2. QED
      BY <2>1, <2>2, <3>1
  <2>4. ws' = ws
    BY <1>11 DEF Cleanup
  <2>5. QED
    BY <2>1, <2>3, <2>4 DEF IInv, LiveHasWs, WorkspaceExclusive, NoOrphanWorkspace
<1>12. CASE UNCHANGED vars
  BY <1>12 DEF vars, IInv, TypeInv, TypeOK, AttestHoldsProof, LiveHasWs,
               WorkspaceExclusive, NoOrphanWorkspace, Live
<1>13. QED
  BY <1>1, <1>2, <1>3, <1>4, <1>5, <1>6, <1>7, <1>8, <1>9, <1>10, <1>11, <1>12
  DEF Next, Worker

(* Workspace isolation, for any number of concurrent prove requests: no    *)
(* two pipelines in flight share a workspace directory, and the workspaces *)
(* on disk are exactly those of the pipelines inside their `with` block,   *)
(* so none survives the response of its request (TemporaryDirectory at     *)
(* line 256 of src/aws/enclave-server.py).                                 *)
THEOREM WorkspaceIsolation == Spec => [](WorkspaceExclusive /\ NoOrphanWorkspace)
<1>1. Spec => []IInv
  BY IInvInit, IInvStep, PTL DEF Spec
<1>2. QED
  BY <1>1, PTL DEF IInv

(* In particular mkdtemp gives every pipeline in flight a directory of its *)
(* own, however the threads of run_server interleave and whatever name a   *)
(* cleaned-up workspace had (TemporaryDirectory at line 256).             *)
THEOREM Exclusive == Spec => []WorkspaceExclusive
BY WorkspaceIsolation, PTL

=============================================================================
