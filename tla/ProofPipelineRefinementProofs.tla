------------------- MODULE ProofPipelineRefinementProofs --------------------
(***************************************************************************)
(* ProofPipeline implements (the safety part of) ProofService, and no      *)
(* workspace is made for a request bound to fail, for every set of         *)
(* workers, circuits and workspace names.                                  *)
(***************************************************************************)
EXTENDS ProofPipelineProofs, ProofPipelineRefinement

(* What a pipeline run on an admissible request may answer. *)
PipelineAnswers == {Err(k) : k \in PS!PipelineErrors} \cup ProofResults

(* What the code has established about a thread's request by where the     *)
(* thread is: validated before resolve; registered with artifacts from     *)
(* mkdtemp on; a pipeline answer once output or an error is in hand; and   *)
(* the answer the service allows once handle_prove has returned.           *)
SlotOK(r) ==
  /\ pc[r] = "resolve" => req[r].cid # NoValue /\ PS!Supplied(req[r])
  /\ pc[r] \in {"mkdtemp"} \cup WithBlock => Admissible(req[r])
  /\ pc[r] \in {"attest", "cleanup"} => result[r] \in PipelineAnswers
  /\ pc[r] = "done" => result[r] \in PS!Allowed(req[r]) \cup {NoResult}

RInv == TypeInv /\ \A r \in Requests : SlotOK(r)

-----------------------------------------------------------------------------
(* The service and the pipeline share the request and result forms. *)
LEMMA SharedForms ==
  /\ \A k : PS!Err(k) = Err(k)
  /\ PS!ProofResults = ProofResults
  /\ PS!NoResult = NoResult
  /\ PS!Payloads = Payloads
BY DEF PS!Err, Err, PS!ProofResults, ProofResults, PS!NoResult, NoResult,
       PS!Payloads, Payloads

(* For an admissible request the service allows exactly the pipeline's     *)
(* answers.                                                                *)
LEMMA AllowedAdmissible ==
  ASSUME NEW p \in Payloads, present \subseteq Circuits, Admissible(p)
  PROVE  PS!Allowed(p) = PipelineAnswers
<1>1. p.cid # NoValue /\ PS!Supplied(p) /\ p.cid \in Circuits /\ p.cid \in present
  BY PipelineAssumption DEF Admissible, PS!Supplied, Payloads
<1>2. QED
  BY <1>1, SharedForms DEF PS!Allowed, PipelineAnswers

(* A step of worker q changes no other worker's slot, nor the artifacts. *)
LEMMA SlotLocal ==
  ASSUME TypeInv, NEW q \in Requests, Accept(q) \/ Worker(q)
  PROVE  /\ \A x \in Requests \ {q} : pc'[x] = pc[x] /\ req'[x] = req[x]
                                       /\ result'[x] = result[x]
         /\ present' = present
BY DEF TypeInv, TypeOK, Accept, Worker, Validate, Resolve, MakeWorkspace, Stage,
       Nargo, LocateWitness, Bb, ReadOutput, Attest, Cleanup, Fail, Abort, Step,
       Goto

(* SlotOK(r) depends on r's own slot and the artifacts only. *)
LEMMA SlotFrame ==
  ASSUME NEW r, SlotOK(r), pc'[r] = pc[r], req'[r] = req[r],
         result'[r] = result[r], present' = present
  PROVE  SlotOK(r)'
BY DEF SlotOK, PS!Allowed, PS!Supplied, Admissible

-----------------------------------------------------------------------------
(* SlotOK after a step, read off the thread's new label, request and       *)
(* result; the artifacts are unchanged by every step of a thread.          *)
LEMMA SlotAt ==
  ASSUME NEW r, present' = present,
         pc'[r] = "resolve" => req'[r].cid # NoValue /\ PS!Supplied(req'[r]),
         pc'[r] \in {"mkdtemp"} \cup WithBlock => Admissible(req'[r]),
         pc'[r] \in {"attest", "cleanup"} => result'[r] \in PipelineAnswers,
         pc'[r] = "done" => result'[r] \in PS!Allowed(req'[r]) \cup {NoResult}
  PROVE  SlotOK(r)'
<1>1. PS!Allowed(req[r])' = PS!Allowed(req'[r])
  BY DEF PS!Allowed, PS!Supplied
<1>2. Admissible(req[r])' = Admissible(req'[r])
  BY DEF Admissible
<1>3. QED
  BY <1>1, <1>2 DEF SlotOK, PS!Supplied

(* The step shapes keep a thread's own SlotOK. *)

LEMMA FailSlot ==
  ASSUME TypeInv, NEW q \in Requests, NEW k, Fail(q, k),
         Err(k) \in PS!Allowed(req[q])
  PROVE  SlotOK(q)'
<1>1. pc'[q] = "done" /\ req' = req /\ present' = present /\ result'[q] = Err(k)
  BY DEF Fail, Goto, TypeInv, TypeOK
<1>2. QED
  BY <1>1, SlotAt DEF WithBlock

LEMMA AbortSlot ==
  ASSUME TypeInv, NEW q \in Requests, NEW k \in PS!PipelineErrors, Abort(q, k),
         SlotOK(q), pc[q] \in WithBlock
  PROVE  SlotOK(q)'
<1>1. pc'[q] = "cleanup" /\ req' = req /\ present' = present /\ result'[q] = Err(k)
  BY DEF Abort, Goto, TypeInv, TypeOK
<1>2. Admissible(req[q])
  BY DEF SlotOK
<1>3. Err(k) \in PipelineAnswers
  BY DEF PipelineAnswers
<1>4. QED
  BY <1>1, <1>2, <1>3, SlotAt DEF WithBlock

LEMMA StepSlot ==
  ASSUME TypeInv, NEW q \in Requests, NEW l \in {"stage", "nargo", "witness", "bb", "output"},
         Step(q, l), SlotOK(q), pc[q] \in {"mkdtemp"} \cup WithBlock
  PROVE  SlotOK(q)'
<1>1. pc'[q] = l /\ req' = req /\ present' = present /\ result' = result
  BY DEF Step, Goto, TypeInv, TypeOK
<1>2. Admissible(req[q])
  BY DEF SlotOK
<1>3. QED
  BY <1>1, <1>2, SlotAt DEF WithBlock

-----------------------------------------------------------------------------
LEMMA RInvInit == Init => RInv
BY TypeInvInit DEF Init, RInv, SlotOK, WithBlock

LEMMA RInvStep == RInv /\ [Next]_vars => RInv'
<1> SUFFICES ASSUME RInv, [Next]_vars PROVE RInv'
  OBVIOUS
<1>1. TypeInv'
  BY TypeInvStep DEF RInv
<1>2. CASE UNCHANGED vars
  BY <1>1, <1>2, SlotFrame DEF RInv, vars
<1>3. ASSUME NEW q \in Requests, Accept(q) \/ Worker(q) PROVE RInv'
  <2>1. \A x \in Requests \ {q} : SlotOK(x)'
    BY <1>3, SlotLocal, SlotFrame DEF RInv
  <2>2. SlotOK(q)
    BY DEF RInv
  <2> DEFINE p == req[q]
  <2>3. SlotOK(q)'
    <3>3. CASE Accept(q)
      <4>1. pc'[q] = "validate" /\ present' = present
        BY <3>3 DEF Accept, Goto, RInv, TypeInv, TypeOK
      <4>2. QED
        BY <4>1, SlotAt DEF WithBlock
    <3>4. CASE Validate(q)
      <4>1. CASE p.cid = NoValue /\ Fail(q, "MissingCircuitId")
        BY <4>1, FailSlot, SharedForms DEF RInv, PS!Allowed
      <4>2. CASE p.cid # NoValue /\ ~PS!Supplied(p) /\ Fail(q, "MissingInputs")
        BY <4>2, FailSlot, SharedForms DEF RInv, PS!Allowed
      <4>3. CASE p.cid # NoValue /\ PS!Supplied(p) /\ Step(q, "resolve")
        <5>1. pc'[q] = "resolve" /\ req' = req /\ present' = present
          BY <4>3 DEF Step, Goto, RInv, TypeInv, TypeOK
        <5>2. QED
          BY <4>3, <5>1, SlotAt DEF WithBlock
      <4>4. QED
        BY <3>4, <4>1, <4>2, <4>3 DEF Validate, PS!Supplied
    <3>5. CASE Resolve(q)
      <4>0. pc[q] = "resolve" /\ p.cid # NoValue /\ PS!Supplied(p)
        BY <2>2, <3>5 DEF Resolve, SlotOK
      <4>1. CASE p.cid \notin Circuits /\ Fail(q, "UnknownCircuit")
        BY <4>0, <4>1, FailSlot, SharedForms DEF RInv, PS!Allowed
      <4>2. CASE p.cid \in Circuits \ present /\ Fail(q, "ArtifactMissing")
        BY <4>0, <4>2, FailSlot, SharedForms DEF RInv, PS!Allowed
      <4>3. CASE p.cid \in present /\ Step(q, "mkdtemp")
        BY <4>0, <4>3 DEF Step, Goto, SlotOK, RInv, TypeInv, TypeOK, Admissible,
                          PS!Supplied, Payloads
      <4>4. QED
        BY <3>5, <4>1, <4>2, <4>3 DEF Resolve
    <3>6. CASE MakeWorkspace(q)
      <4>0. pc[q] = "mkdtemp" /\ Admissible(p)
        BY <2>2, <3>6 DEF MakeWorkspace, SlotOK
      <4>1. PS!Allowed(p) = PipelineAnswers
        BY <4>0, AllowedAdmissible DEF RInv, TypeInv, TypeOK
      <4>2. CASE Fail(q, "Internal")
        BY <4>1, <4>2, FailSlot DEF RInv, PipelineAnswers, PS!PipelineErrors
      <4>3. CASE Goto(q, "stage") /\ UNCHANGED <<req, present, result>>
        <5>1. pc'[q] = "stage" /\ req' = req /\ present' = present
          BY <4>3 DEF Goto, RInv, TypeInv, TypeOK
        <5>2. QED
          BY <4>0, <5>1, SlotAt DEF WithBlock
      <4>4. QED
        BY <3>6, <4>2, <4>3 DEF MakeWorkspace
    <3>7. CASE Stage(q) \/ Nargo(q) \/ LocateWitness(q) \/ Bb(q)
      <4>1. pc[q] \in WithBlock
        BY <3>7 DEF Stage, Nargo, LocateWitness, Bb, WithBlock
      <4>2. QED
        BY <2>2, <3>7, <4>1, AbortSlot, StepSlot
        DEF RInv, Stage, Nargo, LocateWitness, Bb, PS!PipelineErrors
    <3>8. CASE ReadOutput(q)
      <4>1. pc[q] = "output"
        BY <3>8 DEF ReadOutput
      <4>2. CASE Abort(q, "ProofMissing")
        BY <2>2, <4>1, <4>2, AbortSlot DEF RInv, WithBlock, PS!PipelineErrors
      <4>3. CASE /\ \E n \in 0..1 :
                      result' = [result EXCEPT ![q] = [type |-> "proof", pis |-> n, att |-> FALSE]]
                 /\ Goto(q, "attest")
                 /\ UNCHANGED <<req, present, ws, disk>>
        <5>1. pc'[q] = "attest" /\ req' = req /\ present' = present
          BY <4>3 DEF Goto, RInv, TypeInv, TypeOK
        <5>2. result'[q] \in PipelineAnswers
          BY <4>3 DEF RInv, TypeInv, TypeOK, PipelineAnswers, ProofResults
        <5>3. Admissible(req[q])
          BY <2>2, <4>1 DEF SlotOK, WithBlock
        <5>4. QED
          BY <5>1, <5>2, <5>3, SlotAt DEF WithBlock
      <4>4. QED
        BY <3>8, <4>2, <4>3 DEF ReadOutput
    <3>9. CASE Attest(q)
      <4>1. PICK e \in NsmEnv : result' = [result EXCEPT ![q].att = DocAttached(e)]
        BY <3>9 DEF Attest
      <4>2. result[q] \in ProofResults
        BY <3>9 DEF Attest, RInv, TypeInv, AttestHoldsProof
      <4>3. result'[q] \in ProofResults
        BY <4>1, <4>2 DEF RInv, TypeInv, TypeOK, ProofResults, DocAttached
      <4>4. pc[q] = "attest" /\ pc'[q] = "cleanup" /\ req' = req /\ present' = present
        BY <3>9 DEF Attest, Goto, RInv, TypeInv, TypeOK
      <4>5. Admissible(req[q])
        BY <2>2, <4>4 DEF SlotOK, WithBlock
      <4>6. QED
        BY <4>3, <4>4, <4>5, SlotAt DEF WithBlock, PipelineAnswers
    <3>10. CASE Cleanup(q)
      <4>1. pc[q] = "cleanup" /\ Admissible(p) /\ result[q] \in PipelineAnswers
        BY <2>2, <3>10 DEF Cleanup, SlotOK, WithBlock
      <4>2. PS!Allowed(p) = PipelineAnswers
        BY <4>1, AllowedAdmissible DEF RInv, TypeInv, TypeOK
      <4>3. pc'[q] = "done" /\ req' = req /\ present' = present /\ result' = result
        BY <3>10 DEF Cleanup, Goto, RInv, TypeInv, TypeOK
      <4>4. QED
        BY <4>1, <4>2, <4>3, SlotAt DEF WithBlock
    <3>11. QED
      BY <1>3, <3>3, <3>4, <3>5, <3>6, <3>7, <3>8, <3>9, <3>10 DEF Worker
  <2>4. QED
    BY <1>1, <2>1, <2>3 DEF RInv
<1>4. QED
  BY <1>2, <1>3 DEF Next

-----------------------------------------------------------------------------
(* The service's view of the pipeline, as the refinement mapping gives it. *)
Inflight == {r \in Requests : ~Answered(r)}
Response == [r \in Requests |-> IF Answered(r) THEN result[r] ELSE NoResult]

(* A worker step leaves the request and the artifacts as they are. *)
LEMMA WorkerKeeps ==
  ASSUME TypeInv, NEW q \in Requests, Worker(q)
  PROVE  /\ req' = req /\ present' = present /\ pc[q] # "done"
         /\ pc' = [pc EXCEPT ![q] = pc'[q]] /\ result' = [result EXCEPT ![q] = result'[q]]
BY DEF TypeInv, TypeOK, Worker, Validate, Resolve, MakeWorkspace, Stage, Nargo,
       LocateWitness, Bb, ReadOutput, Attest, Cleanup, Fail, Abort, Step, Goto

(* A worker step that returns from handle_prove returns an answer. *)
LEMMA ReturnsAnswer ==
  ASSUME RInv, NEW q \in Requests, Worker(q), pc'[q] = "done"
  PROVE  result'[q] # NoResult
<1>1. CASE Cleanup(q)
  <2>1. result[q] \in PipelineAnswers /\ result'[q] = result[q]
    BY <1>1 DEF Cleanup, RInv, SlotOK
  <2>2. QED
    BY <2>1 DEF PipelineAnswers, ProofResults, Err, NoResult
<1>2. CASE Validate(q) \/ Resolve(q) \/ MakeWorkspace(q)
  <2>1. \E k : result'[q] = Err(k)
    BY <1>2 DEF Validate, Resolve, MakeWorkspace, Fail, Step, Goto, RInv, TypeInv, TypeOK
  <2>2. QED
    BY <2>1 DEF Err, NoResult
<1>3. CASE Stage(q) \/ Nargo(q) \/ LocateWitness(q) \/ Bb(q) \/ ReadOutput(q) \/ Attest(q)
  <2>1. pc'[q] # "done"
    BY <1>3 DEF Stage, Nargo, LocateWitness, Bb, ReadOutput, Attest, Abort, Step, Goto,
                RInv, TypeInv, TypeOK
  <2>2. QED
    BY <2>1
<1>4. QED
  BY <1>1, <1>2, <1>3 DEF Worker

(* Every step of the pipeline is a step of the service or leaves its view  *)
(* alone: accepting a connection submits, returning from handle_prove      *)
(* responds, and everything in between is hidden.                          *)
LEMMA Simulation == RInv /\ RInv' /\ [Next]_vars => [PS!SNext]_PS!svars
<1> SUFFICES ASSUME RInv, RInv', [Next]_vars PROVE [PS!SNext]_PS!svars
  OBVIOUS
<1>1. CASE UNCHANGED vars
  BY <1>1 DEF vars, PS!svars, Answered
<1>2. ASSUME NEW q \in Requests, Accept(q) PROVE PS!Submit(q)
  <2>1. /\ pc[q] = "done" /\ pc' = [pc EXCEPT ![q] = "validate"]
        /\ result' = [result EXCEPT ![q] = NoResult] /\ present' = present
        /\ \E p \in Payloads : req' = [req EXCEPT ![q] = p]
    BY <1>2 DEF Accept, Goto
  <2>2. q \notin Inflight /\ Inflight' = Inflight \cup {q}
    BY <2>1 DEF Inflight, Answered, RInv, TypeInv, TypeOK
  <2>3. Response' = [Response EXCEPT ![q] = NoResult]
    BY <2>1 DEF Response, Answered, RInv, TypeInv, TypeOK
  <2>4. QED
    BY <2>1, <2>2, <2>3, SharedForms DEF PS!Submit, Inflight, Response
<1>3. ASSUME NEW q \in Requests, Worker(q) PROVE [PS!SNext]_PS!svars
  <2>1. /\ req' = req /\ present' = present /\ pc[q] # "done"
        /\ pc' = [pc EXCEPT ![q] = pc'[q]] /\ result' = [result EXCEPT ![q] = result'[q]]
    BY <1>3, WorkerKeeps DEF RInv
  <2>2. CASE pc'[q] = "done"
    <3>1. result'[q] # NoResult
      BY <1>3, <2>2, ReturnsAnswer
    <3>2. result'[q] \in PS!Allowed(req'[q]) \cup {NoResult}
      <4>1. SlotOK(q)'
        BY DEF RInv
      <4>2. PS!Allowed(req[q])' = PS!Allowed(req'[q])
        BY <2>1 DEF PS!Allowed, PS!Supplied
      <4>3. QED
        BY <2>2, <4>1, <4>2 DEF SlotOK
    <3>3. result'[q] \in PS!Allowed(req[q])
      BY <2>1, <3>1, <3>2 DEF PS!Allowed, PS!Supplied
    <3>4. q \in Inflight /\ Inflight' = Inflight \ {q}
      BY <2>1, <2>2 DEF Inflight, Answered, RInv, TypeInv, TypeOK
    <3>5. Response' = [Response EXCEPT ![q] = result'[q]]
      BY <2>1, <2>2 DEF Response, Answered, RInv, TypeInv, TypeOK
    <3>6. PS!Respond(q)
      BY <2>1, <3>3, <3>4, <3>5 DEF PS!Respond, Inflight, Response
    <3>7. QED
      BY <3>6 DEF PS!SNext
  <2>3. CASE pc'[q] # "done"
    <3>1. Inflight' = Inflight
      BY <2>1, <2>3 DEF Inflight, Answered, RInv, TypeInv, TypeOK
    <3>2. Response' = Response
      BY <2>1, <2>3 DEF Response, Answered, RInv, TypeInv, TypeOK
    <3>3. QED
      BY <2>1, <3>1, <3>2 DEF PS!svars, Inflight, Response
  <2>4. QED
    BY <2>2, <2>3
<1>4. QED
  BY <1>1, <1>2, <1>3 DEF Next, PS!SNext

(* The pipeline's initial state, every worker idle, is the service's.      *)
LEMMA InitMaps == Init => PS!SInit
BY SharedForms DEF Init, PS!SInit, Answered

(* Whatever interleaving of prove threads, handle_prove returns to each    *)
(* caller once, at the end of its thread, with an answer the service       *)
(* allows: validation errors in the order handle_prove checks them,        *)
(* UnknownCircuit and ArtifactMissing before any workspace, and a proof or *)
(* a pipeline failure only for an admissible request.                      *)
THEOREM Refinement == Spec => PS!SInit /\ [][PS!SNext]_PS!svars
<1>1. Init => RInv
  BY RInvInit
<1>2. RInv /\ [Next]_vars => RInv'
  BY RInvStep
<1>3. RInv /\ RInv' /\ [Next]_vars => [PS!SNext]_PS!svars
  BY Simulation
<1>4. QED
  BY <1>1, <1>2, <1>3, InitMaps, PTL DEF Spec

-----------------------------------------------------------------------------
(* Only mkdtemp adds to the disk, for the thread it made the entry for. *)
LEMMA NewWorkspaceAdmissible ==
  ASSUME RInv, [Next]_vars
  PROVE  \A w \in disk' \ disk : \E r \in Requests : pc[r] = "mkdtemp" /\ ws'[r] = w /\ Admissible(req[r])
<1>1. CASE UNCHANGED vars
  BY <1>1 DEF vars
<1>2. ASSUME NEW q \in Requests, Accept(q) PROVE disk' = disk
  BY <1>2 DEF Accept
<1>3. ASSUME NEW q \in Requests, Worker(q), ~MakeWorkspace(q) PROVE disk' \subseteq disk
  BY <1>3 DEF Worker, Validate, Resolve, Stage, Nargo, LocateWitness, Bb,
              ReadOutput, Attest, Cleanup, Fail, Abort, Step
<1>4. ASSUME NEW q \in Requests, MakeWorkspace(q)
      PROVE  \A w \in disk' \ disk : \E r \in Requests : pc[r] = "mkdtemp" /\ ws'[r] = w /\ Admissible(req[r])
  <2>1. pc[q] = "mkdtemp" /\ Admissible(req[q])
    BY <1>4 DEF MakeWorkspace, RInv, SlotOK
  <2>2. CASE Fail(q, "Internal")
    BY <2>2 DEF Fail
  <2>3. CASE \E w \in WsNames \ disk : ws' = [ws EXCEPT ![q] = w] /\ disk' = disk \cup {w}
    BY <2>1, <2>3 DEF RInv, TypeInv, TypeOK
  <2>4. QED
    BY <1>4, <2>2, <2>3 DEF MakeWorkspace
<1>5. QED
  BY <1>1, <1>2, <1>3, <1>4 DEF Next

(* generate_proof makes a workspace (mkdtemp, the first statement of its   *)
(* with block) only for a request with a registered circuit whose          *)
(* artifacts exist and with inputs or a proverToml: every request that     *)
(* handle_prove and the artifact check would reject is rejected first.     *)
THEOREM NoDoomed == Spec => NoDoomedWorkspace
<1>1. Init => RInv
  BY RInvInit
<1>2. RInv /\ [Next]_vars => RInv'
  BY RInvStep
<1>3. RInv /\ [Next]_vars => \A w \in disk' \ disk : \E r \in Requests : pc[r] = "mkdtemp" /\ ws'[r] = w /\ Admissible(req[r])
  BY NewWorkspaceAdmissible
<1>4. QED
  BY <1>1, <1>2, <1>3, PTL DEF Spec, NoDoomedWorkspace


=============================================================================
