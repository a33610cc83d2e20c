------------------------ MODULE BatchOperationProofs ------------------------
(* Proofs about BatchOperation, for every set of notes, outputs,            *)
(* transactions and workers.                                                *)
EXTENDS BatchOperation, TLAPS

(* The provers tried on a leaf that names none, and their time limits. *)
USE ZenonT(120), SMTT(120)

(* What a worker holds between two steps: one record per stage of its call. *)
MaybeTx == Txs \cup {None}

LookupState == {"succeeded", "failed", "absent"}

Bare == [pc : {"idle", "acquire", "claim", "recover", "reset", "prove"}]

Reading == [pc : {"lookup"}, status : OperationStatus, tx : MaybeTx, resign : BOOLEAN]

Submitting == [pc : {"admit", "lease", "compare", "resign", "sign"}, status : OperationStatus,
               tx : MaybeTx, resign : BOOLEAN, failed : BOOLEAN]

Staging == [pc : {"stage", "recheck", "confirm", "send"}, tx : Txs]

Recording == [pc : {"record"}, tx : Txs, unknown : BOOLEAN]

Looking == [pc : {"candidates"}, status : OperationStatus, tx : MaybeTx, history : SUBSET Txs]

Found == [pc : {"nullifiers"}, status : OperationStatus, tx : MaybeTx, state : LookupState]

Applying == [pc : {"apply"}, status : OperationStatus,
             e : [tx : MaybeTx, state : LookupState, spent : SUBSET Notes]]

Job == Bare \cup Reading \cup Submitting \cup Staging \cup Recording
       \cup Looking \cup Found \cup Applying

JobTypeOK == worker \in [Workers -> Job]

(* A stored proof has left the proving stage. *)
ProofKept == op.proof => op.status \notin {"Planned", "Proving"}

(* Who staged a transaction and still has the lease finds the operation in  *)
(* a state that RecordBatchBroadcast may move.                              *)
Broadcastable == {"ProofReady", "Submitted", "Unknown"}

HeldSinceStaged ==
    \A w \in Workers :
        worker[w].pc \in {"recheck", "confirm", "send", "record"} /\ op.token = w =>
            op.status \in Broadcastable

(* What a reconciler has read of the chain is still so. *)
FromChain(c, tx, state) ==
    /\ state = "succeeded" => tx \in Txs /\ c[tx] = "succeeded"
    /\ state = "failed" => tx \in Txs /\ c[tx] = "failed"

EvidenceStands ==
    \A w \in Workers :
        /\ worker[w].pc = "nullifiers" => FromChain(chain, worker[w].tx, worker[w].state)
        /\ worker[w].pc = "apply" =>
             FromChain(chain, worker[w].e.tx, worker[w].e.state) /\ worker[w].e.spent \subseteq spent

BatchInv ==
    /\ BatchTypeOK /\ JobTypeOK
    /\ LeaseWhole /\ StatusAgrees /\ ResolvedByTheChain
    /\ ProofKept /\ HeldSinceStaged /\ EvidenceStands

-----------------------------------------------------------------------------
(* The program counter of a worker tells which record it holds.             *)
LEMMA JobKinds ==
    ASSUME NEW j \in Job
    PROVE  /\ j.pc \in {"idle", "acquire", "claim", "recover", "reset", "prove"} => j \in Bare
           /\ j.pc = "lookup" => j \in Reading
           /\ j.pc \in {"admit", "lease", "compare", "resign", "sign"} => j \in Submitting
           /\ j.pc \in {"stage", "recheck", "confirm", "send"} => j \in Staging
           /\ j.pc = "record" => j \in Recording
           /\ j.pc = "candidates" => j \in Looking
           /\ j.pc = "nullifiers" => j \in Found
           /\ j.pc = "apply" => j \in Applying
  BY DEF Job, Bare, Reading, Submitting, Staging, Recording, Looking, Found, Applying

(* Moving on within a stage keeps the record's kind.                        *)
LEMMA GotoKeepsKind ==
    ASSUME JobTypeOK, NEW w \in Workers, NEW pc, Goto(w, pc),
           \/ worker[w] \in Bare
                /\ pc \in {"idle", "acquire", "claim", "recover", "reset", "prove"}
           \/ worker[w] \in Submitting
                /\ pc \in {"admit", "lease", "compare", "resign", "sign"}
           \/ worker[w] \in Staging
                /\ pc \in {"stage", "recheck", "confirm", "send"}
    PROVE  JobTypeOK' /\ worker'[w].pc = pc
<1>1. worker' = [worker EXCEPT ![w] = [worker[w] EXCEPT !.pc = pc]]
  BY DEF Goto
<1>2. [worker[w] EXCEPT !.pc = pc] \in Job /\ [worker[w] EXCEPT !.pc = pc].pc = pc
  <2>1. CASE worker[w] \in Bare
               /\ pc \in {"idle", "acquire", "claim", "recover", "reset", "prove"}
    <3>1. [worker[w] EXCEPT !.pc = pc] \in Bare /\ [worker[w] EXCEPT !.pc = pc].pc = pc
      BY <2>1 DEF Bare
    <3> QED BY <3>1 DEF Job
  <2>2. CASE worker[w] \in Submitting /\ pc \in {"admit", "lease", "compare", "resign", "sign"}
    <3>1. [worker[w] EXCEPT !.pc = pc] \in Submitting /\ [worker[w] EXCEPT !.pc = pc].pc = pc
      BY <2>2 DEF Submitting
    <3> QED BY <3>1 DEF Job
  <2>3. CASE worker[w] \in Staging /\ pc \in {"stage", "recheck", "confirm", "send"}
    <3>1. [worker[w] EXCEPT !.pc = pc] \in Staging /\ [worker[w] EXCEPT !.pc = pc].pc = pc
      BY <2>3 DEF Staging
    <3> QED BY <3>1 DEF Job
  <2> QED BY <2>1, <2>2, <2>3
<1> QED BY <1>1, <1>2 DEF JobTypeOK

(* A call that returns leaves its worker idle and every record typed.       *)
LEMMA ReturnTyped ==
    ASSUME JobTypeOK, NEW w \in Workers, Return(w)
    PROVE  JobTypeOK' /\ worker'[w].pc = "idle"
  BY DEF JobTypeOK, Return, Idle, Job, Bare

-----------------------------------------------------------------------------
(* What a worker's step may do to the store: one call of it.                *)
Release(w) == Holds(w) /\ op' = Unleased(op) /\ input' = InputsWith(None)

LeasedCall(w) ==
    \/ AcquireBatchOperationLease(w) \/ Release(w)
    \/ HeartbeatBatchOperationLease(w)
    \/ Claim(w) \/ RollBack(w) \/ SaveBatchProofArtifacts(w)
    \/ PrepareBatchOperationResign(w, worker[w].tx)
    \/ At(w, "stage") /\ SaveBatchSignedTx(w, worker[w].tx)
    \/ At(w, "record") /\ RecordBatchBroadcast(w, worker[w].tx, worker[w].unknown)

StoreStep ==
    \/ UNCHANGED storeVars
    \/ op' = [op EXCEPT !.live = FALSE] /\ UNCHANGED <<input, item>>
    \/ \E w \in Workers : LeasedCall(w) /\ UNCHANGED item
    \/ \E w \in Workers : ApplyEvidence(w)

(* Every step of the workers and of the chain is one of these for the store *)
(* (batch_memory_store.go: each method runs under the store's lock).        *)
LEMMA StoreSteps == BatchNext => StoreStep
<1> SUFFICES ASSUME BatchNext PROVE StoreStep
  OBVIOUS
<1>1. CASE Expire \/ OtherTx \/ (\E t \in Txs : Include(t) \/ RejectOrDrop(t))
             \/ (\E n \in Notes : ForeignSpend(n))
  BY <1>1 DEF StoreStep, storeVars, Expire, OtherTx, Include, RejectOrDrop, ForeignSpend
<1>2. ASSUME NEW w \in Workers,
             \/ Process(w) \/ (\E resign \in BOOLEAN : Submit(w, resign))
             \/ LookupPriorTx(w) \/ AdmitBroadcast(w) \/ CompareFresh(w) \/ BuildSignedBatchTx(w)
             \/ RecheckNullifiers(w) \/ BroadcastSignedBatchTx(w)
             \/ Reconcile(w) \/ LookupBatchTxCandidates(w) \/ CheckBatchNullifiers(w) \/ Crash(w)
      PROVE  StoreStep
  BY <1>2 DEF StoreStep, storeVars, Process, Submit, LookupPriorTx, AdmitBroadcast, CompareFresh,
              BuildSignedBatchTx, RecheckNullifiers, BroadcastSignedBatchTx, Reconcile,
              LookupBatchTxCandidates, CheckBatchNullifiers, Crash
<1>3. ASSUME NEW w \in Workers,
             \/ AcquireToProve(w) \/ ClaimProving(w) \/ ResetProving(w) \/ ProveBatchPayroll(w)
             \/ AcquireToBroadcast(w) \/ AuthorizeResign(w) \/ StageSignedTx(w)
             \/ ConfirmLease(w) \/ RecordOutcome(w) \/ Heartbeat(w)
      PROVE  StoreStep
  <2>1. LeasedCall(w) /\ UNCHANGED item
    BY <1>3 DEF LeasedCall, AcquireToProve, ClaimProving, ResetProving, ProveBatchPayroll,
                AcquireToBroadcast, AuthorizeResign, StageSignedTx, ConfirmLease, RecordOutcome,
                Heartbeat, HeartbeatBatchOperationLease
  <2> QED BY <2>1 DEF StoreStep
<1>4. ASSUME NEW w \in Workers, Abandon(w) PROVE StoreStep
  BY <1>4 DEF StoreStep, storeVars, LeasedCall, Release, Abandon, GiveUp
<1>5. ASSUME NEW w \in Workers, ApplyEvidence(w) PROVE StoreStep
  BY <1>5 DEF StoreStep
<1> QED BY <1>1, <1>2, <1>3, <1>4, <1>5 DEF BatchNext

-----------------------------------------------------------------------------
(* The chain never takes back what it included or recorded as spent.        *)
ChainKept ==
    /\ chain' \in [Txs -> TxState] /\ fresh' \subseteq Txs /\ spent' \subseteq Notes
    /\ \A t \in Txs : chain[t] \in Included => chain'[t] = chain[t]
    /\ spent \subseteq spent'

(* No step of a worker or of the chain undoes an inclusion or a recorded    *)
(* nullifier: evidence read by reconciliation stays true.                   *)
LEMMA ChainSteps ==
    ASSUME BatchTypeOK, JobTypeOK, BatchNext
    PROVE  ChainKept
<1> USE DEF BatchTypeOK, ChainKept, TxState, Included
<1>1. CASE Expire \/ OtherTx \/ (\E n \in Notes : ForeignSpend(n))
  BY <1>1 DEF Expire, OtherTx, ForeignSpend, chainVars
<1>2. ASSUME NEW t \in Txs, Include(t) PROVE ChainKept
  BY <1>2 DEF Include
<1>3. ASSUME NEW t \in Txs, RejectOrDrop(t) PROVE ChainKept
  BY <1>3 DEF RejectOrDrop
<1>4. ASSUME NEW w \in Workers, BuildSignedBatchTx(w) PROVE ChainKept
  BY <1>4 DEF BuildSignedBatchTx, chainVars
<1>5. ASSUME NEW w \in Workers, BroadcastSignedBatchTx(w) PROVE ChainKept
  <2>1. worker[w].tx \in Txs
    BY SMTT(120), <1>5, JobKinds DEF BroadcastSignedBatchTx, At, JobTypeOK, Staging
  <2> QED BY <1>5, <2>1 DEF BroadcastSignedBatchTx
<1>6. ASSUME NEW w \in Workers,
             \/ Process(w) \/ AcquireToProve(w) \/ ClaimProving(w) \/ ResetProving(w)
             \/ ProveBatchPayroll(w) \/ (\E resign \in BOOLEAN : Submit(w, resign))
             \/ LookupPriorTx(w) \/ AdmitBroadcast(w) \/ AcquireToBroadcast(w) \/ CompareFresh(w)
             \/ AuthorizeResign(w) \/ StageSignedTx(w) \/ RecheckNullifiers(w)
             \/ ConfirmLease(w) \/ RecordOutcome(w)
             \/ Reconcile(w) \/ LookupBatchTxCandidates(w) \/ CheckBatchNullifiers(w)
             \/ ApplyEvidence(w) \/ Heartbeat(w) \/ Abandon(w) \/ Crash(w)
      PROVE  ChainKept
  <2>1. UNCHANGED chainVars
    BY <1>6 DEF Process, AcquireToProve, ClaimProving, ResetProving, ProveBatchPayroll, Submit,
                LookupPriorTx, AdmitBroadcast, AcquireToBroadcast, CompareFresh, AuthorizeResign,
                StageSignedTx, RecheckNullifiers, ConfirmLease, RecordOutcome, Reconcile,
                LookupBatchTxCandidates, CheckBatchNullifiers, ApplyEvidence, Heartbeat, Abandon,
                GiveUp, Crash
  <2> QED BY <2>1 DEF chainVars
<1> QED BY <1>1, <1>2, <1>3, <1>4, <1>5, <1>6 DEF BatchNext

-----------------------------------------------------------------------------
(* Type correctness of the store's calls.                                   *)
StoreTypeOK ==
    /\ op \in [status : OperationStatus, token : Workers \cup {None}, live : BOOLEAN,
               proof : BOOLEAN, tx : Txs \cup {None}, history : SUBSET Txs]
    /\ input \in [Notes -> [status : InputStatus, token : Workers \cup {None}]]
    /\ item \in [Outputs -> EvidenceStatus]

(* The two bulk writes over the inputs of a batch keep every input row      *)
(* typed.                                                                   *)
LEMMA InputsTyped ==
    ASSUME StoreTypeOK, NEW token \in Workers \cup {None}
    PROVE  /\ InputsWith(token) \in [Notes -> [status : InputStatus, token : Workers \cup {None}]]
           /\ \A n \in Notes : /\ InputsWith(token)[n].status = input[n].status
                               /\ InputsWith(token)[n].token = token
           /\ \A s \in InputStatus :
                Inputs(s, token) \in [Notes -> [status : InputStatus, token : Workers \cup {None}]]
  BY DEF StoreTypeOK, InputsWith, Inputs

(* A store call that checks the lease writes typed records.                 *)
LEMMA LeasedCallTyped ==
    ASSUME StoreTypeOK, JobTypeOK, NEW w \in Workers, LeasedCall(w), UNCHANGED item
    PROVE  StoreTypeOK'
<1> DEFINE InputType == [Notes -> [status : InputStatus, token : Workers \cup {None}]]
<1>1. /\ InputsWith(w) \in InputType /\ InputsWith(None) \in InputType
      /\ \A s \in {"Reserved", "Proving", "ProofReady", "Submitted", "Unknown"} :
           Inputs(s, w) \in InputType /\ Inputs(s, None) \in InputType
  BY InputsTyped DEF InputStatus
<1>2. At(w, "stage") \/ At(w, "record") => worker[w].tx \in Txs
  BY SMTT(120), JobKinds DEF JobTypeOK, At, Staging, Recording
<1> USE DEF StoreTypeOK, OperationStatus
<1>3. CASE AcquireBatchOperationLease(w) \/ Release(w) \/ HeartbeatBatchOperationLease(w)
  BY <1>1, <1>3, ZenonT(120) DEF AcquireBatchOperationLease, Release, HeartbeatBatchOperationLease, Unleased
<1>4. CASE Claim(w) \/ RollBack(w) \/ SaveBatchProofArtifacts(w)
  BY <1>1, <1>4, ZenonT(120) DEF Claim, RollBack, SaveBatchProofArtifacts, Unleased
<1>5. CASE PrepareBatchOperationResign(w, worker[w].tx)
  BY <1>1, <1>5 DEF PrepareBatchOperationResign
<1>6. CASE At(w, "stage") /\ SaveBatchSignedTx(w, worker[w].tx)
  BY <1>2, <1>6 DEF SaveBatchSignedTx
<1>7. CASE At(w, "record") /\ RecordBatchBroadcast(w, worker[w].tx, worker[w].unknown)
  <2>1. BroadcastStatus(worker[w].unknown) \in {"Unknown", "Submitted"}
    BY DEF BroadcastStatus
  <2> QED BY <1>1, <1>2, <1>7, <2>1 DEF RecordBatchBroadcast, Unleased
<1> QED BY <1>3, <1>4, <1>5, <1>6, <1>7 DEF LeasedCall

(* The statuses that ReconcileBatchOperation computes are statuses of the   *)
(* store, whatever the evidence.                                            *)
LEMMA ReconciledTyped ==
    ASSUME StoreTypeOK, NEW e
    PROVE  /\ EvidenceTarget(e) \in {"Succeeded", "Failed", "ManualReview"}
           /\ ReconciledStatus(e) \in {"Succeeded", "Failed", "ManualReview", "ConflictSpent"}
           /\ \A n \in Notes : ReconciledInput(n, e) \in InputStatus
           /\ \A o \in Outputs, observed \in {"none", "match", "mismatch"} :
                ReconciledItem(o, e, observed) \in EvidenceStatus
<1>1. EvidenceTarget(e) \in {"Succeeded", "Failed", "ManualReview"}
  BY DEF EvidenceTarget
<1>2. ReconciledStatus(e) \in {"Succeeded", "Failed", "ManualReview", "ConflictSpent"}
  BY <1>1 DEF ReconciledStatus
<1>3. \A n \in Notes : ReconciledInput(n, e) \in InputStatus
  BY DEF ReconciledInput, StoreTypeOK, InputStatus
<1>4. ASSUME NEW o \in Outputs, NEW observed \in {"none", "match", "mismatch"}
      PROVE  ReconciledItem(o, e, observed) \in EvidenceStatus
  BY DEF ReconciledItem, StoreTypeOK, EvidenceStatus
<1> QED BY <1>1, <1>2, <1>3, <1>4

(* Writing the evidence keeps the store typed.                              *)
LEMMA ApplyEvidenceTyped ==
    ASSUME StoreTypeOK, JobTypeOK, NEW w \in Workers, ApplyEvidence(w)
    PROVE  StoreTypeOK'
<1> DEFINE e == worker[w].e
<1>1. e.tx \in MaybeTx
  BY SMTT(120), JobKinds DEF ApplyEvidence, At, JobTypeOK, Applying
<1>2. PICK observed \in [Outputs -> {"none", "match", "mismatch"}] : ReconcileBatchOperation(e, observed)
  BY DEF ApplyEvidence
<1> HIDE DEF e
<1>3. op' = Unleased([op EXCEPT !.status = ReconciledStatus(e),
                                !.tx = IF e.tx = None THEN @ ELSE e.tx])
  BY <1>2 DEF ReconcileBatchOperation
<1>4. input' = [n \in Notes |-> [status |-> ReconciledInput(n, e), token |-> None]]
  BY <1>2 DEF ReconcileBatchOperation
<1>5. item' = [o \in Outputs |-> ReconciledItem(o, e, observed[o])]
  BY <1>2 DEF ReconcileBatchOperation
<1>6. op' \in [status : OperationStatus, token : Workers \cup {None}, live : BOOLEAN,
               proof : BOOLEAN, tx : Txs \cup {None}, history : SUBSET Txs]
  BY <1>1, <1>3, ReconciledTyped DEF StoreTypeOK, Unleased, MaybeTx, OperationStatus
<1> QED BY <1>4, <1>5, <1>6, ReconciledTyped DEF StoreTypeOK

(* The operation, its reservations and the chain keep their types through   *)
(* every call (validateBatchGraph, the record types of batch_types.go).     *)
LEMMA StoreStepTyped ==
    ASSUME StoreTypeOK, JobTypeOK, StoreStep
    PROVE  StoreTypeOK'
<1>1. CASE UNCHANGED storeVars
  BY <1>1 DEF storeVars, StoreTypeOK
<1>2. CASE op' = [op EXCEPT !.live = FALSE] /\ UNCHANGED <<input, item>>
  BY <1>2 DEF StoreTypeOK
<1> QED BY <1>1, <1>2, LeasedCallTyped, ApplyEvidenceTyped DEF StoreStep

(* What a worker holds keeps the type of its stage through every step of    *)
(* the three workers (BatchProofWorker, the broadcaster, the reconciler).   *)
LEMMA JobStepTyped ==
    ASSUME BatchTypeOK, JobTypeOK, BatchNext
    PROVE  JobTypeOK'
<1>1. CASE Expire \/ OtherTx \/ (\E t \in Txs : Include(t) \/ RejectOrDrop(t))
             \/ (\E n \in Notes : ForeignSpend(n))
  BY <1>1 DEF JobTypeOK, Expire, OtherTx, Include, RejectOrDrop, ForeignSpend
<1>2. ASSUME NEW w \in Workers PROVE worker[w] \in Job
  BY DEF JobTypeOK
<1>3. ASSUME NEW w \in Workers,
             \/ Process(w) \/ AcquireToProve(w) \/ ClaimProving(w)
      PROVE  JobTypeOK'
  <2>1. worker[w] \in Bare
    BY <1>2, <1>3, JobKinds DEF Process, AcquireToProve, ClaimProving, At
  <2>2. PICK pc \in {"acquire", "recover", "claim", "reset", "prove"} : Goto(w, pc)
    BY <1>3 DEF Process, AcquireToProve, ClaimProving
  <2> QED BY <2>1, <2>2, GotoKeepsKind
<1>4. ASSUME NEW w \in Workers,
             \/ AdmitBroadcast(w) \/ AcquireToBroadcast(w) \/ CompareFresh(w) \/ AuthorizeResign(w)
      PROVE  JobTypeOK'
  <2>1. worker[w] \in Submitting
    BY <1>2, <1>4, JobKinds DEF AdmitBroadcast, AcquireToBroadcast, CompareFresh, AuthorizeResign, At
  <2>2. PICK pc \in {"lease", "compare", "resign", "sign"} : Goto(w, pc)
    BY <1>4 DEF AdmitBroadcast, AcquireToBroadcast, CompareFresh, AuthorizeResign
  <2> QED BY <2>1, <2>2, GotoKeepsKind
<1>5. ASSUME NEW w \in Workers,
             \/ StageSignedTx(w) \/ RecheckNullifiers(w) \/ ConfirmLease(w)
      PROVE  JobTypeOK'
  <2>1. worker[w] \in Staging
    BY <1>2, <1>5, JobKinds DEF StageSignedTx, RecheckNullifiers, ConfirmLease, At
  <2>2. PICK pc \in {"recheck", "confirm", "send"} : Goto(w, pc)
    BY <1>5 DEF StageSignedTx, RecheckNullifiers, ConfirmLease
  <2> QED BY <2>1, <2>2, GotoKeepsKind
<1>6. ASSUME NEW w \in Workers,
             \/ ResetProving(w) \/ ProveBatchPayroll(w) \/ RecordOutcome(w)
             \/ ApplyEvidence(w) \/ Abandon(w) \/ Crash(w)
      PROVE  JobTypeOK'
  <2>1. Return(w)
    BY <1>6 DEF ResetProving, ProveBatchPayroll, RecordOutcome, ApplyEvidence, Abandon, GiveUp, Crash
  <2> QED BY <2>1, ReturnTyped
<1>7. ASSUME NEW w \in Workers, NEW resign \in BOOLEAN, Submit(w, resign) PROVE JobTypeOK'
  <2>1. [pc |-> "lookup", status |-> op.status, tx |-> op.tx, resign |-> resign] \in Reading
    BY DEF Reading, BatchTypeOK, MaybeTx
  <2> QED BY <1>7, <2>1 DEF Submit, JobTypeOK, Job
<1>8. ASSUME NEW w \in Workers, LookupPriorTx(w) PROVE JobTypeOK'
  <2>1. PICK failed \in BOOLEAN :
          worker' = [worker EXCEPT ![w] =
             [pc |-> "admit", status |-> worker[w].status, tx |-> worker[w].tx,
              resign |-> worker[w].resign, failed |-> failed]]
    BY <1>8 DEF LookupPriorTx
  <2>2. worker[w] \in Reading
    BY <1>2, <1>8, JobKinds DEF LookupPriorTx, At
  <2>3. [pc |-> "admit", status |-> worker[w].status, tx |-> worker[w].tx,
         resign |-> worker[w].resign, failed |-> failed] \in Submitting
    BY <2>2 DEF Reading, Submitting
  <2> QED BY <2>1, <2>3 DEF JobTypeOK, Job
<1>9. ASSUME NEW w \in Workers, BuildSignedBatchTx(w) PROVE JobTypeOK'
  <2>1. worker[w].tx \in MaybeTx
    BY <1>2, <1>9, JobKinds DEF BuildSignedBatchTx, At, Submitting
  <2>2. PICK tx \in Txs : worker' = [worker EXCEPT ![w] = [pc |-> "stage", tx |-> tx]]
    BY <1>9, <2>1 DEF BuildSignedBatchTx, SignedWith, MaybeTx
  <2>3. [pc |-> "stage", tx |-> tx] \in Staging
    BY DEF Staging
  <2> QED BY <2>2, <2>3 DEF JobTypeOK, Job
<1>10. ASSUME NEW w \in Workers, BroadcastSignedBatchTx(w) PROVE JobTypeOK'
  <2>1. worker[w].tx \in Txs
    BY <1>2, <1>10, JobKinds DEF BroadcastSignedBatchTx, At, Staging
  <2>2. PICK unknown \in BOOLEAN :
          worker' = [worker EXCEPT ![w] = [pc |-> "record", tx |-> worker[w].tx, unknown |-> unknown]]
    BY <1>10 DEF BroadcastSignedBatchTx
  <2>3. [pc |-> "record", tx |-> worker[w].tx, unknown |-> unknown] \in Recording
    BY <2>1 DEF Recording
  <2> QED BY <2>2, <2>3 DEF JobTypeOK, Job
<1>11. ASSUME NEW w \in Workers, Reconcile(w) PROVE JobTypeOK'
  <2>1. [pc |-> "candidates", status |-> op.status, tx |-> op.tx, history |-> op.history] \in Looking
    BY DEF Looking, BatchTypeOK, MaybeTx
  <2> QED BY <1>11, <2>1 DEF Reconcile, JobTypeOK, Job
<1>12. ASSUME NEW w \in Workers, LookupBatchTxCandidates(w) PROVE JobTypeOK'
  <2>1. worker[w] \in Looking
    BY <1>2, <1>12, JobKinds DEF LookupBatchTxCandidates, At
  <2>2. PICK indexed \in SUBSET (((worker[w].history \cup {worker[w].tx}) \ {None})) :
          LET found == LookupResult(worker[w].tx, indexed)
          IN  worker' = [worker EXCEPT ![w] =
                [pc |-> "nullifiers", status |-> worker[w].status, tx |-> found.tx, state |-> found.state]]
    BY <1>12 DEF LookupBatchTxCandidates
  <2> DEFINE found == LookupResult(worker[w].tx, indexed)
  <2>3. found.tx \in MaybeTx /\ found.state \in LookupState
    BY <2>1, <2>2 DEF LookupResult, MaybeTx, LookupState, Looking
  <2>4. [pc |-> "nullifiers", status |-> worker[w].status, tx |-> found.tx, state |-> found.state] \in Found
    BY <2>1, <2>3 DEF Found, Looking
  <2> QED BY <2>2, <2>4 DEF JobTypeOK, Job
<1>13. ASSUME NEW w \in Workers, CheckBatchNullifiers(w) PROVE JobTypeOK'
  <2>1. worker[w] \in Found
    BY <1>2, <1>13, JobKinds DEF CheckBatchNullifiers, At
  <2>2. [pc |-> "apply", status |-> worker[w].status,
         e |-> [tx |-> worker[w].tx, state |-> worker[w].state, spent |-> spent]] \in Applying
    BY <2>1 DEF Found, Applying, BatchTypeOK
  <2> QED BY <1>13, <2>2 DEF CheckBatchNullifiers, JobTypeOK, Job
<1>14. ASSUME NEW w \in Workers, Heartbeat(w) PROVE JobTypeOK'
  BY <1>14 DEF Heartbeat, JobTypeOK
<1> QED BY <1>1, <1>3, <1>4, <1>5, <1>6, <1>7, <1>8, <1>9, <1>10, <1>11, <1>12, <1>13, <1>14
        DEF BatchNext

-----------------------------------------------------------------------------
(* The lease and the status under one call that needs the lease.            *)
StoreInv == StoreTypeOK /\ LeaseWhole /\ StatusAgrees /\ ProofKept

(* A worker that holds the lease works on an operation that is not          *)
(* terminal: reaching a terminal status gives the lease up.                 *)
LEMMA HolderNotTerminal ==
    ASSUME StoreInv, NEW w \in Workers, Holds(w)
    PROVE  ~IsTerminalOperationStatus(op.status)
  BY BatchAssumption DEF StoreInv, LeaseWhole, Holds

(* A store call that checks the lease keeps operation, inputs and lease in  *)
(* step.                                                                    *)
LEMMA LeasedCallInv ==
    ASSUME StoreInv, JobTypeOK, HeldSinceStaged, NEW w \in Workers, LeasedCall(w), UNCHANGED item
    PROVE  LeaseWhole' /\ StatusAgrees' /\ ProofKept'
<1> USE DEF StoreTypeOK, StoreInv, IsTerminalOperationStatus
<1> DEFINE Alive(s) == IsActiveReservationStatus(s)
<1>1. None # w /\ None \notin Workers
  BY BatchAssumption
<1>2. Holds(w) => ~IsTerminalOperationStatus(op.status)
  BY HolderNotTerminal
<1>3. /\ \A n \in Notes : InputsWith(w)[n].status = input[n].status /\ InputsWith(w)[n].token = w
      /\ \A n \in Notes : InputsWith(None)[n].status = input[n].status /\ InputsWith(None)[n].token = None
      /\ \A s, t : \A n \in Notes : Inputs(s, t)[n].status = s /\ Inputs(s, t)[n].token = t
  BY InputsTyped DEF Inputs
<1>4. CASE AcquireBatchOperationLease(w)
  BY SMTT(120), <1>1, <1>3, <1>4 DEF AcquireBatchOperationLease, LeaseWhole, StatusAgrees, ProofKept, InputsAt
<1>5. CASE Release(w)
  BY SMTT(120), <1>1, <1>2, <1>3, <1>5 DEF Release, Unleased, LeaseWhole, StatusAgrees, ProofKept, InputsAt
<1>6. CASE HeartbeatBatchOperationLease(w)
  BY <1>1, <1>2, <1>6 DEF HeartbeatBatchOperationLease, Holds, LeaseWhole, StatusAgrees, ProofKept, InputsAt
<1>7. CASE Claim(w)
  BY SMTT(120), <1>1, <1>3, <1>7 DEF Claim, Holds, LeaseWhole, StatusAgrees, ProofKept, InputsAt
<1>8. CASE RollBack(w)
  BY SMTT(120), <1>1, <1>3, <1>8 DEF RollBack, Unleased, LeaseWhole, StatusAgrees, ProofKept, InputsAt
<1>9. CASE SaveBatchProofArtifacts(w)
  BY SMTT(120), <1>1, <1>3, <1>9 DEF SaveBatchProofArtifacts, Unleased, LeaseWhole, StatusAgrees, ProofKept, InputsAt
<1>10. CASE PrepareBatchOperationResign(w, worker[w].tx)
  BY SMTT(120), <1>1, <1>3, <1>10 DEF PrepareBatchOperationResign, Holds, LeaseWhole, StatusAgrees, ProofKept, InputsAt
<1>11. CASE At(w, "stage") /\ SaveBatchSignedTx(w, worker[w].tx)
  BY <1>1, <1>11 DEF SaveBatchSignedTx, Holds, LeaseWhole, StatusAgrees, ProofKept, InputsAt
<1>12. CASE At(w, "record") /\ RecordBatchBroadcast(w, worker[w].tx, worker[w].unknown)
  <2> DEFINE to == BroadcastStatus(worker[w].unknown)
  <2>1. op.status \in {"ProofReady", "Submitted", "Unknown"}
    BY <1>12 DEF HeldSinceStaged, Broadcastable, At, RecordBatchBroadcast, Holds
  <2>2. to \in {"Submitted", "Unknown"} /\ (op.status = "Unknown" => to = "Unknown")
    BY DEF BroadcastStatus
  <2>3. /\ op' = Unleased([op EXCEPT !.status = to, !.history = @ \cup {worker[w].tx}])
        /\ op.status # to => input' = Inputs(to, None)
        /\ op.status = to => input' = InputsWith(None)
    BY <1>12, <2>1, <2>2 DEF RecordBatchBroadcast
  <2> HIDE DEF to
  <2>4. op'.status = to /\ op'.token = None /\ op'.live = FALSE
    BY <2>3 DEF Unleased
  <2>5. \A n \in Notes : input'[n].status = to /\ input'[n].token = None
    BY SMTT(120), <1>3, <2>1, <2>3 DEF StatusAgrees, InputsAt
  <2> QED BY <2>2, <2>4, <2>5 DEF LeaseWhole, StatusAgrees, ProofKept, InputsAt
<1> QED BY <1>4, <1>5, <1>6, <1>7, <1>8, <1>9, <1>10, <1>11, <1>12 DEF LeasedCall

(* ReconcileBatchOperation drops the lease, and resolves the reservations   *)
(* together with the operation.                                             *)
LEMMA ApplyEvidenceInv ==
    ASSUME StoreInv, JobTypeOK, NEW w \in Workers, ApplyEvidence(w)
    PROVE  LeaseWhole' /\ StatusAgrees' /\ ProofKept'
<1> DEFINE e == worker[w].e
<1>1. PICK observed \in [Outputs -> {"none", "match", "mismatch"}] : ReconcileBatchOperation(e, observed)
  BY DEF ApplyEvidence
<1>e. e.spent \subseteq Notes
  BY SMTT(120), JobKinds DEF ApplyEvidence, At, JobTypeOK, Applying
<1> HIDE DEF e
<1>2. /\ op'.status = ReconciledStatus(e) /\ op'.token = None /\ op'.live = FALSE
      /\ op'.proof = op.proof
  BY <1>1 DEF ReconcileBatchOperation, Unleased, StoreInv, StoreTypeOK
<1>3. \A n \in Notes : input'[n].status = ReconciledInput(n, e) /\ input'[n].token = None
  BY <1>1 DEF ReconcileBatchOperation
<1>4. LeaseWhole' /\ ProofKept'
  <2>1. op'.status \notin {"Planned", "Proving"}
    BY <1>2, ReconciledTyped DEF StoreInv
  <2> QED BY <1>2, <1>3, <2>1 DEF LeaseWhole, ProofKept
<1>5. StatusAgrees'
  <2>1. op'.status \notin {"Planned", "Proving", "ProofReady", "Submitted", "Unknown"}
    BY <1>2, ReconciledTyped DEF StoreInv
  <2>2. ASSUME op'.status = "Succeeded", NEW n \in Notes PROVE input'[n].status = "ConfirmedSpent"
    <3>1. EvidenceTarget(e) = "Succeeded"
      BY <1>2, <2>2, ReconciledTyped DEF ReconciledStatus, StoreInv
    <3>2. e.spent = Notes
      BY <3>1 DEF EvidenceTarget
    <3> QED BY <1>3, <3>2 DEF ReconciledInput
  <2>3. ASSUME op'.status = "Failed", NEW n \in Notes
        PROVE  ~IsActiveReservationStatus(input'[n].status)
    <3>1. EvidenceTarget(e) = "Failed" /\ ~TerminalConflict(e)
      BY <1>2, <2>3, ReconciledTyped DEF ReconciledStatus, StoreInv
    <3>2. e.state = "failed" /\ e.spent = {}
      BY <3>1 DEF EvidenceTarget
    <3> QED BY <1>3, <3>1, <3>2 DEF ReconciledInput, IsActiveReservationStatus
  <2>4. ASSUME op'.status = "ConflictSpent", NEW n \in Notes
        PROVE  ~IsActiveReservationStatus(input'[n].status)
    <3>1. TerminalConflict(e)
      BY <1>2, <2>4, ReconciledTyped DEF ReconciledStatus, StoreInv, TerminalConflict, IsTerminalOperationStatus,
                                         EvidenceTarget
    <3>2. ~IsActiveReservationStatus(input[n].status)
      BY <3>1 DEF TerminalConflict, StoreInv, StatusAgrees
    <3> QED BY <1>3, <3>1, <3>2 DEF ReconciledInput, IsActiveReservationStatus
  <2> QED BY <2>1, <2>2, <2>3, <2>4
          DEF StatusAgrees, InputsAt, IsTerminalOperationStatus, IsActiveReservationStatus
<1> QED BY <1>4, <1>5

(* Every call of the store keeps its records in step, whichever worker      *)
(* makes it and in whatever order.                                          *)
LEMMA StoreStepInv ==
    ASSUME StoreInv, JobTypeOK, HeldSinceStaged, StoreStep
    PROVE  StoreInv'
<1>1. StoreTypeOK'
  BY StoreStepTyped DEF StoreInv
<1>2. CASE UNCHANGED storeVars
  BY <1>1, <1>2 DEF storeVars, StoreInv, LeaseWhole, StatusAgrees, ProofKept, InputsAt
<1>3. CASE op' = [op EXCEPT !.live = FALSE] /\ UNCHANGED <<input, item>>
  BY <1>1, <1>3 DEF StoreInv, StoreTypeOK, LeaseWhole, StatusAgrees, ProofKept, InputsAt
<1> QED BY <1>1, <1>2, <1>3, LeasedCallInv, ApplyEvidenceInv DEF StoreStep, StoreInv

-----------------------------------------------------------------------------
(* Only the holder moves an operation whose transaction it has staged: a    *)
(* call of another worker needs that worker's lease, and the reconciler     *)
(* drops the lease (requireBatchLeaseLocked).                               *)
LEMMA HeldStep ==
    ASSUME StoreInv, JobTypeOK, JobTypeOK', HeldSinceStaged, BatchNext
    PROVE  HeldSinceStaged'
<1> DEFINE S == {"recheck", "confirm", "send", "record"}
<1> SUFFICES ASSUME NEW v \in Workers, worker'[v].pc \in S, op'.token = v
             PROVE  op'.status \in Broadcastable
  BY DEF HeldSinceStaged
<1>1. None # v /\ (worker[v].pc \in S /\ op.token = v => op.status \in Broadcastable)
  BY BatchAssumption DEF HeldSinceStaged
<1> USE DEF StoreInv, StoreTypeOK
<1>2. CASE Expire \/ OtherTx \/ (\E t \in Txs : Include(t) \/ RejectOrDrop(t))
             \/ (\E n \in Notes : ForeignSpend(n))
  BY <1>1, <1>2 DEF storeVars, Expire, OtherTx, Include, RejectOrDrop, ForeignSpend
<1>3. ASSUME NEW w \in Workers, NEW pc, Goto(w, pc)
      PROVE  worker'[w].pc = pc /\ (v # w => worker'[v] = worker[v])
  <2>1. worker[w] \in Job /\ worker' = [worker EXCEPT ![w] = [worker[w] EXCEPT !.pc = pc]]
    BY <1>3 DEF JobTypeOK, Goto
  <2>2. [worker[w] EXCEPT !.pc = pc].pc = pc
    BY <2>1 DEF Job, Bare, Reading, Submitting, Staging, Recording, Looking, Found, Applying
  <2> QED BY <2>1, <2>2 DEF JobTypeOK
<1>4. ASSUME NEW w \in Workers, Return(w)
      PROVE  worker'[w].pc = "idle" /\ (v # w => worker'[v] = worker[v])
  BY <1>4 DEF Return, JobTypeOK, Idle
<1>5. ASSUME NEW w \in Workers, Process(w) \/ AdmitBroadcast(w) \/ CompareFresh(w)
      PROVE  op'.status \in Broadcastable
  <2>1. PICK pc \in {"acquire", "recover", "lease", "resign", "sign"} : Goto(w, pc) /\ op' = op
    BY <1>5 DEF Process, AdmitBroadcast, CompareFresh, storeVars
  <2> QED BY SMTT(120), <1>1, <1>3, <2>1
<1>6. ASSUME NEW w \in Workers, AcquireToProve(w) \/ AcquireToBroadcast(w)
      PROVE  op'.status \in Broadcastable
  <2>1. PICK pc \in {"claim", "reset", "compare"} : Goto(w, pc) /\ op'.token = w
    BY <1>6 DEF AcquireToProve, AcquireToBroadcast, AcquireBatchOperationLease
  <2> QED BY <1>3, <2>1
<1>7. ASSUME NEW w \in Workers, ClaimProving(w) \/ AuthorizeResign(w)
      PROVE  op'.status \in Broadcastable
  <2>1. PICK pc \in {"prove", "sign"} : Goto(w, pc) /\ op'.token = w
    BY <1>7 DEF ClaimProving, AuthorizeResign, Claim, PrepareBatchOperationResign, Holds
  <2> QED BY <1>3, <2>1
<1>8. ASSUME NEW w \in Workers,
             ResetProving(w) \/ ProveBatchPayroll(w) \/ RecordOutcome(w) \/ ApplyEvidence(w)
      PROVE  op'.status \in Broadcastable
  <2>1. op'.token = None
    BY <1>8 DEF ResetProving, ProveBatchPayroll, RecordOutcome, ApplyEvidence, RollBack, Unleased,
                SaveBatchProofArtifacts, RecordBatchBroadcast, ReconcileBatchOperation
  <2> QED BY <1>1, <2>1
<1>9. ASSUME NEW w \in Workers, StageSignedTx(w) PROVE op'.status \in Broadcastable
  BY <1>9 DEF StageSignedTx, SaveBatchSignedTx, Broadcastable
<1>10. ASSUME NEW w \in Workers, RecheckNullifiers(w) \/ ConfirmLease(w)
       PROVE  op'.status \in Broadcastable
  <2>1. PICK pc : Goto(w, pc) /\ worker[w].pc \in S /\ op'.status = op.status /\ op'.token = op.token
    BY <1>10 DEF RecheckNullifiers, ConfirmLease, HeartbeatBatchOperationLease, storeVars, At
  <2> QED BY <1>1, <1>3, <2>1
<1>11. ASSUME NEW w \in Workers, BroadcastSignedBatchTx(w) PROVE op'.status \in Broadcastable
  <2>1. worker[w].pc \in S /\ op' = op /\ (v # w => worker'[v] = worker[v])
    BY <1>11 DEF BroadcastSignedBatchTx, At, storeVars, JobTypeOK
  <2> QED BY <1>1, <2>1
<1>12. ASSUME NEW w \in Workers,
              \/ \E resign \in BOOLEAN : Submit(w, resign)
              \/ LookupPriorTx(w) \/ BuildSignedBatchTx(w) \/ Reconcile(w)
              \/ LookupBatchTxCandidates(w) \/ CheckBatchNullifiers(w)
       PROVE  op'.status \in Broadcastable
  <2>1. worker'[w].pc \in {"lookup", "admit", "stage", "candidates", "nullifiers", "apply"}
    BY SMTT(120), <1>12 DEF Submit, LookupPriorTx, BuildSignedBatchTx, SignedWith, Reconcile,
                 LookupBatchTxCandidates, CheckBatchNullifiers, JobTypeOK
  <2>2. op' = op /\ (v # w => worker'[v] = worker[v])
    BY <1>12 DEF Submit, LookupPriorTx, BuildSignedBatchTx, Reconcile,
                 LookupBatchTxCandidates, CheckBatchNullifiers, JobTypeOK, storeVars
  <2> QED BY <1>1, <2>1, <2>2
<1>13. ASSUME NEW w \in Workers, Heartbeat(w) PROVE op'.status \in Broadcastable
  BY <1>1, <1>13 DEF Heartbeat, HeartbeatBatchOperationLease
<1>14. ASSUME NEW w \in Workers, Abandon(w) \/ Crash(w) PROVE op'.status \in Broadcastable
  <2>1. Return(w) /\ (op' = op \/ op'.token = None)
    BY <1>14 DEF Abandon, GiveUp, Crash, Unleased, storeVars
  <2> QED BY <1>1, <1>4, <2>1
<1> QED BY <1>2, <1>5, <1>6, <1>7, <1>8, <1>9, <1>10, <1>11, <1>12, <1>13, <1>14 DEF BatchNext

-----------------------------------------------------------------------------
(* The evidence a reconciler carries stays true until it is applied, since  *)
(* the chain takes nothing back (the lookups of batch_reconcile_worker.go). *)
LEMMA EvidenceStep ==
    ASSUME BatchTypeOK, JobTypeOK, EvidenceStands, BatchNext
    PROVE  EvidenceStands'
<1> SUFFICES ASSUME NEW v \in Workers
             PROVE  /\ worker'[v].pc = "nullifiers" => FromChain(chain', worker'[v].tx, worker'[v].state)
                    /\ worker'[v].pc = "apply" =>
                         /\ FromChain(chain', worker'[v].e.tx, worker'[v].e.state)
                         /\ worker'[v].e.spent \subseteq spent'
  BY DEF EvidenceStands
<1>1. /\ ChainKept
      /\ \A tx, state : FromChain(chain, tx, state) => FromChain(chain', tx, state)
  BY ChainSteps DEF FromChain, ChainKept, Included
<1>2. CASE worker'[v] = worker[v]
  BY <1>1, <1>2 DEF ChainKept, EvidenceStands
<1>3. CASE worker'[v].pc \notin {"nullifiers", "apply"}
  BY <1>3
<1>4. CASE LookupBatchTxCandidates(v)
  <2>1. worker[v] \in Looking
    BY <1>4, JobKinds DEF LookupBatchTxCandidates, At, JobTypeOK
  <2>2. PICK indexed \in SUBSET {t \in (worker[v].history \cup {worker[v].tx}) \ {None} :
                                   chain[t] \in Included} :
          worker' = [worker EXCEPT ![v] =
             [pc |-> "nullifiers", status |-> worker[v].status,
              tx |-> LookupResult(worker[v].tx, indexed).tx,
              state |-> LookupResult(worker[v].tx, indexed).state]]
    BY <1>4 DEF LookupBatchTxCandidates
  <2> DEFINE found == LookupResult(worker[v].tx, indexed)
  <2>3. indexed \subseteq Txs /\ \A t \in indexed : chain[t] \in Included
    BY <2>1, <2>2 DEF Looking, MaybeTx
  <2>4. FromChain(chain, found.tx, found.state)
    BY <2>3 DEF FromChain, LookupResult, Included
  <2>5. worker'[v].pc = "nullifiers" /\ worker'[v].tx = found.tx /\ worker'[v].state = found.state
    BY <2>2 DEF JobTypeOK
  <2> QED BY <1>1, <2>4, <2>5
<1>5. CASE CheckBatchNullifiers(v)
  <2>1. /\ worker'[v].pc = "apply" /\ worker'[v].e.tx = worker[v].tx
        /\ worker'[v].e.state = worker[v].state /\ worker'[v].e.spent = spent
    BY <1>5 DEF CheckBatchNullifiers, JobTypeOK
  <2>2. FromChain(chain, worker[v].tx, worker[v].state)
    BY <1>5 DEF CheckBatchNullifiers, At, EvidenceStands
  <2> QED BY <1>1, <2>1, <2>2 DEF ChainKept
<1>6. \/ worker'[v] = worker[v] \/ worker'[v].pc \notin {"nullifiers", "apply"}
      \/ LookupBatchTxCandidates(v) \/ CheckBatchNullifiers(v)
  <2>1. CASE Expire \/ OtherTx \/ (\E t \in Txs : Include(t) \/ RejectOrDrop(t))
               \/ (\E n \in Notes : ForeignSpend(n))
    BY <2>1 DEF Expire, OtherTx, Include, RejectOrDrop, ForeignSpend
  <2>2. ASSUME NEW w \in Workers, NEW pc, Goto(w, pc), pc \notin {"nullifiers", "apply"}
        PROVE  worker'[v] = worker[v] \/ worker'[v].pc \notin {"nullifiers", "apply"}
    <3>1. worker[w] \in Job /\ worker' = [worker EXCEPT ![w] = [worker[w] EXCEPT !.pc = pc]]
      BY <2>2 DEF JobTypeOK, Goto
    <3>2. [worker[w] EXCEPT !.pc = pc].pc = pc
      BY <3>1 DEF Job, Bare, Reading, Submitting, Staging, Recording, Looking, Found, Applying
    <3> QED BY <2>2, <3>1, <3>2 DEF JobTypeOK
  <2>3. ASSUME NEW w \in Workers,
               \/ Process(w) \/ AcquireToProve(w) \/ ClaimProving(w) \/ AdmitBroadcast(w)
               \/ AcquireToBroadcast(w) \/ CompareFresh(w) \/ AuthorizeResign(w)
               \/ StageSignedTx(w) \/ RecheckNullifiers(w) \/ ConfirmLease(w)
        PROVE  worker'[v] = worker[v] \/ worker'[v].pc \notin {"nullifiers", "apply"}
    <3>1. \E pc : Goto(w, pc) /\ pc \notin {"nullifiers", "apply"}
      BY <2>3 DEF Process, AcquireToProve, ClaimProving, AdmitBroadcast, AcquireToBroadcast,
                  CompareFresh, AuthorizeResign, StageSignedTx, RecheckNullifiers, ConfirmLease
    <3> QED BY <2>2, <3>1
  <2>4. ASSUME NEW w \in Workers,
               \/ ResetProving(w) \/ ProveBatchPayroll(w) \/ RecordOutcome(w)
               \/ ApplyEvidence(w) \/ Abandon(w) \/ Crash(w)
        PROVE  worker'[v] = worker[v] \/ worker'[v].pc \notin {"nullifiers", "apply"}
    <3>1. Return(w)
      BY ZenonT(120), <2>4 DEF ResetProving, ProveBatchPayroll, RecordOutcome, ApplyEvidence, Abandon, GiveUp, Crash
    <3> QED BY <3>1 DEF Return, Idle, JobTypeOK
  <2>5. ASSUME NEW w \in Workers,
               \/ \E resign \in BOOLEAN : Submit(w, resign)
               \/ LookupPriorTx(w) \/ BuildSignedBatchTx(w) \/ BroadcastSignedBatchTx(w)
               \/ Reconcile(w) \/ Heartbeat(w)
        PROVE  worker'[v] = worker[v] \/ worker'[v].pc \notin {"nullifiers", "apply"}
    BY SMTT(120), <2>5 DEF Submit, LookupPriorTx, BuildSignedBatchTx, SignedWith, BroadcastSignedBatchTx,
                Reconcile, Heartbeat, JobTypeOK
  <2>6. ASSUME NEW w \in Workers, LookupBatchTxCandidates(w) \/ CheckBatchNullifiers(w), v # w
        PROVE  worker'[v] = worker[v]
    BY <2>6 DEF LookupBatchTxCandidates, CheckBatchNullifiers, JobTypeOK
  <2> QED BY <2>1, <2>3, <2>4, <2>5, <2>6 DEF BatchNext
<1> QED BY <1>2, <1>3, <1>4, <1>5, <1>6

(* Only ApplyEvidence resolves, and it does so by what the chain holds      *)
(* (ReconcileBatchOperation).                                               *)
LEMMA ResolvedStep ==
    ASSUME BatchTypeOK, JobTypeOK, StoreInv, ResolvedByTheChain, HeldSinceStaged, EvidenceStands,
           BatchNext
    PROVE  ResolvedByTheChain'
<1>1. StoreStep /\ ChainKept /\ StoreTypeOK' /\ StoreTypeOK
  BY StoreSteps, ChainSteps, StoreStepTyped DEF StoreInv
<1>2. (\E t \in Txs : chain[t] = "succeeded") => \E t \in Txs : chain'[t] = "succeeded"
  BY <1>1 DEF ChainKept, Included
<1>3. (\E t \in Txs : chain[t] = "failed") => \E t \in Txs : chain'[t] = "failed"
  BY <1>1 DEF ChainKept, Included
<1>4. ASSUME op'.status \in {"Succeeded", "Failed"} => op'.tx = op.tx /\ op'.status = op.status,
             item' = item,
             \A n \in Notes : input'[n].status \in {"ConfirmedSpent", "ReplanRequired"} =>
                                input'[n].status = input[n].status
      PROVE  ResolvedByTheChain'
  <2>1. op'.status \in {"Succeeded", "Failed"} => op.tx \in Txs
    BY <1>1, <1>4 DEF ResolvedByTheChain, StoreTypeOK
  <2> QED BY <1>1, <1>2, <1>3, <1>4, <2>1 DEF ResolvedByTheChain, ChainKept, Included
<1>5. CASE UNCHANGED storeVars \/ (op' = [op EXCEPT !.live = FALSE] /\ UNCHANGED <<input, item>>)
  <2>1. op'.tx = op.tx /\ op'.status = op.status /\ input' = input /\ item' = item
    BY <1>1, <1>5 DEF storeVars, StoreTypeOK
  <2> QED BY <1>4, <2>1
<1>6. ASSUME NEW w \in Workers, LeasedCall(w), UNCHANGED item PROVE ResolvedByTheChain'
  <2>1. ~IsTerminalOperationStatus(op.status)
    BY <1>6, HolderNotTerminal
       DEF LeasedCall, AcquireBatchOperationLease, Release, HeartbeatBatchOperationLease, Claim,
           RollBack, SaveBatchProofArtifacts, PrepareBatchOperationResign, SaveBatchSignedTx,
           RecordBatchBroadcast
  <2>2. op'.status \notin {"Succeeded", "Failed"}
    BY <1>1, <1>6, <2>1, ZenonT(120)
       DEF LeasedCall, AcquireBatchOperationLease, Release, HeartbeatBatchOperationLease, Claim,
           RollBack, SaveBatchProofArtifacts, PrepareBatchOperationResign, SaveBatchSignedTx,
           RecordBatchBroadcast, BroadcastStatus, Unleased, IsTerminalOperationStatus, StoreTypeOK
  <2>3. ASSUME NEW n \in Notes
        PROVE  input'[n].status \in {"ConfirmedSpent", "ReplanRequired"} =>
                 input'[n].status = input[n].status
    <3>1. \A t \in Workers \cup {None} : InputsWith(t)[n].status = input[n].status
      BY <1>1, InputsTyped
    <3>2. \A s, t : Inputs(s, t)[n].status = s
      BY DEF Inputs
    <3>3. \/ input' = input \/ input' = InputsWith(w) \/ input' = InputsWith(None)
          \/ \E s \in {"Reserved", "Proving", "ProofReady", "Submitted", "Unknown"} :
               \E t : input' = Inputs(s, t)
      BY <1>6 DEF LeasedCall, AcquireBatchOperationLease, Release, HeartbeatBatchOperationLease, Claim,
           RollBack, SaveBatchProofArtifacts, PrepareBatchOperationResign, SaveBatchSignedTx,
           RecordBatchBroadcast, BroadcastStatus
    <3> QED BY SMTT(120), <3>1, <3>2, <3>3
  <2> QED BY <1>4, <1>6, <2>2, <2>3
<1>7. ASSUME NEW w \in Workers, ApplyEvidence(w) PROVE ResolvedByTheChain'
  <2> DEFINE e == worker[w].e
  <2>1. PICK observed \in [Outputs -> {"none", "match", "mismatch"}] :
          /\ (\E t \in Txs : chain[t] = "succeeded") \/ \A o \in Outputs : observed[o] = "none"
          /\ ReconcileBatchOperation(e, observed)
    BY <1>7 DEF ApplyEvidence
  <2>2. FromChain(chain, e.tx, e.state) /\ e.spent \subseteq spent
    BY <1>7 DEF ApplyEvidence, At, EvidenceStands
  <2>3. chain' = chain /\ spent' = spent
    BY <1>7 DEF ApplyEvidence, chainVars
  <2> HIDE DEF e
  <2>4. /\ op'.status = ReconciledStatus(e)
        /\ op'.tx = IF e.tx = None THEN op.tx ELSE e.tx
    BY <1>1, <2>1 DEF ReconcileBatchOperation, Unleased, StoreTypeOK
  <2>5. \A n \in Notes : input'[n].status = ReconciledInput(n, e)
    BY <2>1 DEF ReconcileBatchOperation
  <2>6. \A o \in Outputs : item'[o] = ReconciledItem(o, e, observed[o])
    BY <2>1 DEF ReconcileBatchOperation
  <2>7. ASSUME op'.status \in {"Succeeded", "Failed"}
        PROVE  /\ op'.tx # None
               /\ op'.status = "Succeeded" => chain'[op'.tx] = "succeeded"
               /\ op'.status = "Failed" => chain'[op'.tx] = "failed"
    <3>1. EvidenceTarget(e) = op'.status
      BY <1>1, <2>4, <2>7, ReconciledTyped DEF ReconciledStatus
    <3>2. (op'.status = "Succeeded" => e.state = "succeeded") /\ (op'.status = "Failed" => e.state = "failed")
      BY <2>7, <3>1 DEF EvidenceTarget
    <3> QED BY <2>2, <2>3, <2>4, <2>7, <3>2, BatchAssumption DEF FromChain
  <2>8. ASSUME NEW o \in Outputs, item'[o] = "Succeeded"
        PROVE  \E t \in Txs : chain'[t] = "succeeded"
    <3>1. observed[o] = "match" \/ item[o] = "Succeeded"
      BY <2>6, <2>8 DEF ReconciledItem
    <3>2. CASE observed[o] = "match"
      BY <2>1, <2>3, <3>2
    <3>3. CASE item[o] = "Succeeded"
      BY <2>3, <3>3 DEF ResolvedByTheChain
    <3> QED BY <3>1, <3>2, <3>3
  <2>9. ASSUME NEW n \in Notes
        PROVE  /\ input'[n].status = "ConfirmedSpent" => n \in spent'
               /\ input'[n].status = "ReplanRequired" => \E t \in Txs : chain'[t] = "failed"
    <3>1. CASE n \in e.spent
      BY <2>2, <2>3, <2>5, <3>1 DEF ReconciledInput
    <3>2. CASE n \notin e.spent /\ e.state = "failed"
      BY <2>2, <2>3, <2>5, <3>2 DEF ReconciledInput, FromChain, ResolvedByTheChain
    <3>3. CASE n \notin e.spent /\ e.state # "failed"
      BY <2>3, <2>5, <3>3 DEF ReconciledInput, ResolvedByTheChain
    <3> QED BY <3>1, <3>2, <3>3
  <2> QED BY <2>7, <2>8, <2>9 DEF ResolvedByTheChain
<1> QED BY <1>1, <1>5, <1>6, <1>7 DEF StoreStep

-----------------------------------------------------------------------------
(* BatchInv is inductive: it holds of a created operation and every step of *)
(* the workers, the chain and the clock keeps it.                           *)
THEOREM BatchSafety == BatchSpec => []BatchInv
<1>1. BatchInit => BatchInv
  <2> SUFFICES ASSUME BatchInit PROVE BatchInv
    OBVIOUS
  <2> USE DEF BatchInit
  <2>1. BatchTypeOK
    BY DEF BatchTypeOK, OperationStatus, InputStatus, EvidenceStatus, TxState, Included
  <2>2. JobTypeOK /\ HeldSinceStaged /\ EvidenceStands
    BY DEF JobTypeOK, Job, Bare, Idle, HeldSinceStaged, EvidenceStands
  <2>3. LeaseWhole /\ StatusAgrees /\ ResolvedByTheChain /\ ProofKept
    BY DEF LeaseWhole, StatusAgrees, ResolvedByTheChain, ProofKept, InputsAt, IsTerminalOperationStatus
  <2> QED BY <2>1, <2>2, <2>3 DEF BatchInv
<1>2. BatchInv /\ [BatchNext]_batchVars => BatchInv'
  <2> SUFFICES ASSUME BatchInv, [BatchNext]_batchVars PROVE BatchInv'
    OBVIOUS
  <2>1. CASE BatchNext
    <3>1. StoreInv /\ BatchTypeOK /\ JobTypeOK
      BY DEF BatchInv, StoreInv, BatchTypeOK, StoreTypeOK
    <3>2. StoreInv' /\ ChainKept /\ JobTypeOK'
      BY <2>1, <3>1, StoreSteps, StoreStepInv, ChainSteps, JobStepTyped DEF BatchInv
    <3>3. BatchTypeOK'
      BY <3>2 DEF StoreInv, StoreTypeOK, ChainKept, BatchTypeOK
    <3>4. HeldSinceStaged' /\ EvidenceStands' /\ ResolvedByTheChain'
      BY <2>1, <3>1, <3>2, HeldStep, EvidenceStep, ResolvedStep DEF BatchInv
    <3> QED BY <3>2, <3>3, <3>4 DEF BatchInv, StoreInv
  <2>2. CASE UNCHANGED batchVars
    BY SMTT(120), <2>2 DEF batchVars, storeVars, chainVars, BatchInv, BatchTypeOK, JobTypeOK, LeaseWhole,
                StatusAgrees, InputsAt, ResolvedByTheChain, ProofKept, HeldSinceStaged, EvidenceStands
  <2> QED BY <2>1, <2>2
<1> QED BY <1>1, <1>2, PTL DEF BatchSpec

(* However the workers interleave, crash and take over from one another,    *)
(* the operation and the reservations of its inputs agree in their states,  *)
(* and the lease is on all of them or on none, never on a resolved          *)
(* operation (AcquireBatchOperationLease).                                  *)
THEOREM BatchWholeSafe == BatchSpec => []OperationWhole
<1>1. BatchInv => OperationWhole
  BY DEF BatchInv, OperationWhole
<1> QED BY <1>1, BatchSafety, PTL

(* Stale evidence included, ReconcileBatchOperation resolves an operation,  *)
(* an item and a note only as the chain did.                                *)
THEOREM BatchResolutionSafe == BatchSpec => []ResolvedByTheChain
<1>1. BatchInv => ResolvedByTheChain
  BY DEF BatchInv
<1> QED BY <1>1, BatchSafety, PTL

(* No call takes back a confirmed spend, drops a stored proof or sends a    *)
(* proved operation back to proving.                                        *)
THEOREM BatchEvidenceFinal == BatchSpec => EvidenceIsFinal
<1> DEFINE Final ==
      /\ \A n \in Notes : input[n].status = "ConfirmedSpent" => input'[n].status = "ConfirmedSpent"
      /\ op.proof => op'.proof /\ op'.status \notin {"Planned", "Proving"}
<1>1. BatchInv /\ [BatchNext]_batchVars => [Final]_batchVars
  <2> SUFFICES ASSUME BatchInv, BatchNext PROVE Final
    OBVIOUS
  <2>1. StoreInv /\ JobTypeOK /\ HeldSinceStaged /\ StoreTypeOK
    BY DEF BatchInv, StoreInv, BatchTypeOK, StoreTypeOK
  <2>2. StoreStep /\ StoreInv'
    BY <2>1, StoreSteps, StoreStepInv
  <2>3. CASE UNCHANGED storeVars \/ (op' = [op EXCEPT !.live = FALSE] /\ UNCHANGED <<input, item>>)
    <3>1. op'.proof = op.proof /\ op'.status = op.status /\ input' = input
      BY <2>1, <2>3 DEF storeVars, StoreTypeOK
    <3> QED BY <3>1, <2>1 DEF StoreInv, ProofKept
  <2>4. ASSUME NEW w \in Workers, LeasedCall(w), UNCHANGED item PROVE Final
    <3>1. op.proof => op'.proof
      BY <2>1, <2>4 DEF LeasedCall, AcquireBatchOperationLease, Release, HeartbeatBatchOperationLease,
           Claim, RollBack, SaveBatchProofArtifacts, PrepareBatchOperationResign, SaveBatchSignedTx,
           RecordBatchBroadcast, Unleased, StoreTypeOK
    <3>2. ASSUME NEW n \in Notes, input[n].status = "ConfirmedSpent"
          PROVE  input'[n].status = "ConfirmedSpent"
      <4>1. \A t \in Workers \cup {None} : InputsWith(t)[n].status = input[n].status
        BY <2>1, InputsTyped
      <4>2. \A s : s # "ConfirmedSpent" => ~InputsAt(s)
        BY <3>2 DEF InputsAt
      <4>3. input' = input \/ \E t \in Workers \cup {None} : input' = InputsWith(t)
        BY <2>4, <4>2 DEF LeasedCall, AcquireBatchOperationLease, Release,
             HeartbeatBatchOperationLease, Claim, RollBack, SaveBatchProofArtifacts,
             PrepareBatchOperationResign, SaveBatchSignedTx, RecordBatchBroadcast
      <4> QED BY <3>2, <4>1, <4>3
    <3> QED BY <2>2, <3>1, <3>2 DEF StoreInv, ProofKept
  <2>5. ASSUME NEW w \in Workers, ApplyEvidence(w) PROVE Final
    <3> DEFINE e == worker[w].e
    <3>1. PICK observed : ReconcileBatchOperation(e, observed)
      BY <2>5 DEF ApplyEvidence
    <3> HIDE DEF e
    <3>2. op'.proof = op.proof /\ \A n \in Notes : input'[n].status = ReconciledInput(n, e)
      BY <2>1, <3>1 DEF ReconcileBatchOperation, Unleased, StoreTypeOK
    <3>3. \A n \in Notes : input[n].status = "ConfirmedSpent" => ReconciledInput(n, e) = "ConfirmedSpent"
      BY DEF ReconciledInput, IsActiveReservationStatus
    <3> QED BY <2>2, <3>2, <3>3 DEF StoreInv, ProofKept
  <2> QED BY <2>2, <2>3, <2>4, <2>5 DEF StoreStep
<1> QED BY <1>1, BatchSafety, PTL DEF BatchSpec, EvidenceIsFinal

=============================================================================
