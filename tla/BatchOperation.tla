--------------------------- MODULE BatchOperation ---------------------------
(***************************************************************************)
(* One batch operation of the payroll control plane: the batch methods of  *)
(* the reservation store (sdk/reservation/batch_memory_store.go) and the   *)
(* three workers that call them, BatchProofWorker, the idempotent          *)
(* broadcaster and BatchReconcileWorker (sdk/payroll/batch_*.go), against  *)
(* a chain.  Every store call is one step; a worker may stop between any   *)
(* two of them, and another one takes over when the lease has expired.     *)
(*                                                                         *)
(* Time is abstracted to whether the lease is live.  A worker reads its    *)
(* clock before the store locks, so a call may still find an expired lease *)
(* live, as long as nobody has replaced it.  A lease token is random, thus *)
(* the worker that drew it.  All candidate transactions carry the one      *)
(* prepared proof, so they spend the same notes.                           *)
(***************************************************************************)
EXTENDS Naturals, FiniteSets

CONSTANTS Notes,    \* the input notes of the operation
          Outputs,  \* its output items
          Txs,      \* the transactions the signer may produce
          Workers,
          None

ASSUME BatchAssumption == None \notin Txs \cup Workers /\ Notes # {}

VARIABLES op,      \* the BatchOperation record
          input,   \* note -> status and lease token of its reservation
          item,    \* output -> evidence status
          chain,   \* transaction -> what became of it
          fresh,   \* the transactions signed with the account's sequence
          spent,   \* the notes whose nullifiers the chain has recorded
          worker   \* worker -> its program counter and what it has read

storeVars == <<op, input, item>>
chainVars == <<chain, fresh, spent>>
batchVars == <<storeVars, chainVars, worker>>

OperationStatus == {"Planned", "Proving", "ProofReady", "Submitted", "Unknown",
                    "ManualReview", "Succeeded", "Failed", "ConflictSpent"}

IsTerminalOperationStatus(s) == s \in {"Succeeded", "Failed", "ConflictSpent"}

InputStatus == {"Reserved", "Proving", "ProofReady", "Submitted", "Unknown",
                "ConfirmedSpent", "ReplanRequired"}

IsActiveReservationStatus(s) == s \in InputStatus \ {"ConfirmedSpent", "ReplanRequired"}

EvidenceStatus == {"Pending", "Succeeded", "ManualReview", "Failed"}

Included == {"succeeded", "failed"}

TxState == {"unsigned", "signed", "mempool"} \cup Included

Idle == [pc |-> "idle"]

(* CreateBatchOperation: the validated graph, before any worker. *)
BatchInit ==
    /\ op = [status |-> "Planned", token |-> None, live |-> FALSE, proof |-> FALSE,
             tx |-> None, history |-> {}]
    /\ input = [n \in Notes |-> [status |-> "Reserved", token |-> None]]
    /\ item = [o \in Outputs |-> "Pending"]
    /\ chain = [t \in Txs |-> "unsigned"]
    /\ fresh = {}
    /\ spent = {}
    /\ worker = [w \in Workers |-> Idle]

At(w, pc) == worker[w].pc = pc

Goto(w, pc) == worker' = [worker EXCEPT ![w].pc = pc]

Return(w) == worker' = [worker EXCEPT ![w] = Idle]

-----------------------------------------------------------------------------
(* The store.  requireBatchLeaseLocked: *)
Holds(w) == op.token = w /\ \A n \in Notes : input[n].token = w

Refused(w) == ~Holds(w) \/ ~op.live

Unleased(o) == [o EXCEPT !.token = None, !.live = FALSE]

InputsAt(s) == \A n \in Notes : input[n].status = s

Inputs(s, token) == [n \in Notes |-> [status |-> s, token |-> token]]

InputsWith(token) == [n \in Notes |-> [input[n] EXCEPT !.token = token]]

AcquireBatchOperationLease(w) ==
    /\ ~op.live
    /\ ~IsTerminalOperationStatus(op.status)
    /\ \A n \in Notes : IsActiveReservationStatus(input[n].status)
    /\ op' = [op EXCEPT !.token = w, !.live = TRUE]
    /\ input' = InputsWith(w)

(* HeartbeatBatchOperationLease: the end of the lease never moves back. *)
HeartbeatBatchOperationLease(w) ==
    /\ Holds(w)
    /\ op' = [op EXCEPT !.live = TRUE]
    /\ UNCHANGED <<input, item>>

(* The deferred ReleaseBatchOperationLease of a call that ends early. *)
GiveUp(w) ==
    /\ \/ Holds(w) /\ op' = Unleased(op) /\ input' = InputsWith(None)
       \/ Refused(w) /\ UNCHANGED <<op, input>>
    /\ Return(w)
    /\ UNCHANGED <<item, chainVars>>

(* CompareAndSetBatchOperationStatus knows two transitions: the claim, and  *)
(* the rollback, which gives up the lease.                                  *)
Claim(w) ==
    /\ Holds(w) /\ op.status = "Planned" /\ InputsAt("Reserved")
    /\ op' = [op EXCEPT !.status = "Proving"]
    /\ input' = Inputs("Proving", w)

RollBackOfOperation(w) ==
    /\ Holds(w) /\ op.status = "Proving" /\ InputsAt("Proving")
    /\ op' = Unleased([op EXCEPT !.status = "Planned"])
    /\ input' = Inputs("Reserved", w)

RollBack(w) ==
    /\ Holds(w) /\ op.status = "Proving" /\ InputsAt("Proving")
    /\ op' = Unleased([op EXCEPT !.status = "Planned"])
    /\ input' = Inputs("Reserved", None)

SaveBatchProofArtifacts(w) ==
    /\ Holds(w) /\ op.status = "Proving" /\ InputsAt("Proving")
    /\ op' = Unleased([op EXCEPT !.status = "ProofReady", !.proof = TRUE])
    /\ input' = Inputs("ProofReady", None)

(* PrepareBatchOperationResign: transaction tx failed on the chain. *)
PrepareBatchOperationResign(w, tx) ==
    /\ Holds(w) /\ op.tx = tx
    /\ op.status \in {"Submitted", "Unknown"}
    /\ op.status = "Submitted" => InputsAt("Submitted")
    /\ op' = [op EXCEPT !.status = "Unknown"]
    /\ input' = IF op.status = "Submitted" THEN Inputs("Unknown", w) ELSE input

(* SaveBatchSignedTx: other bytes than the staged ones only when Unknown.   *)
MayStage(tx) == op.tx \in {None, tx} \/ op.status = "Unknown"

SaveBatchSignedTx(w, tx) ==
    /\ Holds(w) /\ op.status \in {"ProofReady", "Submitted", "Unknown"}
    /\ MayStage(tx)
    /\ op' = [op EXCEPT !.tx = tx]
    /\ UNCHANGED input

(* RecordBatchBroadcast never returns from Unknown to Submitted. *)
BroadcastStatus(unknown) ==
    IF unknown \/ op.status = "Unknown" THEN "Unknown" ELSE "Submitted"

RecordBatchBroadcast(w, tx, unknown) ==
    LET to == BroadcastStatus(unknown)
        moves == op.status \in {"ProofReady", "Submitted"} /\ op.status # to
    IN  /\ Holds(w) /\ op.tx = tx
        /\ moves => InputsAt(op.status)
        /\ op' = Unleased([op EXCEPT !.status = to, !.history = @ \cup {tx}])
        /\ input' = IF moves THEN Inputs(to, None) ELSE InputsWith(None)

(* ReconcileBatchOperation applies evidence e without a compare-and-set and *)
(* takes the lease away from whoever holds it.                              *)
KnownCandidate(tx) == None \in {op.tx, tx} \/ tx \in {op.tx} \cup op.history

TargetFromNullifiers(e) ==
    CASE e.spent = Notes -> "Succeeded"
      [] e.state = "failed" /\ e.spent = {} -> "Failed"
      [] OTHER -> "ManualReview"

EvidenceTarget(e) ==
    CASE e.state = "succeeded" /\ e.spent = Notes -> "Succeeded"
      [] e.state = "failed" /\ e.spent = {} -> "Failed"
      [] OTHER -> "ManualReview"

TerminalConflict(e) == IsTerminalOperationStatus(op.status) /\ EvidenceTarget(e) # op.status

ReconciledStatus(e) ==
    CASE ~TerminalConflict(e) -> EvidenceTarget(e)
      [] op.status = "ConflictSpent" \/ (op.status = "Failed" /\ e.spent # {}) -> "ConflictSpent"
      [] OTHER -> "ManualReview"

FreedWhateverItsStatus(n, e) ==
    CASE n \in e.spent -> "ConfirmedSpent"
      [] n \notin e.spent /\ ~TerminalConflict(e) /\ e.state = "failed" -> "ReplanRequired"
      [] OTHER -> input[n].status

ReconciledInput(n, e) ==
    CASE n \in e.spent -> "ConfirmedSpent"
      [] n \notin e.spent /\ ~TerminalConflict(e) /\ e.state = "failed"
           /\ IsActiveReservationStatus(input[n].status) -> "ReplanRequired"
      [] OTHER -> input[n].status

(* observed: what the caller saw of the output, "none" if nothing. *)
ReconciledItem(o, e, observed) ==
    CASE TerminalConflict(e) -> "ManualReview"
      [] ~TerminalConflict(e) /\ e.state = "failed" -> "Failed"
      [] ~TerminalConflict(e) /\ e.state = "absent" ->
           IF e.spent # {} THEN "ManualReview" ELSE item[o]
      [] OTHER ->
           CASE observed = "match" -> "Succeeded"
             [] observed = "none" /\ item[o] = "Succeeded" -> "Succeeded"
             [] OTHER -> "ManualReview"

ReconcileBatchOperation(e, observed) ==
    /\ KnownCandidate(e.tx)
    /\ op' = Unleased([op EXCEPT !.status = ReconciledStatus(e),
                                 !.tx = IF e.tx = None THEN @ ELSE e.tx])
    /\ input' = [n \in Notes |-> [status |-> ReconciledInput(n, e), token |-> None]]
    /\ item' = [o \in Outputs |-> ReconciledItem(o, e, observed[o])]

-----------------------------------------------------------------------------
(* BatchProofWorker.Process.  After a recovery the call reads the operation *)
(* again, as a new call does.                                               *)
Process(w) ==
    /\ At(w, "idle")
    /\ \/ op.status = "Planned" /\ Goto(w, "acquire")
       \/ op.status = "Proving" /\ ~op.live /\ Goto(w, "recover")
    /\ UNCHANGED <<storeVars, chainVars>>

AcquireToProve(w) ==
    /\ \/ At(w, "acquire") /\ Goto(w, "claim")
       \/ At(w, "recover") /\ Goto(w, "reset")
    /\ AcquireBatchOperationLease(w)
    /\ UNCHANGED <<item, chainVars>>

ClaimProving(w) ==
    /\ At(w, "claim")
    /\ Claim(w) /\ Goto(w, "prove")
    /\ UNCHANGED <<item, chainVars>>

(* recoverExpiredProvingOperation, and the deferred rollback of a claim     *)
(* whose proof failed or whose heartbeat was refused.                       *)
ResetProving(w) ==
    /\ At(w, "reset") \/ At(w, "prove")
    /\ RollBack(w) /\ Return(w)
    /\ UNCHANGED <<item, chainVars>>

ProveBatchPayroll(w) ==
    /\ At(w, "prove")
    /\ SaveBatchProofArtifacts(w) /\ Return(w)
    /\ UNCHANGED <<item, chainVars>>

-----------------------------------------------------------------------------
(* IdempotentBatchBroadcastWorker.Submit: read the operation, ...           *)
Submit(w, resign) ==
    /\ At(w, "idle")
    /\ op.proof
    /\ worker' = [worker EXCEPT ![w] =
          [pc |-> "lookup", status |-> op.status, tx |-> op.tx, resign |-> resign]]
    /\ UNCHANGED <<storeVars, chainVars>>

(* ... look up its transaction (the node may not have indexed it yet) and   *)
(* the nullifiers: the call goes on if the transaction is unknown, or       *)
(* failed and is to be signed again, ...                                    *)
LookupPriorTx(w) ==
    /\ At(w, "lookup")
    /\ \E failed \in BOOLEAN :
         /\ failed => worker[w].resign /\ worker[w].tx # None /\ chain[worker[w].tx] = "failed"
         /\ worker' = [worker EXCEPT ![w] =
               [pc |-> "admit", status |-> @.status, tx |-> @.tx, resign |-> @.resign, failed |-> failed]]
    /\ UNCHANGED <<storeVars, chainVars>>

ResignAllowed(w) ==
    worker[w].resign =>
        worker[w].tx = None \/ worker[w].status = "Unknown" \/ worker[w].failed

AdmitBroadcast(w) ==
    /\ At(w, "admit")
    /\ spent = {}
    /\ ResignAllowed(w)
    /\ Goto(w, "lease")
    /\ UNCHANGED <<storeVars, chainVars>>

AcquireToBroadcast(w) ==
    /\ At(w, "lease")
    /\ AcquireBatchOperationLease(w)
    /\ Goto(w, "compare")
    /\ UNCHANGED <<item, chainVars>>

(* ... compare what was read with the operation under the lease, ...        *)
Unchanged(w) == op.status = worker[w].status /\ op.tx = worker[w].tx

CompareFresh(w) ==
    /\ At(w, "compare")
    /\ Unchanged(w)
    /\ Goto(w, IF worker[w].failed THEN "resign" ELSE "sign")
    /\ UNCHANGED <<storeVars, chainVars>>

AuthorizeResign(w) ==
    /\ At(w, "resign")
    /\ PrepareBatchOperationResign(w, worker[w].tx)
    /\ Goto(w, "sign")
    /\ UNCHANGED <<item, chainVars>>

(* ... take the stored bytes or sign a new transaction, ...                 *)
SignedWith(w, tx) == [pc |-> "stage", tx |-> tx]

BuildSignedBatchTx(w) ==
    /\ At(w, "sign")
    /\ \/ /\ worker[w].tx # None /\ ~worker[w].resign
          /\ worker' = [worker EXCEPT ![w] = SignedWith(w, @.tx)]
          /\ UNCHANGED chainVars
       \/ /\ worker[w].tx = None \/ worker[w].resign
          /\ \E t \in Txs :
               /\ chain[t] = "unsigned"
               /\ chain' = [chain EXCEPT ![t] = "signed"]
               /\ fresh' = fresh \cup {t}
               /\ worker' = [worker EXCEPT ![w] = SignedWith(w, t)]
          /\ UNCHANGED spent
    /\ UNCHANGED storeVars

StageSignedTx(w) ==
    /\ At(w, "stage")
    /\ SaveBatchSignedTx(w, worker[w].tx)
    /\ Goto(w, "recheck")
    /\ UNCHANGED <<item, chainVars>>

(* ... check the nullifiers again, confirm the lease, ...                   *)
RecheckNullifiers(w) ==
    /\ At(w, "recheck")
    /\ spent = {}
    /\ Goto(w, "confirm")
    /\ UNCHANGED <<storeVars, chainVars>>

ConfirmLease(w) ==
    /\ At(w, "confirm")
    /\ HeartbeatBatchOperationLease(w)
    /\ Goto(w, "send")
    /\ UNCHANGED chainVars

(* ... broadcast (the node takes the transaction or not, and the answer may *)
(* be an error or lost), and record the answer under the same lease.        *)
BroadcastSignedBatchTx(w) ==
    /\ At(w, "send")
    /\ \E taken, unknown \in BOOLEAN :
         /\ taken \/ unknown
         /\ chain' = IF taken /\ chain[worker[w].tx] = "signed"
                     THEN [chain EXCEPT ![worker[w].tx] = "mempool"] ELSE chain
         /\ worker' = [worker EXCEPT ![w] = [pc |-> "record", tx |-> @.tx, unknown |-> unknown]]
    /\ UNCHANGED <<storeVars, fresh, spent>>

RecordOutcome(w) ==
    /\ At(w, "record")
    /\ RecordBatchBroadcast(w, worker[w].tx, worker[w].unknown)
    /\ Return(w)
    /\ UNCHANGED <<item, chainVars>>

-----------------------------------------------------------------------------
(* BatchReconcileWorker.Reconcile: read the operation, look up the staged   *)
(* transaction and the recorded ones, ...                                   *)
Reconcile(w) ==
    /\ At(w, "idle")
    /\ worker' = [worker EXCEPT ![w] =
          [pc |-> "candidates", status |-> op.status, tx |-> op.tx, history |-> op.history]]
    /\ UNCHANGED <<storeVars, chainVars>>

(* The lookup of a set of candidates, of which the node has indexed some:   *)
(* the one that succeeded, else the current one.                            *)
LookupResult(current, indexed) ==
    LET won == {t \in indexed : chain[t] = "succeeded"}
    IN  IF won # {} THEN [tx |-> CHOOSE t \in won : TRUE, state |-> "succeeded"]
        ELSE [tx |-> current,
              state |-> IF current \in indexed THEN "failed" ELSE "absent"]

LookupBatchTxCandidates(w) ==
    /\ At(w, "candidates")
    /\ LET candidates == (worker[w].history \cup {worker[w].tx}) \ {None}
       IN  \E indexed \in SUBSET {t \in candidates : chain[t] \in Included} :
             LET found == LookupResult(worker[w].tx, indexed)
             IN  worker' = [worker EXCEPT ![w] =
                    [pc |-> "nullifiers", status |-> @.status, tx |-> found.tx, state |-> found.state]]
    /\ UNCHANGED <<storeVars, chainVars>>

(* ... check the nullifiers, ...                                            *)
CheckBatchNullifiers(w) ==
    /\ At(w, "nullifiers")
    /\ worker' = [worker EXCEPT ![w] =
          [pc |-> "apply", status |-> @.status,
           e |-> [tx |-> @.tx, state |-> @.state, spent |-> spent]]]
    /\ UNCHANGED <<storeVars, chainVars>>

(* ... and apply the evidence with what was seen of the outputs.  Without   *)
(* evidence the operation is still in flight, unless it was terminal.       *)
NoEvidence(e) == e.state = "absent" /\ e.spent = {}

ApplyEvidence(w) ==
    /\ At(w, "apply")
    /\ NoEvidence(worker[w].e) => IsTerminalOperationStatus(worker[w].status)
    /\ \E observed \in [Outputs -> {"none", "match", "mismatch"}] :
         /\ (\E t \in Txs : chain[t] = "succeeded") \/ \A o \in Outputs : observed[o] = "none"
         /\ ReconcileBatchOperation(worker[w].e, observed)
    /\ Return(w)
    /\ UNCHANGED chainVars

-----------------------------------------------------------------------------
(* The background heartbeat of a call that holds the lease.                 *)
Leased == {"prove", "compare", "resign", "sign", "stage", "recheck", "confirm", "send", "record"}

Heartbeat(w) ==
    /\ worker[w].pc \in Leased
    /\ ~op.live
    /\ HeartbeatBatchOperationLease(w)
    /\ UNCHANGED <<chainVars, worker>>

(* A call that ends early releases its lease: an error of the store, the    *)
(* node or the signer, a changed operation, a spent nullifier.              *)
Abandon(w) == worker[w].pc \in {"claim", "reset"} \cup (Leased \ {"prove"}) /\ GiveUp(w)

(* The process dies, or the call ends early with nothing to release.        *)
Crash(w) == ~At(w, "idle") /\ Return(w) /\ UNCHANGED <<storeVars, chainVars>>

Expire == op.live /\ op' = [op EXCEPT !.live = FALSE] /\ UNCHANGED <<input, item, chainVars, worker>>

(* The chain: a transaction with the account's sequence executes once; its  *)
(* messages succeed if no note is spent, and otherwise it fails.  One with  *)
(* an older sequence is rejected.  The mempool may lose a transaction.      *)
Include(t) ==
    /\ chain[t] = "mempool" /\ t \in fresh
    /\ \/ spent = {} /\ spent' = Notes /\ chain' = [chain EXCEPT ![t] = "succeeded"]
       \/ UNCHANGED spent /\ chain' = [chain EXCEPT ![t] = "failed"]
    /\ fresh' = {}
    /\ UNCHANGED <<storeVars, worker>>

RejectOrDrop(t) ==
    /\ chain[t] = "mempool"
    /\ \/ chain' = [chain EXCEPT ![t] = "signed"]
       \/ t \notin fresh /\ chain' = [chain EXCEPT ![t] = "failed"]
    /\ UNCHANGED <<storeVars, fresh, spent, worker>>

(* The account signs something else; another wallet spends a note.          *)
OtherTx == fresh # {} /\ fresh' = {} /\ UNCHANGED <<storeVars, chain, spent, worker>>

ForeignSpend(n) == n \notin spent /\ spent' = spent \cup {n} /\ UNCHANGED <<storeVars, chain, fresh, worker>>

BatchNext ==
    \/ \E w \in Workers :
         \/ Process(w) \/ AcquireToProve(w) \/ ClaimProving(w) \/ ResetProving(w) \/ ProveBatchPayroll(w)
         \/ \E resign \in BOOLEAN : Submit(w, resign)
         \/ LookupPriorTx(w) \/ AdmitBroadcast(w) \/ AcquireToBroadcast(w) \/ CompareFresh(w)
         \/ AuthorizeResign(w) \/ BuildSignedBatchTx(w) \/ StageSignedTx(w) \/ RecheckNullifiers(w)
         \/ ConfirmLease(w) \/ BroadcastSignedBatchTx(w) \/ RecordOutcome(w)
         \/ Reconcile(w) \/ LookupBatchTxCandidates(w) \/ CheckBatchNullifiers(w) \/ ApplyEvidence(w)
         \/ Heartbeat(w) \/ Abandon(w) \/ Crash(w)
    \/ Expire \/ OtherTx
    \/ \E t \in Txs : Include(t) \/ RejectOrDrop(t)
    \/ \E n \in Notes : ForeignSpend(n)

BatchSpec == BatchInit /\ [][BatchNext]_batchVars

-----------------------------------------------------------------------------
(* The type invariant of the operation, its inputs and the chain. *)
BatchTypeOK ==
    /\ op \in [status : OperationStatus, token : Workers \cup {None}, live : BOOLEAN,
               proof : BOOLEAN, tx : Txs \cup {None}, history : SUBSET Txs]
    /\ input \in [Notes -> [status : InputStatus, token : Workers \cup {None}]]
    /\ item \in [Outputs -> EvidenceStatus]
    /\ chain \in [Txs -> TxState]
    /\ fresh \subseteq Txs /\ spent \subseteq Notes

(* In flight, every input is in the operation's state; once it is resolved  *)
(* no input is held any more, and a success has confirmed all of them.      *)
StatusAgrees ==
    /\ op.status = "Planned" => InputsAt("Reserved")
    /\ op.status \in {"Proving", "ProofReady", "Submitted", "Unknown"} => InputsAt(op.status)
    /\ IsTerminalOperationStatus(op.status) =>
         \A n \in Notes : ~IsActiveReservationStatus(input[n].status)
    /\ op.status = "Succeeded" => InputsAt("ConfirmedSpent")

(* The lease covers the operation and all its inputs or none of them.       *)
LeaseWhole ==
    /\ \A n \in Notes : input[n].token = op.token
    /\ op.token = None => ~op.live
    /\ IsTerminalOperationStatus(op.status) => op.token = None

(* The operation and its reservations tell the same story, in their states  *)
(* and in who holds the lease, however the workers interleave, stop between *)
(* two calls and take over from one another (batch_memory_store.go stores   *)
(* both in every record).                                                   *)
OperationWhole == StatusAgrees /\ LeaseWhole

(* Only chain evidence resolves an operation: Succeeded and Failed are what *)
(* became of its transaction, an item is paid only if one succeeded, a note *)
(* is confirmed as spent only when the chain has its nullifier, and given   *)
(* back only after a transaction failed.                                    *)
ResolvedByTheChain ==
    /\ op.status \in {"Succeeded", "Failed"} => op.tx # None
    /\ op.status = "Succeeded" => chain[op.tx] = "succeeded"
    /\ op.status = "Failed" => chain[op.tx] = "failed"
    /\ (\E o \in Outputs : item[o] = "Succeeded") => \E t \in Txs : chain[t] = "succeeded"
    /\ \A n \in Notes :
         /\ input[n].status = "ConfirmedSpent" => n \in spent
         /\ input[n].status = "ReplanRequired" => \E t \in Txs : chain[t] = "failed"

(* A confirmed spend and a stored proof are final.                          *)
EvidenceIsFinal ==
    [][/\ \A n \in Notes : input[n].status = "ConfirmedSpent" => input'[n].status = "ConfirmedSpent"
       /\ op.proof => op'.proof /\ op'.status \notin {"Planned", "Proving"}]_batchVars

(* "Create a new operation/reservation attempt only after the earlier batch *)
(* outcome resolves": while a note is given back for replanning, no         *)
(* transaction that spends it waits for its turn in the mempool.            *)
FreedMeansResolved ==
    (\E n \in Notes : input[n].status = "ReplanRequired") =>
        \A t \in fresh : chain[t] # "mempool"
=============================================================================
