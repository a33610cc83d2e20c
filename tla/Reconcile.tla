----------------------------- MODULE Reconcile -----------------------------
(***************************************************************************)
(* Service.Reconcile (sdk/reservation/reconcile.go) run by several         *)
(* reconcilers against the chain.  A reconciler first collects evidence    *)
(* about the operation's transaction and the note's nullifier, then reads  *)
(* the reservation, then its operation, and at last writes both with one   *)
(* compare-and-set on the reservation's status; anything may happen        *)
(* between these steps.  The chain is what EvidenceScanner asks for.       *)
(***************************************************************************)
EXTENDS ReservationStore

CONSTANT Reconcilers

VARIABLES chain,   \* transaction -> its state on the chain
          spent,   \* the notes whose nullifiers the chain has recorded
          recon    \* reconciler -> what it has read so far

reconVars == <<storeVars, chain, spent, recon>>

TxState == {"absent", "pending", "succeeded", "failed"}

Idle == [pc |-> "idle"]

ReconInit ==
    /\ StoreInit
    /\ chain = [t \in TxIDs |-> "absent"]
    /\ spent = {}
    /\ recon = [c \in Reconcilers |-> Idle]

-----------------------------------------------------------------------------
(* A worker that holds the leases of all inputs of the proof sent the       *)
(* transaction and records that it did, or that it does not know whether    *)
(* the node accepted it.                                                    *)
Submit(refs, tx, now) ==
    /\ chain[tx] = "absent"
    /\ \A r \in DOMAIN reservations : reservations[r].op \in LinkedOps(refs) => r \in DOMAIN refs
    /\ \/ MarkSubmitted(refs, tx, now) /\ chain' = [chain EXCEPT ![tx] = "pending"]
       \/ MarkBroadcastUnknown(refs, tx, now) /\ chain' \in {chain, [chain EXCEPT ![tx] = "pending"]}
    /\ UNCHANGED <<spent, recon>>

(* The notes a transaction spends: those recorded as submitted with it. *)
Inputs(tx) == {reservations[r].key : r \in {x \in DOMAIN reservations : reservations[x].tx = tx}}

(* A block includes the transaction: it succeeds if no input is spent. *)
Include(tx) ==
    /\ chain[tx] = "pending"
    /\ \/ /\ Inputs(tx) \cap spent = {}
          /\ chain' = [chain EXCEPT ![tx] = "succeeded"]
          /\ spent' = spent \cup Inputs(tx)
       \/ chain' = [chain EXCEPT ![tx] = "failed"] /\ UNCHANGED spent
    /\ UNCHANGED <<storeVars, recon>>

(* Another wallet of the same owner spends the note. *)
ForeignSpend(k) == spent' = spent \cup {k} /\ UNCHANGED <<storeVars, chain, recon>>

(* Evidence for reservation r: the transaction of its operation, as the     *)
(* node knows it (it may not have indexed it yet), its outputs when it      *)
(* succeeded, and the nullifier.                                            *)
Observe(c, r, indexed) ==
    LET tx == IF indexed THEN reservations[r].tx ELSE None
        state == IF tx = None THEN "absent" ELSE chain[tx]
        op == reservations[r].op
    IN  /\ recon[c].pc = "idle"
        /\ \E digest \in Digests \cup {None} :
             /\ digest # None => state = "succeeded" /\ op # None /\ digest = operations[op].expected
             /\ recon' = [recon EXCEPT ![c] =
                   [pc |-> "observed", r |-> r,
                    e |-> [tx     |-> IF state = "absent" THEN None ELSE tx,
                           state  |-> state,
                           digest |-> digest,
                           spent  |-> reservations[r].key \in spent]]]
        /\ UNCHANGED <<storeVars, chain, spent>>

(* GetReservation *)
LoadReservation(c) ==
    /\ recon[c].pc = "observed"
    /\ recon' = [recon EXCEPT ![c] =
          [pc |-> "reserved", r |-> recon[c].r, e |-> recon[c].e,
           status |-> reservations[recon[c].r].status, op |-> reservations[recon[c].r].op]]
    /\ UNCHANGED <<storeVars, chain, spent>>

(* GetOperation: {} stands for a reservation without an operation. *)
LoadOperation(c) ==
    /\ recon[c].pc = "reserved"
    /\ recon' = [recon EXCEPT ![c] =
          [pc |-> "loaded", r |-> recon[c].r, e |-> recon[c].e, status |-> recon[c].status,
           op |-> recon[c].op,
           copy |-> {operations[o] : o \in {recon[c].op} \ {None}}]]
    /\ UNCHANGED <<storeVars, chain, spent>>

-----------------------------------------------------------------------------
(* txEvidenceMatchesOperation and operationMatchesEvidence. *)
TxMatches(copy, e) == \E op \in copy : op.tx # None /\ e.tx = op.tx

OperationMatches(copy, e) ==
    TxMatches(copy, e) /\ \E op \in copy : op.expected # None /\ e.digest = op.expected

(* failedTxReconcileTarget *)
FailedTarget(copy) ==
    IF \E op \in copy : op.status \in TerminalOperation \ {"Failed"} THEN "ManualReview" ELSE "Failed"

(* The statuses Reconcile writes for evidence e: `to` for the reservation,  *)
(* `ops` for its operation.  A terminal reservation, and evidence that adds *)
(* nothing, have no target.                                                 *)
TimeoutAsFailure(e) == e.state # "succeeded" /\ ~e.spent

FailureOfSpent(e) == e.state = "failed" /\ e.spent

FailureEvidence(e) == e.state = "failed" /\ ~e.spent

SpentEvidence(e) == e.state = "succeeded" \/ e.spent

TargetStatuses == {"Unknown", "ManualReview", "Failed", "ConfirmedSpent"}

TargetOperationStatuses == {"Unknown", "ManualReview", "Failed", "Succeeded", "ConflictSpent"}

Target(status, copy, e, to, ops) ==
    /\ status \notin {"ConfirmedSpent", "Failed"}
    /\ \/ /\ e.state = "absent" /\ ~e.spent
          /\ status \notin {"ManualReview", "Unknown"}
          /\ to = "Unknown" /\ ops = "Unknown"
       \/ /\ FailureEvidence(e)
          /\ IF TxMatches(copy, e) THEN to = FailedTarget(copy) /\ to # status
                                   ELSE to = "ManualReview"
          /\ ops = to
       \/ /\ SpentEvidence(e)
          /\ to = "ConfirmedSpent"
          /\ ops = IF OperationMatches(copy, e) THEN "Succeeded" ELSE "ConflictSpent"

(* reconcileReservationOperation: the copy read earlier, with the new       *)
(* status, unless that copy was already terminal in another status.         *)
OperationUpdate(copy, ops) ==
    {[op EXCEPT !.status = ops] :
        op \in {x \in copy : x.status \notin TerminalOperation \/ x.status = ops}}

(* What the compare-and-set of reservation and operation accepts. *)
Writes(c, to, ops) ==
    /\ recon[c].pc = "loaded"
    /\ Target(recon[c].status, recon[c].copy, recon[c].e, to, ops)
    /\ CanMove(recon[c].r, recon[c].status, to)
    /\ ~RequiresLeaseToken(recon[c].status, to)

Commit(c) ==
    /\ \E to \in TargetStatuses, ops \in TargetOperationStatuses :
         /\ Writes(c, to, ops)
         /\ TransitionWithOperation(recon[c].r, recon[c].status, to, recon[c].op,
                                    OperationUpdate(recon[c].copy, ops))
    /\ recon' = [recon EXCEPT ![c] = Idle]
    /\ UNCHANGED <<chain, spent>>

(* The call returns without a write: the compare-and-set or a check failed, *)
(* or the evidence added nothing.                                           *)
Return(c) ==
    /\ recon[c].pc = "loaded"
    /\ ~\E to \in TargetStatuses, ops \in TargetOperationStatuses : Writes(c, to, ops)
    /\ recon' = [recon EXCEPT ![c] = Idle]
    /\ UNCHANGED <<storeVars, chain, spent>>

(* The process stops; another one starts over. *)
Crash(c) ==
    /\ recon[c].pc # "idle"
    /\ recon' = [recon EXCEPT ![c] = Idle]
    /\ UNCHANGED <<storeVars, chain, spent>>

ReconNext ==
    \/ \E refs \in RefMaps, tx \in TxIDs, now \in Now : Submit(refs, tx, now)
    \/ \E tx \in TxIDs : Include(tx)
    \/ \E k \in Keys : ForeignSpend(k)
    \/ \E c \in Reconcilers :
         \/ \E r \in DOMAIN reservations, indexed \in BOOLEAN : Observe(c, r, indexed)
         \/ LoadReservation(c) \/ LoadOperation(c) \/ Commit(c) \/ Return(c) \/ Crash(c)

(* What the planner and the proof workers ask of the store before a         *)
(* transaction is sent: the SDK calls Transition for Release alone, and     *)
(* TransitionWithLease between Reserved and Proving alone.                  *)
WorkerCall ==
    \/ \E new \in NewBatches, newOps \in SUBSET OperationIDs : ReserveBatch(new, newOps)
    \/ \E r \in DOMAIN reservations : Transition(r, "Reserved", "Released")
    \/ \E r \in DOMAIN reservations, token \in 1 .. issued, now \in Now :
         \/ TransitionWithLease(r, token, "Reserved", "Proving", now)
         \/ TransitionWithLease(r, token, "Proving", "Reserved", now)
         \/ ClearReservationLease(r, token, now)
    \/ \E r \in DOMAIN reservations, now \in Now, ttl \in Nat \ {0} :
         \/ AcquireLease(r, now, ttl)
         \/ \E token \in 1 .. issued : HeartbeatLease(r, token, now, ttl)
    \/ \E refs \in RefMaps, digest \in Digests \cup {None}, now \in Now :
         MarkProofReady(refs, digest, now)
    \/ \E o \in OperationIDs : CreateOperation(o)
    \/ Tick

(* The whole life of a reservation: planned and proved by the workers, sent *)
(* to the chain, and resolved by the reconcilers.                           *)
LifeNext == ReconNext \/ (WorkerCall /\ UNCHANGED <<chain, spent, recon>>)

LifeSpec == ReconInit /\ [][LifeNext]_reconVars

-----------------------------------------------------------------------------
(* A note is recorded as spent only when the chain has its nullifier, and   *)
(* an operation as succeeded only when its own transaction succeeded,       *)
(* however old the evidence and the copies were when they were written.     *)
ConfirmedMeansSpent ==
    /\ \A r \in DOMAIN reservations :
         reservations[r].status = "ConfirmedSpent" => reservations[r].key \in spent
    /\ \A o \in DOMAIN operations :
         operations[o].status = "Succeeded" =>
            \E t \in TxIDs : t = operations[o].tx /\ chain[t] = "succeeded"

(* A reservation is given up as Failed only when its own transaction failed *)
(* on the chain: stale evidence never frees a note whose transaction may    *)
(* still spend it.                                                          *)
FailedMeansTxFailed ==
    \A r \in DOMAIN reservations :
        reservations[r].status = "Failed" => \E t \in TxIDs : t = reservations[r].tx /\ chain[t] = "failed"

(* A step that leaves every resolved reservation where it is. *)
KeepsResolved ==
    \A r \in DOMAIN reservations :
        reservations[r].status \in {"ConfirmedSpent", "Failed"} =>
            reservations'[r].status = reservations[r].status

(* "operation already terminal; preserved existing status": a reconciler    *)
(* never replaces the terminal status another one wrote.                    *)
TerminalOperationKept ==
    [][\A o \in DOMAIN operations :
         operations[o].status \in TerminalOperation =>
            operations'[o].status = operations[o].status]_reconVars
=============================================================================
