-------------------------- MODULE PayrollPipeline --------------------------
(***************************************************************************)
(* The workers of PayrollWorkers and the reconciler of Reconcile on one    *)
(* store and one chain: an operation from its plan to its resolution.  A   *)
(* LiveDaemon is one process: its ticks prove, roll back, broadcast and    *)
(* reconcile in turn (RunOnce).                                            *)
(***************************************************************************)
EXTENDS PayrollWorkers

VARIABLES chain,    \* transaction -> its state on the chain
          recon,    \* daemon -> what its reconciliation has read
          carries,  \* transaction -> the notes it spends
          sentAs    \* process -> the transaction of its last broadcast

R == INSTANCE Reconcile WITH Reconcilers <- Daemons

chainVars == <<chain, recon, carries, sentAs>>

pipelineVars == <<workerVars, chainVars>>

PipelineInitFor(rs) ==
    /\ WorkersInitFor(rs)
    /\ chain = [t \in TxIDs |-> "absent"]
    /\ recon = [d \in Daemons |-> R!Idle]
    /\ carries = [t \in {} |-> {}]
    /\ sentAs = [a \in Actors |-> None]

InStatus(r, statuses) == r \in DOMAIN reservations /\ reservations[r].status \in statuses

Free(a) == a \in Daemons => recon[a] = R!Idle

-----------------------------------------------------------------------------
(* Every broadcast is a transaction of its own. *)
Broadcast(b) ==
    \E t \in TxIDs \ DOMAIN carries, got \in BOOLEAN, outcome \in Outcomes :
        /\ Send(b, got, outcome)
        /\ carries' = Updated(carries, [x \in {t} |-> {reservations[r].key : r \in job[b].notes}])
        /\ chain' = IF got THEN [chain EXCEPT ![t] = "pending"] ELSE chain
        /\ sentAs' = [sentAs EXCEPT ![b] = t]
        /\ UNCHANGED recon

(* The hash that is recorded is the one of the transaction that was sent. *)
RecordSent(b, now) ==
    /\ RecordBroadcast(b, now)
    /\ \A r \in DOMAIN reservations : reservations'[r].tx \in {reservations[r].tx, sentAs[b]}
    /\ sentAs' = [sentAs EXCEPT ![b] = None]
    /\ UNCHANGED <<chain, recon, carries>>

Work(a) ==
    \/ Broadcast(a)
    \/ \E now \in Now : RecordSent(a, now)
    \/ /\ \/ \E now \in Now :
               \/ LeaseForProof(a, now) \/ MoveToProving(a, now) \/ MarkReady(a, now) \/ Undo(a, now)
               \/ HoldLease(a, now) \/ ClearTaken(a, now)
               \/ Reclaim(a, now) \/ ReturnToReserved(a, now)
          \/ Prove(a) \/ SaveProofResult(a) \/ CheckLinks(a) \/ CheckNullifiers(a) \/ SkipSend(a)
       /\ UNCHANGED chainVars

(* A block includes the transaction: it succeeds if no input is spent. *)
IncludeTx(t) ==
    /\ chain[t] = "pending"
    /\ \/ /\ carries[t] \cap spent = {}
          /\ chain' = [chain EXCEPT ![t] = "succeeded"]
          /\ spent' = spent \cup carries[t]
       \/ chain' = [chain EXCEPT ![t] = "failed"] /\ UNCHANGED spent
    /\ StoreUnchanged /\ UNCHANGED <<job, results, handed, faults, recon, carries, sentAs>>

(* reconcileSubmitted: the Submitted and Unknown reservations. *)
Poll(d, r, indexed) ==
    /\ At(d, "idle")
    /\ reservations[r].status \in {"Submitted", "Unknown"}
    /\ R!Observe(d, r, indexed)
    /\ UNCHANGED <<job, jobVars, carries, sentAs>>

Reconcile(d) ==
    /\ R!LoadReservation(d) \/ R!LoadOperation(d) \/ R!Commit(d) \/ R!Return(d)
    /\ UNCHANGED <<job, results, handed, faults, carries, sentAs>>

(* The process dies in its job or in its reconciliation. *)
Die(a) ==
    /\ \/ Crash(a) /\ UNCHANGED recon
       \/ /\ a \in Daemons /\ R!Crash(a) /\ Fault
          /\ UNCHANGED <<job, results, handed>>
    /\ sentAs' = [sentAs EXCEPT ![a] = None]
    /\ UNCHANGED <<chain, carries>>

Start(a, o) ==
    /\ Free(a)
    /\ StartProof(a, o) \/ StartBroadcast(a, o) \/ StartDaemonBroadcast(a, o) \/ StartRollback(a, o)
    /\ UNCHANGED chainVars

Beat(a) == (\E now \in Now : Heartbeat(a, now)) /\ UNCHANGED chainVars

Elapse == ElapseTime /\ UNCHANGED chainVars

(* A rollback that moves the reservation. *)
TakenBack(d, r, now) ==
    /\ InStatus(r, {"Proving"}) /\ ReturnToReserved(d, now) /\ UNCHANGED chainVars
    /\ reservations'[r].status = "Reserved"

(* The indexed poll of a transaction that is decided. *)
AnsweredPoll(d, r) ==
    /\ r \in DOMAIN reservations /\ reservations[r].tx # None
    /\ chain[reservations[r].tx] \in {"succeeded", "failed"}
    /\ Poll(d, r, TRUE)

(* A process goes on with its job, the daemon keeps coming back to the      *)
(* operations that are Proving and to those that were sent, the node        *)
(* answers some polls, blocks are made, time passes, and a lease outlives a *)
(* few store calls.                                                         *)
PipelineFairness ==
    /\ \A a \in Actors : WF_pipelineVars(Work(a))
    /\ \A d \in Daemons :
         /\ WF_pipelineVars(Reconcile(d))
         /\ \A o \in OperationIDs : SF_pipelineVars(Free(d) /\ StartRollback(d, o) /\ UNCHANGED chainVars)
         /\ \A r \in ReservationIDs :
              /\ SF_pipelineVars(AnsweredPoll(d, r))
              /\ SF_pipelineVars(\E now \in Now : TakenBack(d, r, now))
    /\ \A t \in TxIDs : WF_pipelineVars(IncludeTx(t))
    /\ SF_pipelineVars(Elapse)

-----------------------------------------------------------------------------
(* A reservation does not stay Proving for ever when its worker died: its   *)
(* lease runs out and the daemon takes the reservation back.                *)
ProvingEnds == \A r \in ReservationIDs : InStatus(r, {"Proving"}) ~> ~InStatus(r, {"Proving"})

(* Every reservation that was recorded with a transaction that reached the  *)
(* chain is eventually resolved or handed to a person, whichever process    *)
(* died and whichever answer was lost on the way.                           *)
SubmittedResolves ==
    \A r \in ReservationIDs :
        (InStatus(r, {"Submitted", "Unknown"}) /\ chain[reservations[r].tx] # "absent")
            ~> InStatus(r, {"ConfirmedSpent", "Failed", "ManualReview"})
=============================================================================
