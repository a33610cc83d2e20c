--------------------------- MODULE MCReservations ---------------------------
(* Model checking of ReservationStore and Reconcile, from two kinds of      *)
(* initial state.  Profile "calls": an empty store and any sequence of its  *)
(* calls; the clock stops at MaxTime, at most MaxTokens leases are          *)
(* acquired, a copy of an operation that a caller writes back differs from  *)
(* the stored one in its status only, and a call that expects another       *)
(* status than the stored one, which is refused, is left out.  Profile      *)
(* "chain": every reservation of one operation has its proof and a live     *)
(* lease, and reconcilers race the chain and each other.                    *)
EXTENDS Reconcile, TLC

CONSTANTS Profiles, MaxTime, MaxTokens, TTLs, CopyStatuses

VARIABLE profile

mcVars == <<reconVars, profile>>

MCSymmetry == Permutations(ReservationIDs) \cup Permutations(Keys) \cup Permutations(Reconcilers)

Injections(S, T) == {f \in [S -> T] : \A x, y \in S : f[x] = f[y] => x = y}

ProofsDone ==
    \E o \in OperationIDs, d \in Digests \cup {None},
       keyOf \in Injections(ReservationIDs, Keys),
       tokenOf \in Injections(ReservationIDs, 1 .. Cardinality(ReservationIDs)) :
        /\ clock = 1
        /\ issued = Cardinality(ReservationIDs)
        /\ reservations = [r \in ReservationIDs |->
                [status |-> "ProofReady", key |-> keyOf[r], op |-> o, token |-> tokenOf[r],
                 until |-> 3, tx |-> None]]
        /\ activeReservationByKey =
                [k \in {keyOf[r] : r \in ReservationIDs} |-> CHOOSE r \in ReservationIDs : keyOf[r] = k]
        /\ operations = [x \in {o} |-> [status |-> "ProofReady", tx |-> None, expected |-> d]]
        /\ chain = [t \in TxIDs |-> "absent"]
        /\ spent = {}
        /\ recon = [c \in Reconcilers |-> Idle]

MCInit ==
    /\ profile \in Profiles
    /\ profile = "calls" => ReconInit
    /\ profile = "chain" => ProofsDone

-----------------------------------------------------------------------------
MCReserveBatch ==
    \E new \in NewBatches, newOps \in SUBSET OperationIDs : ReserveBatch(new, newOps)

MCTransition ==
    \E r \in DOMAIN reservations, to \in ReservationStatus : Transition(r, reservations[r].status, to)

MCTransitionWithLease ==
    \E r \in DOMAIN reservations, to \in ReservationStatus :
      \E token \in 1 .. issued, now \in Now :
        TransitionWithLease(r, token, reservations[r].status, to, now)

MCTransitionWithOperation ==
    \E r \in DOMAIN reservations, to \in ReservationStatus, o \in DOMAIN operations :
        \E upd \in {{}} \cup {{[operations[o] EXCEPT !.status = s]} : s \in CopyStatuses} :
            TransitionWithOperation(r, reservations[r].status, to, o, upd)

MCAcquireLease ==
    issued < MaxTokens /\ \E r \in DOMAIN reservations, now \in Now, ttl \in TTLs : AcquireLease(r, now, ttl)

MCHeartbeatLease ==
    \E r \in DOMAIN reservations, token \in 1 .. issued, now \in Now, ttl \in TTLs :
        HeartbeatLease(r, token, now, ttl)

MCClearLease ==
    \E r \in DOMAIN reservations, token \in 1 .. issued, now \in Now : ClearReservationLease(r, token, now)

MCMarkProofReady ==
    \E refs \in RefMaps, digest \in Digests \cup {None}, now \in Now : MarkProofReady(refs, digest, now)

MCMarkSubmitted == \E refs \in RefMaps, tx \in TxIDs, now \in Now : MarkSubmitted(refs, tx, now)

MCMarkBroadcastUnknown ==
    \E refs \in RefMaps, tx \in TxIDs, now \in Now : MarkBroadcastUnknown(refs, tx, now)

MCTick == clock < MaxTime /\ Tick

StoreCall ==
    \/ MCReserveBatch \/ MCTransition \/ MCTransitionWithLease \/ MCTransitionWithOperation
    \/ MCAcquireLease \/ MCHeartbeatLease \/ MCClearLease
    \/ MCMarkProofReady \/ MCMarkSubmitted \/ MCMarkBroadcastUnknown
    \/ \E o \in OperationIDs : CreateOperation(o)
    \/ MCTick

-----------------------------------------------------------------------------
MCForeignSpend(k) == k \notin spent /\ ForeignSpend(k)

Race ==
    \/ \E refs \in RefMaps, tx \in TxIDs, now \in Now : Submit(refs, tx, now)
    \/ \E tx \in TxIDs : Include(tx)
    \/ \E k \in Keys : MCForeignSpend(k)
    \/ \E c \in Reconcilers, r \in DOMAIN reservations, indexed \in BOOLEAN : Observe(c, r, indexed)
    \/ \E c \in Reconcilers : LoadReservation(c)
    \/ \E c \in Reconcilers : LoadOperation(c)
    \/ \E c \in Reconcilers : Commit(c)
    \/ \E c \in Reconcilers : Return(c)
    \/ \E c \in Reconcilers : Crash(c)

MCNext ==
    /\ UNCHANGED profile
    /\ \/ profile = "calls" /\ StoreCall /\ UNCHANGED <<chain, spent, recon>>
       \/ profile = "chain" /\ Race

MCSpec == MCInit /\ [][MCNext]_mcVars

-----------------------------------------------------------------------------
(* ConfirmedMeansSpent and FailedMeansTxFailed where it is reconcilers that *)
(* write the outcome: a note is recorded as spent only when the chain has   *)
(* its nullifier, an operation as succeeded only when its own transaction   *)
(* succeeded, and no note is given back while its transaction may still     *)
(* spend it, however old what Reconcile had read was.                       *)
ReconciledByEvidence == profile = "chain" => ConfirmedMeansSpent /\ FailedMeansTxFailed
=============================================================================
