-------------------------- MODULE ReservationStore --------------------------
(***************************************************************************)
(* The note reservation store of the payroll SDK (sdk/reservation):        *)
(* MemoryStore, with Service in front of it.  A reservation keeps one note *)
(* (its active key) for one payroll operation from planning until the      *)
(* spend is confirmed on chain; workers move it forward under an expiring  *)
(* lease named by a random token.                                          *)
(*                                                                         *)
(* Every store method runs under one mutex, so it is one step; a call that *)
(* the code refuses changes nothing and is no step.  Service reads the     *)
(* clock before it waits for the mutex, so the `now` of a call may lag the *)
(* clock by up to MaxDelay.  Digests, hashes and audit fields are opaque.  *)
(***************************************************************************)
EXTENDS Integers, FiniteSets

CONSTANTS ReservationIDs, Keys, OperationIDs,
          TxIDs,         \* transaction identities (hash, bytes or sign-doc hash)
          Digests,       \* values of an operation's expected outputs
          None,          \* the empty string
          MaxDelay       \* how far the `now` of a call may lag the clock

ASSUME StoreAssumption ==
    /\ None \notin ReservationIDs \cup Keys \cup OperationIDs \cup TxIDs \cup Digests
    /\ MaxDelay \in Nat

VARIABLES clock,                   \* wall clock of the callers
          issued,                  \* how many lease tokens randomToken has made
          reservations,            \* s.reservations
          activeReservationByKey,  \* s.activeReservationByKey
          operations               \* s.operations

storeVars == <<clock, issued, reservations, activeReservationByKey, operations>>

ReservationStatus ==
    {"Discovered", "Available", "Reserved", "Proving", "ProofReady", "Submitted", "Unknown",
     "ConfirmedSpent", "Failed", "Released", "ReplanRequired", "ManualReview"}

OperationStatus ==
    {"Planned", "Proving", "ProofReady", "Submitted", "Succeeded", "Failed", "ReplanRequired",
     "Unknown", "ManualReview", "ConflictSpent"}

ActiveStatuses == {"Reserved", "Proving", "ProofReady", "Submitted", "Unknown", "ManualReview"}

TerminalOperation == {"Succeeded", "Failed", "ConflictSpent"}

(* Lease token 0 is the empty token, lease time 0 the zero time. *)
NoteReservation == [status : ReservationStatus, key : Keys, op : OperationIDs \cup {None},
                    token : Nat, until : Nat, tx : TxIDs \cup {None}]

PayrollOperation == [status : OperationStatus, tx : TxIDs \cup {None},
                     expected : Digests \cup {None}]

CanTransition == [s \in ReservationStatus |->
    CASE s = "Discovered"     -> {"Available", "Failed"}
      [] s = "Available"      -> {"Reserved"}
      [] s = "Reserved"       -> {"Proving", "Released", "ReplanRequired", "ManualReview"}
      [] s = "Proving"        -> {"ProofReady", "Reserved", "ReplanRequired", "ManualReview"}
      [] s = "ProofReady"     -> {"Submitted", "Unknown", "ConfirmedSpent", "ReplanRequired",
                                  "ManualReview"}
      [] s = "Submitted"      -> {"ConfirmedSpent", "Failed", "Unknown", "ReplanRequired",
                                  "ManualReview"}
      [] s = "Unknown"        -> {"ConfirmedSpent", "Failed", "ReplanRequired", "ManualReview"}
      [] s = "ManualReview"   -> {"ConfirmedSpent", "Failed", "Released", "ReplanRequired"}
      [] s = "Failed"         -> {"ReplanRequired"}
      [] s = "Released"       -> {"Available"}
      [] s = "ReplanRequired" -> {"Reserved", "Failed", "ManualReview"}
      [] OTHER                -> {}]

LeaseEdges == {<<"Reserved", "Proving">>, <<"Proving", "ProofReady">>,
               <<"ProofReady", "Submitted">>, <<"ProofReady", "Unknown">>}

RequiresLeaseToken(from, to) == <<from, to>> \in LeaseEdges

-----------------------------------------------------------------------------
StoreInit ==
    /\ clock = 1
    /\ issued = 0
    /\ reservations = [r \in {} |-> None]
    /\ activeReservationByKey = [k \in {} |-> None]
    /\ operations = [o \in {} |-> None]

(* Service.now(), read before the mutex is held. *)
Now == {t \in 1 .. clock : t >= clock - MaxDelay}

ActiveIn(rs) == {r \in DOMAIN rs : rs[r].status \in ActiveStatuses}

Updated(f, upd) ==
    [x \in DOMAIN f \cup DOMAIN upd |-> IF x \in DOMAIN upd THEN upd[x] ELSE f[x]]

(* storeReservationLocked for the records upd: the index forgets the keys   *)
(* of the active records they replace and learns the keys of the active     *)
(* ones among them.                                                         *)
StoreReservations(upd) ==
    LET byKey(k) == {r \in ActiveIn(upd) : upd[r].key = k}
        freed == {reservations[r].key : r \in ActiveIn(reservations) \cap DOMAIN upd}
        added == {upd[r].key : r \in ActiveIn(upd)}
    IN  /\ reservations' = Updated(reservations, upd)
        /\ activeReservationByKey' =
             [k \in (DOMAIN activeReservationByKey \ freed) \cup added |->
                IF k \in added THEN CHOOSE r \in byKey(k) : TRUE ELSE activeReservationByKey[k]]

(* activeReservationConflictLocked: another reservation is active on the key.*)
NeverConflict(r, key) == FALSE

ActiveConflict(r, key) ==
    key \in DOMAIN activeReservationByKey /\ activeReservationByKey[key] # r

(* requireLeaseToken, for a token other than "". *)
TokenEqual(r, token, now) == token = reservations[r].token

AnyLiveLease(r, token, now) == token # 0 /\ reservations[r].until > now

LeaseHeld(r, token, now) ==
    token # 0 /\ token = reservations[r].token /\ reservations[r].until > now

NoLiveLeaseIgnored(r, now) == TRUE

NoLiveLease(r, now) == reservations[r].token = 0 \/ reservations[r].until <= now

ClearLease(rec) == [rec EXCEPT !.token = 0, !.until = 0]

(* clearLeaseForStatusTransition *)
Moved(rec, to) ==
    IF to \in {"Proving", "ProofReady"} THEN [rec EXCEPT !.status = to]
    ELSE ClearLease([rec EXCEPT !.status = to])

(* The guards shared by the compare-and-set methods. *)
CanMoveFromAny(r, from, to) ==
    /\ r \in DOMAIN reservations
    /\ to \in CanTransition[from]
    /\ to \in ActiveStatuses => ~ActiveConflict(r, reservations[r].key)

CanMove(r, from, to) ==
    /\ r \in DOMAIN reservations
    /\ reservations[r].status = from
    /\ to \in CanTransition[from]
    /\ to \in ActiveStatuses => ~ActiveConflict(r, reservations[r].key)

-----------------------------------------------------------------------------
(* ReserveBatch and CreateReservationBatch: new[r] is the <<note key,       *)
(* operation>> of each new reservation, newOps the operations the batch     *)
(* creates.  All or nothing.  The link check reads the operations in a call *)
(* of its own before the batch is created; operations are never deleted, so *)
(* what it saw still holds.                                                 *)
KeysFree(new) ==
    /\ \A r \in DOMAIN new : new[r][1] \notin DOMAIN activeReservationByKey
    /\ \A r, s \in DOMAIN new : new[r][1] = new[s][1] => r = s

LinksExist(new, newOps) ==
    \A r \in DOMAIN new : new[r][2] = None \/ new[r][2] \in newOps \cup DOMAIN operations

ReserveBatch(new, newOps) ==
    /\ DOMAIN new # {}
    /\ DOMAIN new \cap DOMAIN reservations = {}
    /\ KeysFree(new)
    /\ LinksExist(new, newOps)
    /\ newOps \cap DOMAIN operations = {}
    /\ \A o \in newOps : \E r \in DOMAIN new : new[r][2] = o
    /\ StoreReservations([r \in DOMAIN new |->
            [status |-> "Reserved", key |-> new[r][1], op |-> new[r][2],
             token |-> 0, until |-> 0, tx |-> None]])
    /\ operations' = Updated(operations,
            [o \in newOps |-> [status |-> "Planned", tx |-> None, expected |-> None]])
    /\ UNCHANGED <<clock, issued>>

(* Transition (also Release, from Reserved): no lease, so no lease edge. *)
Transition(r, from, to) ==
    /\ CanMove(r, from, to)
    /\ ~RequiresLeaseToken(from, to)
    /\ StoreReservations([x \in {r} |-> Moved(reservations[r], to)])
    /\ UNCHANGED <<clock, issued, operations>>

TransitionWithLease(r, token, from, to, now) ==
    /\ CanMove(r, from, to)
    /\ LeaseHeld(r, token, now)
    /\ StoreReservations([x \in {r} |-> Moved(reservations[r], to)])
    /\ UNCHANGED <<clock, issued, operations>>

(* CompareAndSetReservationStatusWithOperation: the caller's copy replaces  *)
(* the whole operation (upd = {} leaves it, upd = {rec} writes rec).        *)
TransitionWithOperation(r, from, to, o, upd) ==
    /\ CanMove(r, from, to)
    /\ ~RequiresLeaseToken(from, to)
    /\ upd # {} => o \in DOMAIN operations /\ reservations[r].op \in {None, o}
    /\ StoreReservations([x \in {r} |-> Moved(reservations[r], to)])
    /\ operations' = Updated(operations, [x \in {y \in {o} : upd # {}} |-> CHOOSE rec \in upd : TRUE])
    /\ UNCHANGED <<clock, issued>>

(* AcquireLease and AcquireLeaseForStatus, with a fresh token. *)
AcquireLease(r, now, ttl) ==
    /\ r \in ActiveIn(reservations)
    /\ NoLiveLease(r, now)
    /\ issued' = issued + 1
    /\ StoreReservations([x \in {r} |->
            [reservations[r] EXCEPT !.token = issued + 1, !.until = now + ttl]])
    /\ UNCHANGED <<clock, operations>>

(* HeartbeatLease and HeartbeatLeaseForStatus. *)
HeartbeatLease(r, token, now, ttl) ==
    /\ r \in DOMAIN reservations
    /\ LeaseHeld(r, token, now)
    /\ StoreReservations([x \in {r} |-> [reservations[r] EXCEPT !.until = now + ttl]])
    /\ UNCHANGED <<clock, issued, operations>>

ClearReservationLease(r, token, now) ==
    /\ r \in DOMAIN reservations
    /\ LeaseHeld(r, token, now)
    /\ StoreReservations([x \in {r} |-> ClearLease(reservations[r])])
    /\ UNCHANGED <<clock, issued, operations>>

-----------------------------------------------------------------------------
(* validateLeasedReservationsForStatusLocked: refs maps each reservation of *)
(* the call to the token the caller holds for it.                           *)
LeasedAt(refs, status, now) ==
    \A r \in DOMAIN refs :
        /\ r \in DOMAIN reservations
        /\ reservations[r].status = status
        /\ LeaseHeld(r, refs[r], now)

(* operationIDsForReservationUpdate and loadLinkedOperationsLocked; a list  *)
(* of the caller passes the link check only when it names the same set.     *)
LinkedOps(refs) == {reservations[r].op : r \in DOMAIN refs} \ {None}

(* validateReservationOperationLinksLocked: every reservation belongs to    *)
(* one of the operations, and no active reservation of one is left out.     *)
LinkedOnly(refs, ops) ==
    ops # {} => \A r \in DOMAIN refs : reservations[r].op \in ops

LinksComplete(refs, ops) ==
    ops # {} => /\ \A r \in DOMAIN refs : reservations[r].op \in ops
                /\ \A r \in ActiveIn(reservations) : reservations[r].op \in ops => r \in DOMAIN refs

(* mergeExpectedProofReadyValue accepts the digest. *)
Merged(old, new) ==
    IF new = None THEN {old} ELSE IF old \in {None, new} THEN {new} ELSE {}

MarkProofReady(refs, digest, now) ==
    LET ops == LinkedOps(refs) IN
    /\ DOMAIN refs # {} /\ Cardinality(ops) <= 1
    /\ LeasedAt(refs, "Proving", now)
    /\ ops \subseteq DOMAIN operations
    /\ LinksComplete(refs, ops)
    /\ \A o \in ops : Merged(operations[o].expected, digest) # {}
    /\ StoreReservations([r \in DOMAIN refs |-> [reservations[r] EXCEPT !.status = "ProofReady"]])
    /\ operations' = Updated(operations, [o \in ops |->
            [operations[o] EXCEPT !.status = "ProofReady",
                !.expected = CHOOSE d \in Merged(operations[o].expected, digest) : TRUE]])
    /\ UNCHANGED <<clock, issued>>

(* MarkReservationsSubmitted and MarkReservationsBroadcastUnknown. *)
MarkBroadcast(status, refs, tx, now) ==
    LET ops == LinkedOps(refs) IN
    /\ DOMAIN refs # {}
    /\ LeasedAt(refs, "ProofReady", now)
    /\ ops \subseteq DOMAIN operations
    /\ LinksComplete(refs, ops)
    /\ StoreReservations([r \in DOMAIN refs |->
            ClearLease([reservations[r] EXCEPT !.status = status, !.tx = tx])])
    /\ operations' = Updated(operations, [o \in ops |->
            [operations[o] EXCEPT !.status = status, !.tx = tx]])
    /\ UNCHANGED <<clock, issued>>

MarkSubmitted(refs, tx, now) == MarkBroadcast("Submitted", refs, tx, now)

MarkBroadcastUnknown(refs, tx, now) == MarkBroadcast("Unknown", refs, tx, now)

CreateOperation(o) ==
    /\ o \notin DOMAIN operations
    /\ operations' = Updated(operations,
            [x \in {o} |-> [status |-> "Planned", tx |-> None, expected |-> None]])
    /\ UNCHANGED <<clock, issued, reservations, activeReservationByKey>>

(* UpdateReservation and UpdateOperation: whole-record overwrites that the  *)
(* Store interface offers and no code of the SDK calls.                     *)
UpdateReservation(r, rec) ==
    /\ r \in DOMAIN reservations
    /\ rec.status \in ActiveStatuses => ~ActiveConflict(r, rec.key)
    /\ StoreReservations([x \in {r} |-> rec])
    /\ UNCHANGED <<clock, issued, operations>>

UpdateOperation(o, rec) ==
    /\ o \in DOMAIN operations
    /\ operations' = Updated(operations, [x \in {o} |-> rec])
    /\ UNCHANGED <<clock, issued, reservations, activeReservationByKey>>

Tick == clock' = clock + 1 /\ UNCHANGED <<issued, reservations, activeReservationByKey, operations>>

-----------------------------------------------------------------------------
NewBatches ==
    UNION {[S -> Keys \X (OperationIDs \cup {None})] : S \in SUBSET ReservationIDs}

RefMaps == UNION {[S -> 1 .. issued] : S \in SUBSET DOMAIN reservations}

OperationCopies == {{}} \cup {{rec} : rec \in PayrollOperation}

(* What Service and the workers above it may ask of the store. *)
ServiceNext ==
    \/ \E new \in NewBatches, newOps \in SUBSET OperationIDs : ReserveBatch(new, newOps)
    \/ \E r \in DOMAIN reservations, from, to \in ReservationStatus :
         \/ Transition(r, from, to)
         \/ \E token \in 1 .. issued, now \in Now : TransitionWithLease(r, token, from, to, now)
         \/ \E o \in OperationIDs, upd \in OperationCopies :
              TransitionWithOperation(r, from, to, o, upd)
    \/ \E r \in DOMAIN reservations, now \in Now, ttl \in Nat \ {0} :
         \/ AcquireLease(r, now, ttl)
         \/ \E token \in 1 .. issued : HeartbeatLease(r, token, now, ttl)
    \/ \E r \in DOMAIN reservations, token \in 1 .. issued, now \in Now :
         ClearReservationLease(r, token, now)
    \/ \E refs \in RefMaps, digest \in Digests \cup {None}, now \in Now :
         MarkProofReady(refs, digest, now)
    \/ \E refs \in RefMaps, tx \in TxIDs, now \in Now :
         MarkSubmitted(refs, tx, now) \/ MarkBroadcastUnknown(refs, tx, now)
    \/ \E o \in OperationIDs : CreateOperation(o)
    \/ Tick

StoreNext ==
    \/ ServiceNext
    \/ \E r \in DOMAIN reservations, rec \in NoteReservation : UpdateReservation(r, rec)
    \/ \E o \in DOMAIN operations, rec \in PayrollOperation : UpdateOperation(o, rec)

ServiceSpec == StoreInit /\ [][ServiceNext]_storeVars

StoreSpec == StoreInit /\ [][StoreNext]_storeVars

-----------------------------------------------------------------------------
(* The type invariant of the store. *)
StoreTypeOK ==
    /\ clock \in Nat \ {0}
    /\ issued \in Nat
    /\ DOMAIN reservations \subseteq ReservationIDs
    /\ \A r \in DOMAIN reservations : reservations[r] \in NoteReservation
    /\ DOMAIN activeReservationByKey \subseteq Keys
    /\ DOMAIN operations \subseteq OperationIDs
    /\ \A o \in DOMAIN operations : operations[o] \in PayrollOperation

(* A note is never held by two live reservations: whatever sequence of      *)
(* reserving, releasing and replanning led here, two active reservations    *)
(* have different active keys.                                              *)
NoNoteReservedTwice ==
    \A r, s \in ActiveIn(reservations) : reservations[r].key = reservations[s].key => r = s

(* The index the conflict check reads is exact: it holds the key of every   *)
(* active reservation and no other, so storeReservationLocked never leaves  *)
(* a stale entry that would block a free note, nor loses a live one.        *)
ActiveIndexExact ==
    /\ \A r \in ActiveIn(reservations) :
         /\ reservations[r].key \in DOMAIN activeReservationByKey
         /\ activeReservationByKey[reservations[r].key] = r
    /\ \A k \in DOMAIN activeReservationByKey :
         /\ activeReservationByKey[k] \in ActiveIn(reservations)
         /\ reservations[activeReservationByKey[k]].key = k

(* A lease never outlives the work it protects: only an active reservation  *)
(* carries a token, with its expiry, and no two carry the same one, so a    *)
(* worker's token opens at most one reservation.                            *)
LeaseShape ==
    /\ \A r \in DOMAIN reservations :
         /\ (reservations[r].token = 0) <=> (reservations[r].until = 0)
         /\ reservations[r].token # 0 => r \in ActiveIn(reservations)
         /\ reservations[r].token <= issued
    /\ \A r, s \in DOMAIN reservations :
         (reservations[r].token = reservations[s].token /\ reservations[r].token # 0) => r = s

(* Every linked operation exists when the workers come to update it. *)
OperationLinked ==
    \A r \in DOMAIN reservations : reservations[r].op \in DOMAIN operations \cup {None}

(* "Worker mutations require a current non-expired lease token": whichever  *)
(* method is called, a reservation starts proving, gets its proof or is     *)
(* recorded as broadcast only from a state where its lease was live when    *)
(* the caller read the clock.                                               *)
AdvanceNeedsLease ==
    [][\A r \in DOMAIN reservations :
         <<reservations[r].status, reservations'[r].status>> \in LeaseEdges =>
            reservations[r].token # 0 /\ reservations[r].until + MaxDelay > clock]_storeVars

(* A live lease is never taken over: a token is replaced by another one     *)
(* only after it expired, so two workers never hold one reservation.        *)
NoLeaseTakeover ==
    [][\A r \in DOMAIN reservations :
         (reservations[r].token # 0 /\ reservations'[r].token \notin {0, reservations[r].token})
            => reservations[r].until <= clock]_storeVars

(* A payroll operation is broadcast whole: the step that records its proof  *)
(* or its broadcast moves every reservation still active for it, so no      *)
(* input of the transaction is left behind in an earlier state.             *)
OperationMovesWhole ==
    [][\A o \in DOMAIN operations :
         LET s == operations'[o].status IN
         (s \in {"ProofReady", "Submitted"} /\ s # operations[o].status) =>
            \A r \in ActiveIn(reservations) :
                reservations[r].op = o => reservations'[r].status = s]_storeVars
=============================================================================
