------------------------- MODULE ReservationProofs --------------------------
(***************************************************************************)
(* Proofs about ReservationStore, for every set of reservations, notes and *)
(* operations, every lease time and every delay of a caller; and about     *)
(* Reconcile over the whole life of a reservation (LifeSpec), for any      *)
(* number of reconcilers, with evidence and copies of any age.             *)
(***************************************************************************)
EXTENDS Reconcile, TLAPS

(* The provers tried on a leaf that names none, and their time limits. *)
USE ZenonT(120), SMTT(120)

(* The inductive invariant: the types and the exact index. *)
IndexInv == StoreTypeOK /\ ActiveIndexExact

WellFormed(upd) ==
    /\ DOMAIN upd \subseteq ReservationIDs
    /\ \A r \in DOMAIN upd : upd[r] \in NoteReservation

(* The records to store do not compete for a key, and no active record      *)
(* outside them has one of their keys.                                      *)
NoClash(upd) ==
    /\ \A r, s \in ActiveIn(upd) : upd[r].key = upd[s].key => r = s
    /\ \A r \in ActiveIn(upd) :
         upd[r].key \in DOMAIN activeReservationByKey => activeReservationByKey[upd[r].key] \in DOMAIN upd

ReservationsTyped ==
    /\ DOMAIN reservations \subseteq ReservationIDs
    /\ \A r \in DOMAIN reservations : reservations[r] \in NoteReservation
    /\ DOMAIN activeReservationByKey \subseteq Keys

(* An exact index leaves no note to two active reservations. *)
LEMMA IndexUnique == ActiveIndexExact => NoNoteReservedTwice
  BY DEF ActiveIndexExact, NoNoteReservedTwice

(* storeReservationLocked keeps the index exact. *)
LEMMA StoreKeepsIndex ==
    ASSUME NEW upd, IndexInv, WellFormed(upd), NoClash(upd), StoreReservations(upd)
    PROVE  ReservationsTyped' /\ ActiveIndexExact'
<1> DEFINE idx == activeReservationByKey
           freed == {reservations[r].key : r \in ActiveIn(reservations) \cap DOMAIN upd}
           added == {upd[r].key : r \in ActiveIn(upd)}
           byKey(k) == {r \in ActiveIn(upd) : upd[r].key = k}
<1>1. reservations' = Updated(reservations, upd)
  BY DEF StoreReservations
<1>2. activeReservationByKey' = [k \in (DOMAIN idx \ freed) \cup added |->
         IF k \in added THEN CHOOSE r \in byKey(k) : TRUE ELSE idx[k]]
  BY ZenonT(120) DEF StoreReservations
<1>3. DOMAIN reservations' = DOMAIN reservations \cup DOMAIN upd
  BY <1>1 DEF Updated
<1>4. \A r \in DOMAIN upd : r \in DOMAIN reservations' /\ reservations'[r] = upd[r]
  BY <1>1 DEF Updated
<1>5. \A r \in DOMAIN reservations \ DOMAIN upd :
         r \in DOMAIN reservations' /\ reservations'[r] = reservations[r]
  BY <1>1 DEF Updated
<1>6. ReservationsTyped'
  <2>1. \A r \in DOMAIN reservations' : reservations'[r] \in NoteReservation
    BY <1>3, <1>4, <1>5 DEF IndexInv, StoreTypeOK, WellFormed
  <2>2. added \subseteq Keys
    BY DEF WellFormed, ActiveIn, NoteReservation
  <2>3. DOMAIN activeReservationByKey' \subseteq Keys
    BY <1>2, <2>2 DEF IndexInv, StoreTypeOK
  <2> QED BY <1>3, <2>1, <2>3 DEF ReservationsTyped, IndexInv, StoreTypeOK, WellFormed
<1>7. \A r : r \in ActiveIn(reservations') <=>
               (r \in ActiveIn(upd) \/ (r \in ActiveIn(reservations) /\ r \notin DOMAIN upd))
  BY <1>3, <1>4, <1>5 DEF ActiveIn
<1>8. ASSUME NEW r \in ActiveIn(upd)
      PROVE  upd[r].key \in DOMAIN activeReservationByKey' /\ activeReservationByKey'[upd[r].key] = r
  <2>1. upd[r].key \in added
    OBVIOUS
  <2>2. byKey(upd[r].key) = {r}
    BY DEF NoClash
  <2>3. (CHOOSE s \in byKey(upd[r].key) : TRUE) = r
    BY <2>2
  <2> QED BY <1>2, <2>1, <2>3
<1>9. ASSUME NEW r \in ActiveIn(reservations), r \notin DOMAIN upd
      PROVE  /\ reservations[r].key \in DOMAIN activeReservationByKey'
             /\ activeReservationByKey'[reservations[r].key] = r
  <2>1. reservations[r].key \in DOMAIN idx /\ idx[reservations[r].key] = r
    BY DEF IndexInv, ActiveIndexExact
  <2>2. reservations[r].key \notin freed
    <3> SUFFICES ASSUME NEW s \in ActiveIn(reservations) \cap DOMAIN upd,
                        reservations[s].key = reservations[r].key
                 PROVE  FALSE
      OBVIOUS
    <3>1. idx[reservations[s].key] = s
      BY DEF IndexInv, ActiveIndexExact
    <3> QED BY <2>1, <3>1, <1>9
  <2>3. reservations[r].key \notin added
    BY <2>1, <1>9 DEF NoClash
  <2> QED BY <1>2, <2>1, <2>2, <2>3
<1>10. ASSUME NEW k \in DOMAIN activeReservationByKey'
       PROVE  /\ activeReservationByKey'[k] \in ActiveIn(reservations')
              /\ reservations'[activeReservationByKey'[k]].key = k
  <2>1. CASE k \in added
    <3>1. PICK r \in ActiveIn(upd) : upd[r].key = k
      BY <2>1
    <3>2. activeReservationByKey'[k] = r
      BY <1>8, <3>1
    <3>3. r \in DOMAIN upd
      BY DEF ActiveIn
    <3> QED BY <1>4, <1>7, <3>1, <3>2, <3>3
  <2>2. CASE k \notin added
    <3>1. k \in DOMAIN idx /\ k \notin freed /\ activeReservationByKey'[k] = idx[k]
      BY <1>2, <2>2
    <3>2. idx[k] \in ActiveIn(reservations) /\ reservations[idx[k]].key = k
      BY <3>1 DEF IndexInv, ActiveIndexExact
    <3>3. idx[k] \notin DOMAIN upd
      BY <3>1, <3>2
    <3>4. idx[k] \in DOMAIN reservations
      BY <3>2 DEF ActiveIn
    <3> QED BY <1>5, <1>7, <3>1, <3>2, <3>3, <3>4
  <2> QED BY <2>1, <2>2
<1>11. \A r \in ActiveIn(reservations') :
         /\ reservations'[r].key \in DOMAIN activeReservationByKey'
         /\ activeReservationByKey'[reservations'[r].key] = r
  <2> TAKE r \in ActiveIn(reservations')
  <2>1. CASE r \in ActiveIn(upd)
    BY <1>4, <1>8, <2>1 DEF ActiveIn
  <2>2. CASE r \in ActiveIn(reservations) /\ r \notin DOMAIN upd
    BY <1>5, <1>9, <2>2 DEF ActiveIn
  <2> QED BY <1>7, <2>1, <2>2
<1>12. ActiveIndexExact'
  BY <1>10, <1>11 DEF ActiveIndexExact
<1> QED BY <1>6, <1>12

(* One record may be stored unless another one is active on its key. *)
LEMMA SingleNoClash ==
    ASSUME IndexInv, NEW r \in DOMAIN reservations, NEW rec \in NoteReservation,
           rec.status \in ActiveStatuses => ~ActiveConflict(r, rec.key)
    PROVE  WellFormed([x \in {r} |-> rec]) /\ NoClash([x \in {r} |-> rec])
  BY DEF IndexInv, StoreTypeOK, WellFormed, NoClash, ActiveIn, ActiveConflict

(* Active records may change anything but their keys. *)
LEMMA SameKeysNoClash ==
    ASSUME IndexInv, NEW upd, DOMAIN upd \subseteq ActiveIn(reservations),
           \A r \in DOMAIN upd : upd[r] \in NoteReservation /\ upd[r].key = reservations[r].key
    PROVE  WellFormed(upd) /\ NoClash(upd)
<1>1. WellFormed(upd)
  BY DEF IndexInv, StoreTypeOK, WellFormed, ActiveIn
<1>2. \A r \in DOMAIN upd : activeReservationByKey[upd[r].key] = r
  BY DEF IndexInv, ActiveIndexExact
<1>3. ActiveIn(upd) \subseteq DOMAIN upd
  BY DEF ActiveIn
<1>4. NoClash(upd)
  BY <1>2, <1>3 DEF NoClash
<1> QED BY <1>1, <1>4

-----------------------------------------------------------------------------
(* What a service call does besides storing records. *)
RestTyped ==
    /\ clock' \in Nat \ {0}
    /\ issued' \in Nat /\ issued <= issued'
    /\ DOMAIN operations \subseteq DOMAIN operations'
    /\ DOMAIN operations' \subseteq OperationIDs
    /\ \A o \in DOMAIN operations' : operations'[o] \in PayrollOperation

(* How a service call may touch leases, links and statuses: a record keeps  *)
(* its token, loses it, or alone receives the next one when its own has     *)
(* expired; and a lease edge is taken only under a live lease.              *)
LeaseLive(r) == reservations[r].token # 0 /\ reservations[r].until + MaxDelay > clock

TokenFit(r, upd) ==
    \/ upd[r].token = 0
    \/ r \in DOMAIN reservations /\ upd[r].token = reservations[r].token
    \/ /\ upd[r].token = issued + 1 /\ issued' = issued + 1 /\ DOMAIN upd = {r}
       /\ r \in DOMAIN reservations
       /\ reservations[r].token = 0 \/ reservations[r].until <= clock

ServiceFit(upd) ==
    \A r \in DOMAIN upd :
        /\ (upd[r].token = 0) <=> (upd[r].until = 0)
        /\ upd[r].token # 0 => upd[r].status \in ActiveStatuses
        /\ upd[r].op \in DOMAIN operations' \cup {None}
        /\ TokenFit(r, upd)
        /\ (r \in DOMAIN reservations /\ <<reservations[r].status, upd[r].status>> \in LeaseEdges)
              => LeaseLive(r)

StoreInv == IndexInv /\ LeaseShape /\ OperationLinked

ServiceUpdate ==
    \E upd : /\ StoreReservations(upd) /\ WellFormed(upd) /\ NoClash(upd) /\ ServiceFit(upd)
             /\ RestTyped

(* A caller's clock reading is a time, not after the clock, and recent. *)
LEMMA NowBounds ==
    ASSUME StoreTypeOK, NEW now \in Now
    PROVE  now \in Nat /\ 1 <= now /\ now <= clock /\ clock \in Nat /\ now + MaxDelay >= clock
  BY SMTT(120), StoreAssumption DEF Now, StoreTypeOK

(* A held lease is live up to the caller's delay. *)
LEMMA HeldIsLive ==
    ASSUME StoreTypeOK, NEW r \in DOMAIN reservations, NEW token, NEW now \in Now, LeaseHeld(r, token, now)
    PROVE  LeaseLive(r)
<1>1. reservations[r].until \in Nat
  BY DEF StoreTypeOK, NoteReservation
<1> QED BY <1>1, NowBounds, StoreAssumption DEF LeaseHeld, LeaseLive

(* Clearing a lease touches the lease fields only. *)
LEMMA ClearedRecord ==
    ASSUME NEW rec \in NoteReservation
    PROVE  /\ ClearLease(rec) \in NoteReservation
           /\ ClearLease(rec).token = 0 /\ ClearLease(rec).until = 0
           /\ ClearLease(rec).status = rec.status /\ ClearLease(rec).key = rec.key
           /\ ClearLease(rec).op = rec.op
<1> DEFINE c == [rec EXCEPT !.token = 0]
<1>1. c \in NoteReservation /\ c.token = 0
      /\ c.status = rec.status /\ c.key = rec.key /\ c.op = rec.op
  BY DEF NoteReservation
<1>2. ClearLease(rec) = [c EXCEPT !.until = 0]
  BY DEF ClearLease
<1> HIDE DEF c
<1> QED BY <1>1, <1>2 DEF NoteReservation

(* A status change of one record, as clearLeaseForStatusTransition does it. *)
LEMMA MovedRecord ==
    ASSUME StoreInv, NEW r \in DOMAIN reservations, NEW to \in ReservationStatus
    PROVE  LET m == Moved(reservations[r], to) IN
           /\ m \in NoteReservation
           /\ m.status = to /\ m.key = reservations[r].key /\ m.op = reservations[r].op
           /\ m.token \in {0, reservations[r].token}
           /\ (m.token = 0) <=> (m.until = 0)
           /\ m.token # 0 => to \in ActiveStatuses
<1> DEFINE m == Moved(reservations[r], to)
<1>1. reservations[r] \in NoteReservation
  BY DEF StoreInv, IndexInv, StoreTypeOK
<1>2. (reservations[r].token = 0) <=> (reservations[r].until = 0)
  BY DEF StoreInv, LeaseShape
<1>3. CASE to \in {"Proving", "ProofReady"}
  <2>1. m = [reservations[r] EXCEPT !.status = to]
    BY <1>3 DEF Moved
  <2> QED BY <1>1, <1>2, <1>3, <2>1 DEF NoteReservation, ActiveStatuses
<1>4. CASE to \notin {"Proving", "ProofReady"}
  <2> DEFINE n == [reservations[r] EXCEPT !.status = to]
  <2>1. m = ClearLease(n)
    BY <1>4 DEF Moved
  <2>2. n \in NoteReservation /\ n.status = to /\ n.key = reservations[r].key /\ n.op = reservations[r].op
    BY <1>1 DEF NoteReservation
  <2> HIDE DEF n, m
  <2> QED BY <2>1, <2>2, ClearedRecord DEF m
<1> QED BY <1>3, <1>4

(* The compare-and-set methods, with or without a lease and an operation:   *)
(* a lease edge needs a live lease.                                         *)
LEMMA MoveFits ==
    ASSUME StoreInv, NEW r, NEW from \in ReservationStatus, NEW to \in ReservationStatus,
           CanMove(r, from, to),
           <<from, to>> \in LeaseEdges => LeaseLive(r),
           StoreReservations([x \in {r} |-> Moved(reservations[r], to)]),
           RestTyped
    PROVE  ServiceUpdate
<1> DEFINE m == Moved(reservations[r], to)
           upd == [x \in {r} |-> m]
<1>1. r \in DOMAIN reservations /\ reservations[r].status = from
      /\ (to \in ActiveStatuses => ~ActiveConflict(r, reservations[r].key))
  BY DEF CanMove
<1>2. /\ m \in NoteReservation
      /\ m.status = to /\ m.key = reservations[r].key /\ m.op = reservations[r].op
      /\ m.token \in {0, reservations[r].token}
      /\ (m.token = 0) <=> (m.until = 0)
      /\ m.token # 0 => to \in ActiveStatuses
  BY <1>1, MovedRecord
<1> HIDE DEF m
<1>3. WellFormed(upd) /\ NoClash(upd)
  BY <1>1, <1>2, SingleNoClash DEF StoreInv
<1>4. m.op \in DOMAIN operations' \cup {None}
  BY <1>1, <1>2 DEF StoreInv, OperationLinked, RestTyped
<1>5. DOMAIN upd = {r} /\ upd[r] = m
  OBVIOUS
<1>6. ServiceFit(upd)
  BY <1>1, <1>2, <1>4, <1>5 DEF ServiceFit, TokenFit
<1>7. StoreReservations(upd)
  BY DEF m
<1> QED BY <1>3, <1>6, <1>7 DEF ServiceUpdate

-----------------------------------------------------------------------------
(* Writing well-typed operations keeps the rest of the store well typed. *)
LEMMA OperationsWritten ==
    ASSUME StoreTypeOK, NEW upd, DOMAIN upd \subseteq OperationIDs,
           \A o \in DOMAIN upd : upd[o] \in PayrollOperation,
           operations' = Updated(operations, upd), UNCHANGED <<clock, issued>>
    PROVE  RestTyped /\ DOMAIN operations' = DOMAIN operations \cup DOMAIN upd
  BY DEF StoreTypeOK, RestTyped, Updated

(* Leaving clock, tokens and operations alone keeps them well typed. *)
LEMMA RestUnchanged ==
    ASSUME StoreTypeOK, UNCHANGED <<clock, issued, operations>>
    PROVE  RestTyped
  BY DEF StoreTypeOK, RestTyped

(* CreateReservationBatch stores fresh, unleased, linked records on free    *)
(* keys.                                                                    *)
LEMMA ReserveBatchFits ==
    ASSUME StoreInv, NEW new \in NewBatches, NEW newOps \in SUBSET OperationIDs, ReserveBatch(new, newOps)
    PROVE  ServiceUpdate
<1> DEFINE rec(r) == [status |-> "Reserved", key |-> new[r][1], op |-> new[r][2],
                      token |-> 0, until |-> 0, tx |-> None]
           upd == [r \in DOMAIN new |-> rec(r)]
           ops == [o \in newOps |-> [status |-> "Planned", tx |-> None, expected |-> None]]
<1>1. /\ DOMAIN new \subseteq ReservationIDs
      /\ \A r \in DOMAIN new : new[r] \in Keys \X (OperationIDs \cup {None})
  BY SMTT(120) DEF NewBatches
<1>2. StoreReservations(upd)
  BY DEF ReserveBatch
<1>3. RestTyped /\ DOMAIN operations' = DOMAIN operations \cup newOps
  <2>1. \A o \in newOps : ops[o] \in PayrollOperation
    BY DEF PayrollOperation, OperationStatus
  <2>2. operations' = Updated(operations, ops) /\ UNCHANGED <<clock, issued>>
    BY DEF ReserveBatch
  <2>3. DOMAIN ops = newOps
    OBVIOUS
  <2> HIDE DEF ops
  <2> QED BY <2>1, <2>2, <2>3, OperationsWritten DEF StoreInv, IndexInv
<1>4. \A r \in DOMAIN new : rec(r) \in NoteReservation
  BY <1>1 DEF NoteReservation, ReservationStatus
<1>5. DOMAIN upd = DOMAIN new /\ \A r \in DOMAIN new : upd[r] = rec(r)
  OBVIOUS
<1>6. \A r \in DOMAIN new : upd[r].key = new[r][1] /\ upd[r].op = new[r][2]
                            /\ upd[r].token = 0 /\ upd[r].until = 0
  OBVIOUS
<1> HIDE DEF upd
<1>7. WellFormed(upd)
  BY <1>1, <1>4, <1>5 DEF WellFormed
<1>8. NoClash(upd)
  BY SMTT(120), <1>5, <1>6 DEF NoClash, ActiveIn, ReserveBatch, KeysFree
<1>9. ServiceFit(upd)
  <2>1. \A r \in DOMAIN new : r \notin DOMAIN reservations
    BY DEF ReserveBatch
  <2>2. \A r \in DOMAIN new : new[r][2] \in DOMAIN operations' \cup {None}
    BY <1>3 DEF ReserveBatch, LinksExist
  <2> QED BY <1>5, <1>6, <2>1, <2>2 DEF ServiceFit, TokenFit
<1> QED BY <1>2, <1>3, <1>7, <1>8, <1>9 DEF ServiceUpdate

(* Service.Transition moves one record along an edge that needs no lease. *)
LEMMA TransitionFits ==
    ASSUME StoreInv, NEW r, NEW from \in ReservationStatus, NEW to \in ReservationStatus,
           Transition(r, from, to)
    PROVE  ServiceUpdate
<1>1. RestTyped
  BY RestUnchanged DEF Transition, StoreInv, IndexInv
<1> QED BY <1>1, MoveFits DEF Transition, RequiresLeaseToken

(* Service.TransitionWithLease moves one record whose lease is held. *)
LEMMA TransitionWithLeaseFits ==
    ASSUME StoreInv, NEW r, NEW token, NEW now \in Now,
           NEW from \in ReservationStatus, NEW to \in ReservationStatus,
           TransitionWithLease(r, token, from, to, now)
    PROVE  ServiceUpdate
<1>1. RestTyped
  BY RestUnchanged DEF TransitionWithLease, StoreInv, IndexInv
<1>2. LeaseLive(r)
  BY HeldIsLive DEF TransitionWithLease, CanMove, StoreInv, IndexInv
<1> QED BY <1>1, <1>2, MoveFits DEF TransitionWithLease

(* The reconciler's compare-and-set moves one record and writes the         *)
(* operation with it.                                                       *)
LEMMA TransitionWithOperationFits ==
    ASSUME StoreInv, NEW r, NEW from \in ReservationStatus, NEW to \in ReservationStatus,
           NEW o, NEW upd \in OperationCopies,
           TransitionWithOperation(r, from, to, o, upd)
    PROVE  ServiceUpdate
<1> DEFINE ops == [x \in {y \in {o} : upd # {}} |-> CHOOSE rec \in upd : TRUE]
<1>1. operations' = Updated(operations, ops) /\ UNCHANGED <<clock, issued>>
  BY DEF TransitionWithOperation
<1>2. upd # {} => (CHOOSE rec \in upd : TRUE) \in PayrollOperation
  BY DEF OperationCopies
<1>3. DOMAIN ops \subseteq OperationIDs /\ \A x \in DOMAIN ops : ops[x] \in PayrollOperation
  BY <1>2 DEF TransitionWithOperation, StoreInv, IndexInv, StoreTypeOK
<1> HIDE DEF ops
<1>4. RestTyped
  BY <1>1, <1>3, OperationsWritten DEF StoreInv, IndexInv
<1> QED BY <1>4, MoveFits DEF TransitionWithOperation, RequiresLeaseToken

-----------------------------------------------------------------------------
(* A step that stores one record of an active reservation, with its status, *)
(* key and link unchanged.                                                  *)
LEMMA LeaseChangeFits ==
    ASSUME StoreInv, NEW r \in ActiveIn(reservations), NEW rec \in NoteReservation,
           rec.status = reservations[r].status, rec.key = reservations[r].key, rec.op = reservations[r].op,
           (rec.token = 0) <=> (rec.until = 0),
           TokenFit(r, [x \in {r} |-> rec]),
           StoreReservations([x \in {r} |-> rec]), RestTyped
    PROVE  ServiceUpdate
<1> DEFINE upd == [x \in {r} |-> rec]
<1>1. r \in DOMAIN reservations /\ reservations[r].status \in ActiveStatuses
  BY DEF ActiveIn
<1>2. DOMAIN upd = {r} /\ upd[r] = rec
  OBVIOUS
<1> HIDE DEF upd
<1>3. WellFormed(upd) /\ NoClash(upd)
  BY <1>2, SameKeysNoClash DEF StoreInv
<1>4. rec.op \in DOMAIN operations' \cup {None}
  BY <1>1 DEF StoreInv, OperationLinked, RestTyped
<1>5. <<reservations[r].status, rec.status>> \notin LeaseEdges
  BY DEF LeaseEdges
<1>6. ServiceFit(upd)
  BY <1>1, <1>2, <1>4, <1>5 DEF ServiceFit, upd
<1> QED BY <1>3, <1>6 DEF ServiceUpdate, upd

(* Acquiring gives a fresh token to a record without a live lease. *)
LEMMA AcquireLeaseFits ==
    ASSUME StoreInv, NEW r \in DOMAIN reservations, NEW now \in Now, NEW ttl \in Nat \ {0},
           AcquireLease(r, now, ttl)
    PROVE  ServiceUpdate
<1> DEFINE rec == [reservations[r] EXCEPT !.token = issued + 1, !.until = now + ttl]
           upd == [x \in {r} |-> rec]
<1>1. reservations[r] \in NoteReservation /\ issued \in Nat /\ StoreTypeOK
  BY DEF StoreInv, IndexInv, StoreTypeOK
<1>2. now + ttl \in Nat /\ now + ttl # 0 /\ now <= clock
  BY <1>1, NowBounds
<1>3. /\ rec \in NoteReservation /\ rec.status = reservations[r].status
      /\ rec.key = reservations[r].key /\ rec.op = reservations[r].op
      /\ rec.token = issued + 1 /\ rec.until = now + ttl
  <2> DEFINE n == [reservations[r] EXCEPT !.token = issued + 1]
  <2>1. n \in NoteReservation /\ n.token = issued + 1 /\ n.status = reservations[r].status
        /\ n.key = reservations[r].key /\ n.op = reservations[r].op
    BY SMTT(120), <1>1 DEF NoteReservation
  <2>2. rec = [n EXCEPT !.until = now + ttl]
    OBVIOUS
  <2> HIDE DEF n, rec
  <2> QED BY <1>2, <2>1, <2>2 DEF NoteReservation
<1>4. StoreReservations(upd) /\ issued' = issued + 1 /\ UNCHANGED <<clock, operations>>
  BY DEF AcquireLease
<1>5. RestTyped
  BY <1>1, <1>4 DEF RestTyped, StoreTypeOK
<1>6. reservations[r].token = 0 \/ reservations[r].until <= clock
  <2>1. reservations[r].until \in Nat /\ clock \in Nat
    BY <1>1 DEF NoteReservation, StoreTypeOK
  <2> QED BY <1>1, <1>2, <2>1, NowBounds DEF AcquireLease, NoLiveLease
<1>7. TokenFit(r, upd)
  BY <1>3, <1>4, <1>6 DEF TokenFit
<1>8. r \in ActiveIn(reservations)
  BY DEF AcquireLease
<1>9. rec.token # 0 /\ rec.until # 0
  BY <1>1, <1>2, <1>3
<1> HIDE DEF rec
<1> QED BY <1>3, <1>4, <1>5, <1>7, <1>8, <1>9, LeaseChangeFits

(* A heartbeat keeps the token and moves the expiry. *)
LEMMA HeartbeatFits ==
    ASSUME StoreInv, NEW r \in DOMAIN reservations, NEW token, NEW now \in Now, NEW ttl \in Nat \ {0},
           HeartbeatLease(r, token, now, ttl)
    PROVE  ServiceUpdate
<1> DEFINE rec == [reservations[r] EXCEPT !.until = now + ttl]
           upd == [x \in {r} |-> rec]
<1>1. reservations[r] \in NoteReservation /\ StoreTypeOK
  BY DEF StoreInv, IndexInv, StoreTypeOK
<1>2. now + ttl \in Nat /\ now + ttl # 0
  BY <1>1, NowBounds
<1>3. /\ rec \in NoteReservation /\ rec.status = reservations[r].status
      /\ rec.key = reservations[r].key /\ rec.op = reservations[r].op
      /\ rec.token = reservations[r].token /\ rec.until = now + ttl
  BY <1>1, <1>2 DEF NoteReservation
<1>4. reservations[r].token # 0 /\ r \in ActiveIn(reservations)
  BY DEF HeartbeatLease, LeaseHeld, StoreInv, LeaseShape
<1>5. RestTyped
  BY <1>1, RestUnchanged DEF HeartbeatLease
<1>6. TokenFit(r, upd) /\ StoreReservations(upd)
  BY <1>3 DEF TokenFit, HeartbeatLease
<1> HIDE DEF rec
<1> QED BY <1>2, <1>3, <1>4, <1>5, <1>6, LeaseChangeFits

(* Clearing removes the token and its expiry together. *)
LEMMA ClearLeaseFits ==
    ASSUME StoreInv, NEW r \in DOMAIN reservations, NEW token, NEW now \in Now,
           ClearReservationLease(r, token, now)
    PROVE  ServiceUpdate
<1> DEFINE rec == ClearLease(reservations[r])
           upd == [x \in {r} |-> rec]
<1>1. reservations[r] \in NoteReservation /\ StoreTypeOK
  BY DEF StoreInv, IndexInv, StoreTypeOK
<1>2. /\ rec \in NoteReservation /\ rec.status = reservations[r].status
      /\ rec.key = reservations[r].key /\ rec.op = reservations[r].op
      /\ rec.token = 0 /\ rec.until = 0
  BY <1>1, ClearedRecord
<1>3. r \in ActiveIn(reservations)
  BY DEF ClearReservationLease, LeaseHeld, StoreInv, LeaseShape
<1>4. RestTyped
  BY <1>1, RestUnchanged DEF ClearReservationLease
<1>5. TokenFit(r, upd) /\ StoreReservations(upd)
  BY <1>2 DEF TokenFit, ClearReservationLease
<1> HIDE DEF rec
<1> QED BY <1>2, <1>3, <1>4, <1>5, LeaseChangeFits

(* Leased reservations that move together and keep their keys and links,    *)
(* and whose lease is kept or cleared.                                      *)
LEMMA LeasedBatchFits ==
    ASSUME StoreInv, NEW refs, NEW status, NEW now \in Now, LeasedAt(refs, status, now),
           NEW upd, DOMAIN upd = DOMAIN refs,
           \A r \in DOMAIN upd :
              /\ upd[r] \in NoteReservation
              /\ upd[r].key = reservations[r].key /\ upd[r].op = reservations[r].op
              /\ (upd[r].token = 0) <=> (upd[r].until = 0)
              /\ upd[r].token \in {0, reservations[r].token}
              /\ upd[r].token # 0 => upd[r].status \in ActiveStatuses,
           StoreReservations(upd), RestTyped
    PROVE  ServiceUpdate
<1>1. \A r \in DOMAIN upd : r \in DOMAIN reservations /\ LeaseHeld(r, refs[r], now)
  BY DEF LeasedAt
<1>2. \A r \in DOMAIN upd : LeaseLive(r)
  BY <1>1, HeldIsLive DEF StoreInv, IndexInv
<1>3. DOMAIN upd \subseteq ActiveIn(reservations)
  BY SMTT(120), <1>1 DEF LeaseHeld, StoreInv, LeaseShape
<1>4. WellFormed(upd) /\ NoClash(upd)
  BY <1>3, SameKeysNoClash DEF StoreInv
<1>5. \A r \in DOMAIN upd : upd[r].op \in DOMAIN operations' \cup {None}
  BY <1>1 DEF StoreInv, OperationLinked, RestTyped
<1>6. \A r \in DOMAIN upd : TokenFit(r, upd)
  BY <1>1 DEF TokenFit
<1>7. ServiceFit(upd)
  BY <1>2, <1>5, <1>6 DEF ServiceFit
<1> QED BY <1>4, <1>7 DEF ServiceUpdate

(* MarkReservationsProofReady is a legal update. *)
LEMMA MarkProofReadyFits ==
    ASSUME StoreInv, NEW refs, NEW digest \in Digests \cup {None}, NEW now \in Now,
           MarkProofReady(refs, digest, now)
    PROVE  ServiceUpdate
<1> DEFINE upd == [r \in DOMAIN refs |-> [reservations[r] EXCEPT !.status = "ProofReady"]]
           new(o) == [operations[o] EXCEPT !.status = "ProofReady",
                         !.expected = CHOOSE d \in Merged(operations[o].expected, digest) : TRUE]
           ops == [o \in LinkedOps(refs) |-> new(o)]
<1>1. /\ LeasedAt(refs, "Proving", now) /\ StoreReservations(upd)
      /\ operations' = Updated(operations, ops) /\ UNCHANGED <<clock, issued>>
      /\ LinkedOps(refs) \subseteq DOMAIN operations
  BY DEF MarkProofReady
<1>2. \A o \in LinkedOps(refs) : new(o) \in PayrollOperation
  <2> TAKE o \in LinkedOps(refs)
  <2> DEFINE d == CHOOSE x \in Merged(operations[o].expected, digest) : TRUE
  <2>1. operations[o] \in PayrollOperation
    BY <1>1 DEF StoreInv, IndexInv, StoreTypeOK
  <2>2. Merged(operations[o].expected, digest) # {}
    BY DEF MarkProofReady
  <2>3. d \in Digests \cup {None}
    BY <2>1, <2>2 DEF Merged, PayrollOperation
  <2> HIDE DEF d
  <2>4. new(o) = [[operations[o] EXCEPT !.status = "ProofReady"] EXCEPT !.expected = d]
    BY DEF d
  <2> DEFINE u == [operations[o] EXCEPT !.status = "ProofReady"]
  <2>5. u \in PayrollOperation
    BY <2>1 DEF PayrollOperation, OperationStatus
  <2> HIDE DEF u
  <2>6. [u EXCEPT !.expected = d] \in PayrollOperation
    BY <2>3, <2>5 DEF PayrollOperation
  <2> QED BY ZenonT(120), <2>4, <2>6 DEF u
<1>3. DOMAIN ops = LinkedOps(refs) /\ \A o \in DOMAIN ops : ops[o] \in PayrollOperation
  BY <1>2
<1> HIDE DEF ops
<1>4. RestTyped
  <2>1. DOMAIN ops \subseteq OperationIDs
    BY <1>1, <1>3 DEF StoreInv, IndexInv, StoreTypeOK
  <2> QED BY <1>1, <1>3, <2>1, OperationsWritten DEF StoreInv, IndexInv
<1>5. DOMAIN upd = DOMAIN refs
  OBVIOUS
<1>6. ASSUME NEW r \in DOMAIN refs
      PROVE  /\ upd[r] \in NoteReservation /\ upd[r].status = "ProofReady"
             /\ upd[r].key = reservations[r].key /\ upd[r].op = reservations[r].op
             /\ (upd[r].token = 0) <=> (upd[r].until = 0)
             /\ upd[r].token = reservations[r].token
  <2>1. r \in DOMAIN reservations /\ reservations[r] \in NoteReservation
    BY <1>1 DEF LeasedAt, StoreInv, IndexInv, StoreTypeOK
  <2>2. (reservations[r].token = 0) <=> (reservations[r].until = 0)
    BY <2>1 DEF StoreInv, LeaseShape
  <2>3. upd[r] = [reservations[r] EXCEPT !.status = "ProofReady"]
    OBVIOUS
  <2> QED BY <2>1, <2>2, <2>3 DEF NoteReservation, ReservationStatus
<1> HIDE DEF upd
<1>7. "ProofReady" \in ActiveStatuses
  BY DEF ActiveStatuses
<1> QED BY <1>1, <1>4, <1>5, <1>6, <1>7, LeasedBatchFits

(* MarkReservationsSubmitted and MarkReservationsBroadcastUnknown are legal  *)
(* updates.                                                                 *)
LEMMA MarkBroadcastFits ==
    ASSUME StoreInv, NEW status \in {"Submitted", "Unknown"}, NEW refs, NEW tx \in TxIDs, NEW now \in Now,
           MarkBroadcast(status, refs, tx, now)
    PROVE  ServiceUpdate
<1> DEFINE mv(r) == [reservations[r] EXCEPT !.status = status, !.tx = tx]
           upd == [r \in DOMAIN refs |-> ClearLease(mv(r))]
           new(o) == [operations[o] EXCEPT !.status = status, !.tx = tx]
           ops == [o \in LinkedOps(refs) |-> new(o)]
<1>1. /\ LeasedAt(refs, "ProofReady", now) /\ StoreReservations(upd)
      /\ operations' = Updated(operations, ops) /\ UNCHANGED <<clock, issued>>
      /\ LinkedOps(refs) \subseteq DOMAIN operations
  BY DEF MarkBroadcast
<1>2. \A o \in LinkedOps(refs) : new(o) \in PayrollOperation
  <2> TAKE o \in LinkedOps(refs)
  <2>1. operations[o] \in PayrollOperation
    BY <1>1 DEF StoreInv, IndexInv, StoreTypeOK
  <2>2. new(o) = [[operations[o] EXCEPT !.status = status] EXCEPT !.tx = tx]
    OBVIOUS
  <2> QED BY ZenonT(120), <2>1, <2>2 DEF PayrollOperation, OperationStatus
<1>3. DOMAIN ops = LinkedOps(refs) /\ \A o \in DOMAIN ops : ops[o] \in PayrollOperation
  BY <1>2
<1> HIDE DEF ops
<1>4. RestTyped
  <2>1. DOMAIN ops \subseteq OperationIDs
    BY <1>1, <1>3 DEF StoreInv, IndexInv, StoreTypeOK
  <2> QED BY <1>1, <1>3, <2>1, OperationsWritten DEF StoreInv, IndexInv
<1>5. DOMAIN upd = DOMAIN refs
  OBVIOUS
<1>6. ASSUME NEW r \in DOMAIN refs
      PROVE  /\ upd[r] \in NoteReservation
             /\ upd[r].key = reservations[r].key /\ upd[r].op = reservations[r].op
             /\ upd[r].until = 0 /\ upd[r].token = 0
  <2>1. reservations[r] \in NoteReservation
    BY <1>1 DEF LeasedAt, StoreInv, IndexInv, StoreTypeOK
  <2>2. mv(r) = [[reservations[r] EXCEPT !.status = status] EXCEPT !.tx = tx]
    OBVIOUS
  <2>3. /\ mv(r) \in NoteReservation /\ mv(r).key = reservations[r].key
        /\ mv(r).op = reservations[r].op
    BY <2>1, <2>2 DEF NoteReservation, ReservationStatus
  <2>4. upd[r] = ClearLease(mv(r))
    OBVIOUS
  <2> HIDE DEF mv, upd
  <2> QED BY SMTT(120), <2>3, <2>4, ClearedRecord
<1> HIDE DEF upd
<1> QED BY <1>1, <1>4, <1>5, <1>6, LeasedBatchFits

-----------------------------------------------------------------------------
(* What AdvanceNeedsLease and NoLeaseTakeover ask of one step. *)
AdvanceStep ==
    \A r \in DOMAIN reservations :
        <<reservations[r].status, reservations'[r].status>> \in LeaseEdges => LeaseLive(r)

TakeoverStep ==
    \A r \in DOMAIN reservations :
        (reservations[r].token # 0 /\ reservations'[r].token \notin {0, reservations[r].token})
            => reservations[r].until <= clock

(* Every legal update keeps the invariant, advances only leased records and *)
(* replaces only expired tokens.                                            *)
LEMMA ServiceUpdateInv ==
    ASSUME StoreInv, ServiceUpdate
    PROVE  StoreInv' /\ AdvanceStep /\ TakeoverStep
<1>1. PICK upd : /\ StoreReservations(upd) /\ WellFormed(upd) /\ NoClash(upd) /\ ServiceFit(upd)
                 /\ RestTyped
  BY DEF ServiceUpdate
<1>2. ReservationsTyped' /\ ActiveIndexExact'
  BY <1>1, StoreKeepsIndex DEF StoreInv
<1>3. IndexInv'
  BY <1>1, <1>2 DEF IndexInv, ReservationsTyped, RestTyped, StoreTypeOK
<1>4. /\ DOMAIN reservations' = DOMAIN reservations \cup DOMAIN upd
      /\ \A r \in DOMAIN upd : reservations'[r] = upd[r]
      /\ \A r \in DOMAIN reservations \ DOMAIN upd : reservations'[r] = reservations[r]
  BY <1>1 DEF StoreReservations, Updated
<1>5. issued \in Nat /\ issued' \in Nat /\ issued <= issued'
  BY <1>1 DEF RestTyped, StoreInv, IndexInv, StoreTypeOK
<1>6. \A r \in DOMAIN reservations : reservations[r].token \in Nat /\ reservations[r].token <= issued
  BY DEF StoreInv, IndexInv, StoreTypeOK, NoteReservation, LeaseShape
<1>7. \A r \in DOMAIN upd : upd[r].token \in Nat
  BY <1>1 DEF WellFormed, NoteReservation
<1>8. LeaseShape'
  <2>1. ASSUME NEW r \in DOMAIN reservations'
        PROVE  /\ (reservations'[r].token = 0) <=> (reservations'[r].until = 0)
               /\ reservations'[r].token # 0 => reservations'[r].status \in ActiveStatuses
               /\ reservations'[r].token <= issued'
    <3>1. CASE r \in DOMAIN upd
      <4>1. upd[r].token <= issued'
        <5>1. TokenFit(r, upd)
          BY <1>1, <3>1 DEF ServiceFit
        <5>2. CASE upd[r].token = 0
          BY <1>5, <5>2
        <5>3. CASE r \in DOMAIN reservations /\ upd[r].token = reservations[r].token
          BY <1>5, <1>6, <5>3
        <5>4. CASE upd[r].token = issued + 1 /\ issued' = issued + 1
          BY <1>5, <5>4
        <5> QED BY <5>1, <5>2, <5>3, <5>4 DEF TokenFit
      <4> QED BY <1>1, <1>4, <3>1, <4>1 DEF ServiceFit
    <3>2. CASE r \notin DOMAIN upd
      <4>1. r \in DOMAIN reservations /\ reservations'[r] = reservations[r]
        BY <1>4, <3>2
      <4> QED BY SMTT(120), <1>5, <1>6, <4>1 DEF StoreInv, LeaseShape, ActiveIn
    <3> QED BY <3>1, <3>2
  <2>2. \A r \in DOMAIN reservations' :
          \/ reservations'[r].token = 0
          \/ r \in DOMAIN reservations /\ reservations'[r].token = reservations[r].token
          \/ reservations'[r].token = issued + 1 /\ DOMAIN upd = {r}
    BY <1>1, <1>4 DEF ServiceFit, TokenFit
  <2>3. ASSUME NEW r \in DOMAIN reservations', NEW s \in DOMAIN reservations',
               reservations'[r].token = reservations'[s].token, reservations'[r].token # 0
        PROVE  r = s
    <3>1. CASE r \in DOMAIN reservations /\ reservations'[r].token = reservations[r].token
               /\ s \in DOMAIN reservations /\ reservations'[s].token = reservations[s].token
      BY <2>3, <3>1 DEF StoreInv, LeaseShape
    <3>2. CASE DOMAIN upd = {r} /\ DOMAIN upd = {s}
      BY <3>2
    <3>3. \A x \in DOMAIN reservations : reservations[x].token # issued + 1
      BY <1>5, <1>6
    <3> QED BY <2>2, <2>3, <3>1, <3>2, <3>3
  <2> QED BY <2>1, <2>3 DEF LeaseShape, ActiveIn
<1>9. OperationLinked'
  <2> SUFFICES ASSUME NEW r \in DOMAIN reservations'
               PROVE  reservations'[r].op \in DOMAIN operations' \cup {None}
    BY DEF OperationLinked
  <2>1. CASE r \in DOMAIN upd
    BY <1>1, <1>4, <2>1 DEF ServiceFit
  <2>2. CASE r \notin DOMAIN upd
    BY <1>1, <1>4, <2>2 DEF StoreInv, OperationLinked, RestTyped
  <2> QED BY <2>1, <2>2
<1>10. AdvanceStep
  <2> SUFFICES ASSUME NEW r \in DOMAIN reservations,
                      <<reservations[r].status, reservations'[r].status>> \in LeaseEdges
               PROVE  LeaseLive(r)
    BY DEF AdvanceStep
  <2>1. CASE r \in DOMAIN upd
    BY <1>1, <1>4, <2>1 DEF ServiceFit
  <2>2. CASE r \notin DOMAIN upd
    BY <1>4, <2>2 DEF LeaseEdges
  <2> QED BY <2>1, <2>2
<1>11. TakeoverStep
  <2> SUFFICES ASSUME NEW r \in DOMAIN reservations, reservations[r].token # 0,
                      reservations'[r].token \notin {0, reservations[r].token}
               PROVE  reservations[r].until <= clock
    BY DEF TakeoverStep
  <2>1. r \in DOMAIN upd
    BY <1>4
  <2> QED BY <1>1, <1>4, <2>1 DEF ServiceFit, TokenFit
<1> QED BY <1>3, <1>8, <1>9, <1>10, <1>11 DEF StoreInv

(* A step that leaves the reservations alone keeps everything. *)
LEMMA QuietStepInv ==
    ASSUME StoreInv, UNCHANGED <<reservations, activeReservationByKey>>, RestTyped
    PROVE  StoreInv' /\ AdvanceStep /\ TakeoverStep
<1>1. IndexInv'
  BY DEF StoreInv, IndexInv, StoreTypeOK, ActiveIndexExact, ActiveIn, RestTyped
<1>2. LeaseShape'
  <2>1. \A r \in DOMAIN reservations : reservations[r].token \in Nat /\ reservations[r].token <= issued
    BY DEF StoreInv, IndexInv, StoreTypeOK, NoteReservation, LeaseShape
  <2>2. \A r \in DOMAIN reservations : reservations[r].token <= issued'
    BY <2>1 DEF RestTyped, StoreInv, IndexInv, StoreTypeOK
  <2> QED BY <2>2 DEF StoreInv, LeaseShape, ActiveIn
<1>3. OperationLinked'
  BY DEF StoreInv, OperationLinked, RestTyped
<1>4. AdvanceStep /\ TakeoverStep
  BY DEF AdvanceStep, TakeoverStep, LeaseEdges
<1> QED BY <1>1, <1>2, <1>3, <1>4 DEF StoreInv

(* Creating an operation keeps the operations well typed. *)
LEMMA CreateOperationRest ==
    ASSUME StoreInv, NEW o \in OperationIDs, CreateOperation(o)
    PROVE  RestTyped
<1> DEFINE ops == [x \in {o} |-> [status |-> "Planned", tx |-> None, expected |-> None]]
<1>1. DOMAIN ops = {o} /\ \A x \in DOMAIN ops : ops[x] \in PayrollOperation
  BY DEF PayrollOperation, OperationStatus
<1>2. operations' = Updated(operations, ops) /\ UNCHANGED <<clock, issued>>
  BY DEF CreateOperation
<1> HIDE DEF ops
<1> QED BY <1>1, <1>2, OperationsWritten DEF StoreInv, IndexInv

(* Every step of the service keeps the invariant, advances only leased      *)
(* reservations and takes over only expired leases.                         *)
LEMMA ServiceStep ==
    ASSUME StoreInv, ServiceNext
    PROVE  StoreInv' /\ AdvanceStep /\ TakeoverStep
<1>1. ASSUME NEW new \in NewBatches, NEW newOps \in SUBSET OperationIDs, ReserveBatch(new, newOps)
      PROVE  StoreInv' /\ AdvanceStep /\ TakeoverStep
  BY <1>1, ReserveBatchFits, ServiceUpdateInv
<1>2. ASSUME NEW r \in DOMAIN reservations, NEW from \in ReservationStatus, NEW to \in ReservationStatus,
             Transition(r, from, to)
      PROVE  StoreInv' /\ AdvanceStep /\ TakeoverStep
  BY <1>2, TransitionFits, ServiceUpdateInv
<1>3. ASSUME NEW r \in DOMAIN reservations, NEW from \in ReservationStatus, NEW to \in ReservationStatus,
             NEW token \in 1 .. issued, NEW now \in Now, TransitionWithLease(r, token, from, to, now)
      PROVE  StoreInv' /\ AdvanceStep /\ TakeoverStep
  BY <1>3, TransitionWithLeaseFits, ServiceUpdateInv
<1>4. ASSUME NEW r \in DOMAIN reservations, NEW from \in ReservationStatus, NEW to \in ReservationStatus,
             NEW o \in OperationIDs, NEW upd \in OperationCopies,
             TransitionWithOperation(r, from, to, o, upd)
      PROVE  StoreInv' /\ AdvanceStep /\ TakeoverStep
  BY <1>4, TransitionWithOperationFits, ServiceUpdateInv
<1>5. ASSUME NEW r \in DOMAIN reservations, NEW now \in Now, NEW ttl \in Nat \ {0},
             AcquireLease(r, now, ttl)
      PROVE  StoreInv' /\ AdvanceStep /\ TakeoverStep
  BY <1>5, AcquireLeaseFits, ServiceUpdateInv
<1>6. ASSUME NEW r \in DOMAIN reservations, NEW now \in Now, NEW ttl \in Nat \ {0},
             NEW token \in 1 .. issued, HeartbeatLease(r, token, now, ttl)
      PROVE  StoreInv' /\ AdvanceStep /\ TakeoverStep
  BY <1>6, HeartbeatFits, ServiceUpdateInv
<1>7. ASSUME NEW r \in DOMAIN reservations, NEW token \in 1 .. issued, NEW now \in Now,
             ClearReservationLease(r, token, now)
      PROVE  StoreInv' /\ AdvanceStep /\ TakeoverStep
  BY <1>7, ClearLeaseFits, ServiceUpdateInv
<1>8. ASSUME NEW refs \in RefMaps, NEW digest \in Digests \cup {None}, NEW now \in Now,
             MarkProofReady(refs, digest, now)
      PROVE  StoreInv' /\ AdvanceStep /\ TakeoverStep
  BY <1>8, MarkProofReadyFits, ServiceUpdateInv
<1>9. ASSUME NEW refs \in RefMaps, NEW tx \in TxIDs, NEW now \in Now,
             MarkSubmitted(refs, tx, now) \/ MarkBroadcastUnknown(refs, tx, now)
      PROVE  StoreInv' /\ AdvanceStep /\ TakeoverStep
  BY <1>9, MarkBroadcastFits, ServiceUpdateInv DEF MarkSubmitted, MarkBroadcastUnknown
<1>10. ASSUME NEW o \in OperationIDs, CreateOperation(o)
       PROVE  StoreInv' /\ AdvanceStep /\ TakeoverStep
  BY <1>10, CreateOperationRest, QuietStepInv DEF CreateOperation
<1>11. ASSUME Tick
       PROVE  StoreInv' /\ AdvanceStep /\ TakeoverStep
  <2>1. RestTyped
    BY <1>11 DEF Tick, RestTyped, StoreInv, IndexInv, StoreTypeOK
  <2> QED BY <1>11, <2>1, QuietStepInv DEF Tick
<1> QED BY <1>1, <1>2, <1>3, <1>4, <1>5, <1>6, <1>7, <1>8, <1>9, <1>10, <1>11 DEF ServiceNext

(* The empty store satisfies the invariant. *)
LEMMA StoreInitInv == StoreInit => StoreInv
<1> SUFFICES ASSUME StoreInit PROVE StoreInv
  OBVIOUS
<1>1. DOMAIN reservations = {} /\ DOMAIN activeReservationByKey = {} /\ DOMAIN operations = {}
  BY DEF StoreInit
<1> QED BY <1>1 DEF StoreInit, StoreInv, IndexInv, StoreTypeOK, ActiveIndexExact, ActiveIn,
                    LeaseShape, OperationLinked

(* Stuttering keeps the invariant. *)
LEMMA StoreStutter == ASSUME StoreInv, UNCHANGED storeVars PROVE StoreInv'
  BY DEF storeVars, StoreInv, IndexInv, StoreTypeOK, ActiveIndexExact, ActiveIn, LeaseShape,
         OperationLinked

(* Even a caller that overwrites a whole record through UpdateReservation   *)
(* cannot make the index wrong: the store checks the key it is given.       *)
THEOREM RawUpdateKeepsIndex ==
    ASSUME IndexInv, NEW r \in DOMAIN reservations, NEW rec \in NoteReservation,
           UpdateReservation(r, rec)
    PROVE  IndexInv'
<1> DEFINE upd == [x \in {r} |-> rec]
<1>1. StoreReservations(upd) /\ UNCHANGED <<clock, issued, operations>>
  BY DEF UpdateReservation
<1>2. WellFormed(upd) /\ NoClash(upd)
  BY SingleNoClash DEF UpdateReservation
<1> HIDE DEF upd
<1>3. ReservationsTyped' /\ ActiveIndexExact'
  BY <1>1, <1>2, StoreKeepsIndex
<1> QED BY <1>1, <1>3 DEF IndexInv, StoreTypeOK, ReservationsTyped

-----------------------------------------------------------------------------
(* The inductive invariant holds in every state the service reaches. *)
THEOREM StoreSafety == ServiceSpec => []StoreInv
<1>1. StoreInv /\ [ServiceNext]_storeVars => StoreInv'
  BY ServiceStep, StoreStutter
<1> QED BY <1>1, StoreInitInv, PTL DEF ServiceSpec

(* The maps of the store hold records of their types. *)
THEOREM StoreTypeCorrect == ServiceSpec => []StoreTypeOK
<1>1. StoreInv => StoreTypeOK
  BY DEF StoreInv, IndexInv
<1> QED BY <1>1, StoreSafety, PTL

(* No note is ever held by two live reservations: the promise the active    *)
(* unique key of the store makes to the payroll planner.                    *)
THEOREM NoteReservedOnce == ServiceSpec => []NoNoteReservedTwice
<1>1. StoreInv => NoNoteReservedTwice
  BY IndexUnique DEF StoreInv, IndexInv
<1> QED BY <1>1, StoreSafety, PTL

(* The active-key index is exact after every call of the service. *)
THEOREM ActiveIndexSafe == ServiceSpec => []ActiveIndexExact
<1>1. StoreInv => ActiveIndexExact
  BY DEF StoreInv, IndexInv
<1> QED BY <1>1, StoreSafety, PTL

(* Only active reservations carry a lease, with its expiry, and no two      *)
(* carry the same token.                                                    *)
THEOREM LeaseShapeSafe == ServiceSpec => []LeaseShape
<1>1. StoreInv => LeaseShape
  BY DEF StoreInv
<1> QED BY <1>1, StoreSafety, PTL

(* A reservation's operation exists for ever: no call deletes one, so the   *)
(* look-up ReserveBatch does before the store creates the reservation holds.*)
THEOREM LinksSafe == ServiceSpec => []OperationLinked
<1>1. StoreInv => OperationLinked
  BY DEF StoreInv
<1> QED BY <1>1, StoreSafety, PTL

(* Proving, recording a proof and recording a broadcast need a lease that   *)
(* was live when the caller read the clock, whichever method is called.     *)
THEOREM AdvanceSafe == ServiceSpec => AdvanceNeedsLease
<1> DEFINE A == \A r \in DOMAIN reservations :
                  <<reservations[r].status, reservations'[r].status>> \in LeaseEdges =>
                     reservations[r].token # 0 /\ reservations[r].until + MaxDelay > clock
<1>1. StoreInv /\ [ServiceNext]_storeVars => [A]_storeVars
  BY ServiceStep DEF AdvanceStep, LeaseLive
<1> QED BY <1>1, StoreSafety, PTL DEF ServiceSpec, AdvanceNeedsLease

(* A live lease is never handed to another worker. *)
THEOREM TakeoverSafe == ServiceSpec => NoLeaseTakeover
<1> DEFINE A == \A r \in DOMAIN reservations :
                  (reservations[r].token # 0
                     /\ reservations'[r].token \notin {0, reservations[r].token})
                  => reservations[r].until <= clock
<1>1. StoreInv /\ [ServiceNext]_storeVars => [A]_storeVars
  BY ServiceStep DEF TakeoverStep
<1> QED BY <1>1, StoreSafety, PTL DEF ServiceSpec, NoLeaseTakeover

-----------------------------------------------------------------------------
(* The statuses of a reservation whose transaction may have been sent. *)
AfterBroadcast == {"Submitted", "Unknown", "ManualReview", "ConfirmedSpent", "Failed"}

(* What evidence e of a reservation rec still says of a later chain ch,     *)
(* whose recorded nullifiers are sp: the transaction is the one the         *)
(* reservation was sent with, and a final state is final.                   *)
EvidenceOK(e, rec, ch, sp) ==
    /\ e.state \in TxState
    /\ e.state # "absent" => e.tx \in TxIDs /\ e.tx = rec.tx
    /\ e.state \in {"succeeded", "failed"} => ch[e.tx] = e.state
    /\ e.digest # None => e.state = "succeeded"
    /\ e.spent => rec.key \in sp

(* A reconciler's call j against the reservations rs and the chain. *)
CallOK(j, rs, ch, sp) ==
    /\ j.pc \in {"idle", "observed", "reserved", "loaded"}
    /\ j.pc # "idle" => j.r \in DOMAIN rs /\ EvidenceOK(j.e, rs[j.r], ch, sp)
    /\ j.pc \in {"reserved", "loaded"} => j.op = rs[j.r].op
    /\ j.pc = "loaded" => j.copy \in OperationCopies

(* A reservation rec against the chain: its transaction is recorded once    *)
(* and for good, a transaction that succeeded spent it, and its outcome is  *)
(* the chain's.                                                             *)
RecordOK(rec, ch, sp) ==
    /\ rec.tx # None => rec.status \in AfterBroadcast
    /\ rec.tx \in TxIDs /\ ch[rec.tx] = "succeeded" => rec.key \in sp
    /\ rec.status = "ConfirmedSpent" => rec.key \in sp
    /\ rec.status = "Failed" => rec.tx \in TxIDs /\ ch[rec.tx] = "failed"

OutcomeOK(op, ch) == op.status = "Succeeded" => op.tx \in TxIDs /\ ch[op.tx] = "succeeded"

(* The inductive invariant. *)
EvidenceInv ==
    /\ recon \in [Reconcilers -> {recon[c] : c \in Reconcilers}]
    /\ chain \in [TxIDs -> TxState]
    /\ \A c \in Reconcilers : CallOK(recon[c], reservations, chain, spent)
    /\ \A r \in DOMAIN reservations : RecordOK(reservations[r], chain, spent)
    /\ \A o \in DOMAIN operations : OutcomeOK(operations[o], chain)

LifeInv == StoreInv /\ EvidenceInv

-----------------------------------------------------------------------------
(* What a step asks of the reservations before (rs) and after (rs2) it: no  *)
(* reservation disappears or changes its note or its operation, a recorded  *)
(* transaction stays, and a resolved one keeps its status.                  *)
Carried(rs, rs2) ==
    /\ DOMAIN rs \subseteq DOMAIN rs2
    /\ \A r \in DOMAIN rs :
         /\ rs2[r].key = rs[r].key
         /\ rs2[r].op = rs[r].op
         /\ rs[r].tx # None => rs2[r].tx = rs[r].tx
         /\ rs[r].status \in {"ConfirmedSpent", "Failed"} => rs2[r].status = rs[r].status

(* The chain ch2 after ch: final states stay final. *)
ChainGrows(ch, ch2, sp, sp2) ==
    /\ \A t \in TxIDs : ch[t] \in {"succeeded", "failed"} => ch2[t] = ch[t]
    /\ sp \subseteq sp2

(* An operation whose status becomes ProofReady or Submitted takes every    *)
(* active reservation of it along (the body of OperationMovesWhole).        *)
MovesWhole ==
    \A o \in DOMAIN operations :
        LET s == operations'[o].status IN
        (s \in {"ProofReady", "Submitted"} /\ s # operations[o].status) =>
            \A r \in ActiveIn(reservations) :
                reservations[r].op = o => reservations'[r].status = s

(* Evidence read earlier stays true of the reservation and the chain. *)
LEMMA EvidenceLasts ==
    ASSUME NEW rs, NEW rs2, NEW ch, NEW ch2, NEW sp, NEW sp2, NEW j,
           CallOK(j, rs, ch, sp), Carried(rs, rs2), ChainGrows(ch, ch2, sp, sp2)
    PROVE  CallOK(j, rs2, ch2, sp2)
<1>1. CASE j.pc = "idle"
  BY <1>1 DEF CallOK
<1>2. CASE j.pc # "idle"
  <2>1. j.r \in DOMAIN rs /\ EvidenceOK(j.e, rs[j.r], ch, sp)
    BY <1>2 DEF CallOK
  <2>2. /\ rs2[j.r].key = rs[j.r].key /\ rs2[j.r].op = rs[j.r].op
        /\ rs[j.r].tx # None => rs2[j.r].tx = rs[j.r].tx
        /\ j.r \in DOMAIN rs2
    BY <2>1 DEF Carried
  <2>3. EvidenceOK(j.e, rs2[j.r], ch2, sp2)
    BY <2>1, <2>2, StoreAssumption DEF EvidenceOK, ChainGrows
  <2> QED BY <2>1, <2>2, <2>3 DEF CallOK
<1> QED BY <1>1, <1>2

(* A step keeps the invariant when the records it leaves are right and what *)
(* the reconcilers hold is either old or right.                             *)
LEMMA EvidenceStep ==
    ASSUME EvidenceInv, Carried(reservations, reservations'),
           ChainGrows(chain, chain', spent, spent'), chain' \in [TxIDs -> TxState],
           recon' \in [Reconcilers -> {recon'[c] : c \in Reconcilers}],
           \A c \in Reconcilers :
              recon'[c] = recon[c] \/ CallOK(recon'[c], reservations', chain', spent'),
           \A r \in DOMAIN reservations' : RecordOK(reservations'[r], chain', spent'),
           \A o \in DOMAIN operations' : OutcomeOK(operations'[o], chain')
    PROVE  EvidenceInv'
<1>1. \A c \in Reconcilers : CallOK(recon'[c], reservations', chain', spent')
  <2> SUFFICES ASSUME NEW c \in Reconcilers, recon'[c] = recon[c]
               PROVE  CallOK(recon'[c], reservations', chain', spent')
    OBVIOUS
  <2>1. CallOK(recon[c], reservations, chain, spent)
    BY DEF EvidenceInv
  <2> QED BY <2>1, EvidenceLasts
<1> QED BY <1>1 DEF EvidenceInv

-----------------------------------------------------------------------------
(* What a call before the broadcast makes of a reservation: new ones start  *)
(* Reserved, and only Reserved and Proving ones move.                       *)
WorkerRecord(r, upd) ==
    \/ /\ r \notin DOMAIN reservations
       /\ upd[r].status = "Reserved" /\ upd[r].tx = None
    \/ /\ r \in DOMAIN reservations
       /\ upd[r].key = reservations[r].key /\ upd[r].op = reservations[r].op
       /\ upd[r].tx = reservations[r].tx
       /\ \/ upd[r].status = reservations[r].status
          \/ /\ reservations[r].status \in {"Reserved", "Proving"}
             /\ upd[r].status \in {"Reserved", "Proving", "ProofReady", "Released"}

(* Operations a call leaves behind: old ones, or ones in another status     *)
(* than Succeeded.                                                          *)
NoOutcome ==
    \A o \in DOMAIN operations' :
        \/ o \in DOMAIN operations /\ operations'[o] = operations[o]
        \/ operations'[o].status # "Succeeded"

(* Such a call keeps the invariant and every resolved reservation. *)
LEMMA WorkerKeeps ==
    ASSUME EvidenceInv, NEW upd, reservations' = Updated(reservations, upd),
           \A r \in DOMAIN upd : WorkerRecord(r, upd), NoOutcome, UNCHANGED <<chain, spent, recon>>
    PROVE  EvidenceInv' /\ KeepsResolved
<1>1. /\ DOMAIN reservations' = DOMAIN reservations \cup DOMAIN upd
      /\ \A r \in DOMAIN upd : reservations'[r] = upd[r]
      /\ \A r \in DOMAIN reservations \ DOMAIN upd : reservations'[r] = reservations[r]
  BY DEF Updated
<1>2. Carried(reservations, reservations')
  BY SMTT(120), <1>1 DEF Carried, WorkerRecord
<1>3. ASSUME NEW r \in DOMAIN reservations' PROVE RecordOK(reservations'[r], chain', spent')
  <2>1. CASE r \in DOMAIN upd
    <3>1. WorkerRecord(r, upd) /\ reservations'[r] = upd[r]
      BY <1>1, <2>1
    <3>2. CASE r \notin DOMAIN reservations
      BY <3>1, <3>2, StoreAssumption DEF WorkerRecord, RecordOK
    <3>3. CASE r \in DOMAIN reservations
      <4>1. RecordOK(reservations[r], chain, spent)
        BY <3>3 DEF EvidenceInv
      <4> QED BY SMTT(120), <3>1, <3>3, <4>1, StoreAssumption DEF WorkerRecord, RecordOK, AfterBroadcast
    <3> QED BY <3>2, <3>3
  <2>2. CASE r \notin DOMAIN upd
    BY <1>1, <2>2 DEF EvidenceInv
  <2> QED BY <2>1, <2>2
<1>4. \A o \in DOMAIN operations' : OutcomeOK(operations'[o], chain')
  BY DEF NoOutcome, OutcomeOK, EvidenceInv
<1>5. ChainGrows(chain, chain', spent, spent')
  BY DEF ChainGrows
<1>6. EvidenceInv'
  BY <1>2, <1>3, <1>4, <1>5, EvidenceStep DEF EvidenceInv
<1> QED BY <1>2, <1>6 DEF KeepsResolved, Carried

(* A stored reservation is a record of its type. *)
LEMMA StoredRecord ==
    ASSUME StoreInv, NEW r \in DOMAIN reservations
    PROVE  reservations[r] \in NoteReservation
  BY DEF StoreInv, IndexInv, StoreTypeOK

(* A move of one reservation between the statuses of the workers. *)
LEMMA WorkerMove ==
    ASSUME StoreInv, NEW r \in DOMAIN reservations,
           NEW from \in {"Reserved", "Proving"}, NEW to \in {"Reserved", "Proving", "Released"},
           reservations[r].status = from
    PROVE  WorkerRecord(r, [x \in {r} |-> Moved(reservations[r], to)])
<1> DEFINE rec == reservations[r]
<1>1. rec \in NoteReservation
  BY StoredRecord
<1>2. to \in ReservationStatus
  BY DEF ReservationStatus
<1> HIDE DEF rec
<1>3. /\ Moved(rec, to).key = rec.key /\ Moved(rec, to).op = rec.op
      /\ Moved(rec, to).tx = rec.tx /\ Moved(rec, to).status = to
  BY <1>1, <1>2 DEF Moved, ClearLease, NoteReservation
<1> QED BY <1>3 DEF WorkerRecord, rec

(* A change of one reservation's lease. *)
LEMMA WorkerLease ==
    ASSUME StoreInv, NEW r \in DOMAIN reservations, NEW token \in Nat, NEW until \in Nat
    PROVE  /\ WorkerRecord(r, [x \in {r} |-> [reservations[r] EXCEPT !.token = token, !.until = until]])
           /\ WorkerRecord(r, [x \in {r} |-> [reservations[r] EXCEPT !.until = until]])
<1>1. reservations[r] \in NoteReservation
  BY StoredRecord
<1> QED BY <1>1 DEF WorkerRecord, NoteReservation

(* Each call of a planner or worker keeps the invariant. *)
LEMMA WorkerCallKeeps ==
    ASSUME LifeInv, WorkerCall, UNCHANGED <<chain, spent, recon>>
    PROVE  EvidenceInv' /\ KeepsResolved
<1> USE DEF LifeInv
<1>1. ASSUME NEW new \in NewBatches, NEW newOps \in SUBSET OperationIDs, ReserveBatch(new, newOps)
      PROVE  EvidenceInv' /\ KeepsResolved
  <2> DEFINE upd == [r \in DOMAIN new |->
            [status |-> "Reserved", key |-> new[r][1], op |-> new[r][2],
             token |-> 0, until |-> 0, tx |-> None]]
  <2>1. reservations' = Updated(reservations, upd)
    BY <1>1 DEF ReserveBatch, StoreReservations
  <2>2. \A r \in DOMAIN upd : WorkerRecord(r, upd)
    BY <1>1 DEF ReserveBatch, WorkerRecord
  <2>3. NoOutcome
    BY <1>1 DEF ReserveBatch, NoOutcome, Updated
  <2> HIDE DEF upd
  <2> QED BY <2>1, <2>2, <2>3, WorkerKeeps
<1>2. ASSUME NEW r \in DOMAIN reservations, Transition(r, "Reserved", "Released")
      PROVE  EvidenceInv' /\ KeepsResolved
  <2> DEFINE upd == [x \in {r} |-> Moved(reservations[r], "Released")]
  <2>1. reservations' = Updated(reservations, upd) /\ NoOutcome
    BY <1>2 DEF Transition, StoreReservations, NoOutcome
  <2>2. \A x \in DOMAIN upd : WorkerRecord(x, upd)
    BY <1>2, WorkerMove DEF Transition, CanMove
  <2> HIDE DEF upd
  <2> QED BY <2>1, <2>2, WorkerKeeps
<1>3. ASSUME NEW r \in DOMAIN reservations, NEW token \in 1 .. issued, NEW now \in Now,
             NEW from \in {"Reserved", "Proving"}, NEW to \in {"Reserved", "Proving"},
             TransitionWithLease(r, token, from, to, now)
      PROVE  EvidenceInv' /\ KeepsResolved
  <2> DEFINE upd == [x \in {r} |-> Moved(reservations[r], to)]
  <2>1. reservations' = Updated(reservations, upd) /\ NoOutcome
    BY <1>3 DEF TransitionWithLease, StoreReservations, NoOutcome
  <2>2. reservations[r].status = from
    BY <1>3 DEF TransitionWithLease, CanMove
  <2>3. \A x \in DOMAIN upd : WorkerRecord(x, upd)
    BY <2>2, WorkerMove
  <2> HIDE DEF upd
  <2> QED BY <2>1, <2>3, WorkerKeeps
<1>4. ASSUME NEW r \in DOMAIN reservations, NEW token \in 1 .. issued, NEW now \in Now,
             ClearReservationLease(r, token, now)
      PROVE  EvidenceInv' /\ KeepsResolved
  <2> DEFINE upd == [x \in {r} |-> ClearLease(reservations[r])]
  <2>1. reservations' = Updated(reservations, upd) /\ NoOutcome
    BY <1>4 DEF ClearReservationLease, StoreReservations, NoOutcome
  <2>2. WorkerRecord(r, [x \in {r} |-> [reservations[r] EXCEPT !.token = 0, !.until = 0]])
    BY WorkerLease
  <2>3. \A x \in DOMAIN upd : WorkerRecord(x, upd)
    BY <2>2 DEF ClearLease
  <2> HIDE DEF upd
  <2> QED BY <2>1, <2>3, WorkerKeeps
<1>5. ASSUME NEW r \in DOMAIN reservations, NEW now \in Now, NEW ttl \in Nat \ {0},
             AcquireLease(r, now, ttl)
      PROVE  EvidenceInv' /\ KeepsResolved
  <2> DEFINE upd == [x \in {r} |-> [reservations[r] EXCEPT !.token = issued + 1, !.until = now + ttl]]
  <2>1. reservations' = Updated(reservations, upd) /\ NoOutcome
    BY <1>5 DEF AcquireLease, StoreReservations, NoOutcome
  <2>2. issued + 1 \in Nat /\ now + ttl \in Nat
    BY SMTT(120), NowBounds DEF StoreInv, IndexInv, StoreTypeOK
  <2>3. \A x \in DOMAIN upd : WorkerRecord(x, upd)
    BY <2>2, WorkerLease
  <2> HIDE DEF upd
  <2> QED BY <2>1, <2>3, WorkerKeeps
<1>6. ASSUME NEW r \in DOMAIN reservations, NEW now \in Now, NEW ttl \in Nat \ {0},
             NEW token \in 1 .. issued, HeartbeatLease(r, token, now, ttl)
      PROVE  EvidenceInv' /\ KeepsResolved
  <2> DEFINE upd == [x \in {r} |-> [reservations[r] EXCEPT !.until = now + ttl]]
  <2>1. reservations' = Updated(reservations, upd) /\ NoOutcome
    BY <1>6 DEF HeartbeatLease, StoreReservations, NoOutcome
  <2>2. now + ttl \in Nat /\ 0 \in Nat
    BY SMTT(120), NowBounds DEF StoreInv, IndexInv, StoreTypeOK
  <2>3. \A x \in DOMAIN upd : WorkerRecord(x, upd)
    BY <2>2, WorkerLease
  <2> HIDE DEF upd
  <2> QED BY <2>1, <2>3, WorkerKeeps
<1>7. ASSUME NEW refs \in RefMaps, NEW digest \in Digests \cup {None}, NEW now \in Now,
             MarkProofReady(refs, digest, now)
      PROVE  EvidenceInv' /\ KeepsResolved
  <2> DEFINE upd == [r \in DOMAIN refs |-> [reservations[r] EXCEPT !.status = "ProofReady"]]
             ready(o) == [operations[o] EXCEPT !.status = "ProofReady",
                  !.expected = CHOOSE d \in Merged(operations[o].expected, digest) : TRUE]
             ops == LinkedOps(refs)
  <2>1. reservations' = Updated(reservations, upd)
    BY <1>7 DEF MarkProofReady, StoreReservations
  <2>2. \A r \in DOMAIN upd : WorkerRecord(r, upd)
    <3> SUFFICES ASSUME NEW r \in DOMAIN upd PROVE WorkerRecord(r, upd)
      OBVIOUS
    <3>1. r \in DOMAIN reservations /\ reservations[r].status = "Proving"
      BY <1>7 DEF MarkProofReady, LeasedAt
    <3>2. reservations[r] \in NoteReservation
      BY <3>1, StoredRecord
    <3> QED BY <3>1, <3>2 DEF WorkerRecord, NoteReservation
  <2>3. ops \subseteq DOMAIN operations /\ operations' = Updated(operations, [o \in ops |-> ready(o)])
    BY <1>7 DEF MarkProofReady
  <2>4. \A o \in ops : ready(o).status = "ProofReady"
    BY <2>3 DEF StoreInv, IndexInv, StoreTypeOK, PayrollOperation
  <2> HIDE DEF upd, ready, ops
  <2>5. NoOutcome
    BY <2>3, <2>4 DEF NoOutcome, Updated
  <2> QED BY <2>1, <2>2, <2>5, WorkerKeeps
<1>8. ASSUME NEW o \in OperationIDs, CreateOperation(o)
      PROVE  EvidenceInv' /\ KeepsResolved
  <2>1. NoOutcome /\ UNCHANGED reservations
    BY <1>8 DEF CreateOperation, NoOutcome, Updated
  <2>2. \A x \in DOMAIN operations' : OutcomeOK(operations'[x], chain')
    BY <2>1 DEF NoOutcome, OutcomeOK, EvidenceInv
  <2> QED BY <2>1, <2>2 DEF EvidenceInv, KeepsResolved
<1>9. ASSUME Tick PROVE EvidenceInv' /\ KeepsResolved
  BY <1>9 DEF Tick, EvidenceInv, KeepsResolved
<1> QED BY <1>1, <1>2, <1>3, <1>4, <1>5, <1>6, <1>7, <1>8, <1>9 DEF WorkerCall

-----------------------------------------------------------------------------
(* A transaction that is not on the chain yet becomes pending, or not. *)
LEMMA ChainSends ==
    ASSUME chain \in [TxIDs -> TxState], NEW tx \in TxIDs, chain[tx] = "absent",
           chain' \in {chain, [chain EXCEPT ![tx] = "pending"]}
    PROVE  /\ chain' \in [TxIDs -> TxState]
           /\ chain'[tx] \in {"absent", "pending"}
           /\ \A t \in TxIDs : t # tx => chain'[t] = chain[t]
  BY DEF TxState

(* Sending a transaction: only reservations whose proof is ready, which     *)
(* have no transaction yet, receive one, and it is not on the chain yet.    *)
LEMMA SubmitKeeps ==
    ASSUME LifeInv, NEW refs \in RefMaps, NEW tx \in TxIDs, NEW now \in Now, Submit(refs, tx, now)
    PROVE  EvidenceInv' /\ KeepsResolved
<1> USE DEF LifeInv
<1>1. PICK status \in {"Submitted", "Unknown"} : MarkBroadcast(status, refs, tx, now)
  BY DEF Submit, MarkSubmitted, MarkBroadcastUnknown
<1> DEFINE mv(r) == ClearLease([reservations[r] EXCEPT !.status = status, !.tx = tx])
           upd == [r \in DOMAIN refs |-> mv(r)]
           sent(o) == [operations[o] EXCEPT !.status = status, !.tx = tx]
           ops == LinkedOps(refs)
<1>2. /\ LeasedAt(refs, "ProofReady", now)
      /\ reservations' = Updated(reservations, upd)
      /\ ops \subseteq DOMAIN operations
      /\ operations' = Updated(operations, [o \in ops |-> sent(o)])
  BY <1>1 DEF MarkBroadcast, StoreReservations
<1>3. /\ chain' \in [TxIDs -> TxState]
      /\ chain'[tx] \in {"absent", "pending"}
      /\ \A t \in TxIDs : t # tx => chain'[t] = chain[t]
      /\ UNCHANGED <<spent, recon>>
  BY ChainSends DEF Submit, EvidenceInv
<1>4. ChainGrows(chain, chain', spent, spent')
  BY <1>3 DEF ChainGrows, Submit
<1>5. ASSUME NEW r \in DOMAIN refs
      PROVE  /\ r \in DOMAIN reservations /\ reservations[r].tx = None
             /\ reservations[r].status = "ProofReady"
             /\ mv(r).key = reservations[r].key /\ mv(r).op = reservations[r].op
             /\ mv(r).status = status /\ mv(r).tx = tx
  <2>1. r \in DOMAIN reservations /\ reservations[r].status = "ProofReady"
    BY <1>2 DEF LeasedAt
  <2>2. RecordOK(reservations[r], chain, spent)
    BY <2>1 DEF EvidenceInv
  <2>3. reservations[r].tx = None
    BY <2>1, <2>2 DEF RecordOK, AfterBroadcast
  <2>4. reservations[r] \in NoteReservation
    BY <2>1, StoredRecord
  <2> QED BY <2>1, <2>3, <2>4 DEF ClearLease, NoteReservation
<1>6. \A o \in ops : sent(o).status = status
  BY <1>2 DEF StoreInv, IndexInv, StoreTypeOK, PayrollOperation
<1> HIDE DEF mv, sent, ops
<1>7. /\ DOMAIN reservations' = DOMAIN reservations
      /\ \A r \in DOMAIN refs : reservations'[r] = mv(r)
      /\ \A r \in DOMAIN reservations \ DOMAIN refs : reservations'[r] = reservations[r]
  BY <1>2, <1>5 DEF Updated
<1> HIDE DEF upd
<1>8. Carried(reservations, reservations')
  BY <1>5, <1>7 DEF Carried
<1>9. ASSUME NEW r \in DOMAIN reservations' PROVE RecordOK(reservations'[r], chain', spent')
  <2>1. CASE r \in DOMAIN refs
    BY <1>3, <1>5, <1>7, <2>1 DEF RecordOK, AfterBroadcast
  <2>2. CASE r \notin DOMAIN refs
    <3>1. RecordOK(reservations[r], chain, spent) /\ reservations'[r] = reservations[r]
      BY <1>7, <2>2 DEF EvidenceInv
    <3> QED BY <1>3, <3>1 DEF RecordOK, Submit
  <2> QED BY <2>1, <2>2
<1>10. ASSUME NEW o \in DOMAIN operations' PROVE OutcomeOK(operations'[o], chain')
  <2>1. CASE o \in ops
    BY <1>2, <1>6, <2>1 DEF Updated, OutcomeOK
  <2>2. CASE o \notin ops
    <3>1. o \in DOMAIN operations /\ operations'[o] = operations[o]
      BY <1>2, <2>2 DEF Updated
    <3>2. OutcomeOK(operations[o], chain)
      BY <3>1 DEF EvidenceInv
    <3> QED BY <1>3, <3>1, <3>2 DEF OutcomeOK, Submit
  <2> QED BY <2>1, <2>2
<1>11. EvidenceInv'
  BY <1>3, <1>4, <1>8, <1>9, <1>10, EvidenceStep DEF EvidenceInv
<1> QED BY <1>8, <1>11 DEF KeepsResolved, Carried

(* A block: the inputs of a transaction that succeeds are recorded as spent *)
(* in the same step.                                                        *)
LEMMA IncludeKeeps ==
    ASSUME LifeInv, NEW tx \in TxIDs, Include(tx)
    PROVE  EvidenceInv' /\ KeepsResolved
<1> USE DEF LifeInv
<1>1. UNCHANGED <<reservations, operations, recon>>
  BY DEF Include, storeVars
<1>2. /\ chain' \in [TxIDs -> TxState]
      /\ chain'[tx] \in {"succeeded", "failed"}
      /\ chain'[tx] = "succeeded" => Inputs(tx) \subseteq spent'
      /\ \A t \in TxIDs : t # tx => chain'[t] = chain[t]
      /\ spent \subseteq spent'
  BY DEF Include, EvidenceInv, TxState
<1>3. ChainGrows(chain, chain', spent, spent')
  BY <1>2 DEF ChainGrows, Include
<1>4. ASSUME NEW r \in DOMAIN reservations' PROVE RecordOK(reservations'[r], chain', spent')
  <2>1. RecordOK(reservations[r], chain, spent) /\ r \in DOMAIN reservations
    BY <1>1 DEF EvidenceInv
  <2>2. reservations[r].tx = tx => reservations[r].key \in Inputs(tx)
    BY <2>1 DEF Inputs
  <2> QED BY <1>1, <1>2, <2>1, <2>2 DEF RecordOK, Include
<1>5. ASSUME NEW o \in DOMAIN operations' PROVE OutcomeOK(operations'[o], chain')
  <2>1. OutcomeOK(operations[o], chain)
    BY <1>1 DEF EvidenceInv
  <2> QED BY <1>1, <1>2, <2>1 DEF OutcomeOK, Include
<1>6. Carried(reservations, reservations')
  BY <1>1 DEF Carried
<1>7. EvidenceInv'
  BY <1>1, <1>2, <1>3, <1>4, <1>5, <1>6, EvidenceStep DEF EvidenceInv
<1> QED BY <1>1, <1>7 DEF KeepsResolved

(* A step of the chain or of reconciler c that writes nothing to the store  *)
(* keeps the invariant when what c then holds is right.                     *)
LEMMA ReadKeeps ==
    ASSUME LifeInv, NEW c \in Reconcilers, NEW j, recon' = [recon EXCEPT ![c] = j],
           CallOK(j, reservations, chain, spent), UNCHANGED <<storeVars, chain, spent>>
    PROVE  EvidenceInv' /\ KeepsResolved
<1> USE DEF LifeInv
<1>1. UNCHANGED <<reservations, operations>>
  BY DEF storeVars
<1>2. /\ recon'[c] = j
      /\ \A d \in Reconcilers : d # c => recon'[d] = recon[d]
      /\ recon' \in [Reconcilers -> {recon'[d] : d \in Reconcilers}]
  BY DEF EvidenceInv
<1>3. \A d \in Reconcilers :
        recon'[d] = recon[d] \/ CallOK(recon'[d], reservations', chain', spent')
  BY <1>1, <1>2
<1>4. Carried(reservations, reservations') /\ ChainGrows(chain, chain', spent, spent')
  BY <1>1 DEF Carried, ChainGrows
<1>5. EvidenceInv'
  BY <1>1, <1>2, <1>3, <1>4, EvidenceStep DEF EvidenceInv
<1> QED BY <1>1, <1>5 DEF KeepsResolved

(* Evidence is right when it is collected. *)
LEMMA ObserveKeeps ==
    ASSUME LifeInv, NEW c \in Reconcilers, NEW r \in DOMAIN reservations, NEW indexed \in BOOLEAN,
           Observe(c, r, indexed)
    PROVE  EvidenceInv' /\ KeepsResolved
<1> USE DEF LifeInv
<1> DEFINE tx == IF indexed THEN reservations[r].tx ELSE None
           state == IF tx = None THEN "absent" ELSE chain[tx]
           call(d) == [pc |-> "observed", r |-> r,
                       e |-> [tx     |-> IF state = "absent" THEN None ELSE tx,
                              state  |-> state,
                              digest |-> d,
                              spent  |-> reservations[r].key \in spent]]
<1>1. PICK d \in Digests \cup {None} :
         /\ d # None => state = "succeeded"
         /\ recon' = [recon EXCEPT ![c] = call(d)]
  BY DEF Observe
<1>2. reservations[r].tx \in TxIDs \cup {None}
  BY StoredRecord DEF NoteReservation
<1>3. state \in TxState /\ (state # "absent" => tx \in TxIDs /\ tx = reservations[r].tx)
  BY <1>2 DEF TxState, EvidenceInv
<1>4. state # "absent" => state = chain[tx]
  OBVIOUS
<1> HIDE DEF tx, state
<1>5. CallOK(call(d), reservations, chain, spent)
  BY <1>1, <1>3, <1>4 DEF CallOK, EvidenceOK
<1> HIDE DEF call
<1> QED BY <1>1, <1>5, ReadKeeps DEF Observe

(* GetReservation reads the operation the reservation belongs to for good. *)
LEMMA LoadReservationKeeps ==
    ASSUME LifeInv, NEW c \in Reconcilers, LoadReservation(c)
    PROVE  EvidenceInv' /\ KeepsResolved
<1> DEFINE j == [pc |-> "reserved", r |-> recon[c].r, e |-> recon[c].e,
                 status |-> reservations[recon[c].r].status, op |-> reservations[recon[c].r].op]
<1>1. CallOK(recon[c], reservations, chain, spent) /\ recon[c].pc = "observed"
  BY DEF LoadReservation, LifeInv, EvidenceInv
<1>2. CallOK(j, reservations, chain, spent)
  BY <1>1 DEF CallOK
<1>3. recon' = [recon EXCEPT ![c] = j] /\ UNCHANGED <<storeVars, chain, spent>>
  BY DEF LoadReservation
<1> HIDE DEF j
<1> QED BY <1>2, <1>3, ReadKeeps

(* GetOperation reads a whole operation, or none. *)
LEMMA LoadOperationKeeps ==
    ASSUME LifeInv, NEW c \in Reconcilers, LoadOperation(c)
    PROVE  EvidenceInv' /\ KeepsResolved
<1> DEFINE copy == {operations[o] : o \in {recon[c].op} \ {None}}
           j == [pc |-> "loaded", r |-> recon[c].r, e |-> recon[c].e, status |-> recon[c].status,
                 op |-> recon[c].op, copy |-> copy]
<1>1. CallOK(recon[c], reservations, chain, spent) /\ recon[c].pc = "reserved"
  BY DEF LoadOperation, LifeInv, EvidenceInv
<1>2. recon[c].op = None \/ operations[recon[c].op] \in PayrollOperation
  BY <1>1 DEF CallOK, LifeInv, StoreInv, IndexInv, StoreTypeOK, OperationLinked
<1>3. copy \in OperationCopies
  <2>1. CASE recon[c].op = None
    <3>1. copy = {}
      BY <2>1
    <3> QED BY <3>1 DEF OperationCopies
  <2>2. CASE recon[c].op # None
    <3>1. copy = {operations[recon[c].op]}
      BY <2>2
    <3> HIDE DEF copy
    <3> QED BY <1>2, <2>2, <3>1 DEF OperationCopies
  <2> QED BY <2>1, <2>2
<1>4. recon' = [recon EXCEPT ![c] = j] /\ UNCHANGED <<storeVars, chain, spent>>
  BY DEF LoadOperation
<1> HIDE DEF copy
<1>5. CallOK(j, reservations, chain, spent)
  BY <1>1, <1>3 DEF CallOK
<1> HIDE DEF j
<1> QED BY <1>4, <1>5, ReadKeeps

(* A call that returns without a write, or a process that stops. *)
LEMMA ReturnKeeps ==
    ASSUME LifeInv, NEW c \in Reconcilers, Return(c) \/ Crash(c)
    PROVE  EvidenceInv' /\ KeepsResolved
<1>1. recon' = [recon EXCEPT ![c] = Idle] /\ UNCHANGED <<storeVars, chain, spent>>
  BY DEF Return, Crash
<1>2. CallOK(Idle, reservations, chain, spent)
  BY DEF CallOK, Idle
<1> QED BY <1>1, <1>2, ReadKeeps

(* Another wallet's spend only adds a nullifier. *)
LEMMA ForeignSpendKeeps ==
    ASSUME LifeInv, NEW k \in Keys, ForeignSpend(k)
    PROVE  EvidenceInv' /\ KeepsResolved
<1> USE DEF LifeInv
<1>1. UNCHANGED <<reservations, operations, chain, recon>> /\ spent \subseteq spent'
  BY DEF ForeignSpend, storeVars
<1>2. \A r \in DOMAIN reservations' : RecordOK(reservations'[r], chain', spent')
  BY <1>1 DEF EvidenceInv, RecordOK
<1>3. Carried(reservations, reservations') /\ ChainGrows(chain, chain', spent, spent')
  BY <1>1 DEF Carried, ChainGrows
<1>4. EvidenceInv'
  BY <1>1, <1>2, <1>3, EvidenceStep DEF EvidenceInv
<1> QED BY <1>1, <1>4 DEF KeepsResolved

-----------------------------------------------------------------------------
(* A whole copy with a new status is a whole copy, and it is the copy's     *)
(* transaction that is written back.                                        *)
LEMMA UpdateIsCopy ==
    ASSUME NEW copy \in OperationCopies, NEW ops \in TargetOperationStatuses
    PROVE  /\ OperationUpdate(copy, ops) \in OperationCopies
           /\ \A rec \in OperationUpdate(copy, ops) :
                 rec.status = ops /\ \A op \in copy : rec.tx = op.tx
<1>1. CASE copy = {}
  <2>1. OperationUpdate(copy, ops) = {}
    BY <1>1 DEF OperationUpdate
  <2> QED BY <2>1 DEF OperationCopies
<1>2. CASE copy # {}
  <2>1. PICK op \in PayrollOperation : copy = {op}
    BY <1>2 DEF OperationCopies
  <2> DEFINE rec == [op EXCEPT !.status = ops]
  <2>2. rec \in PayrollOperation /\ rec.status = ops /\ rec.tx = op.tx
    BY DEF PayrollOperation, OperationStatus, TargetOperationStatuses
  <2>3. OperationUpdate(copy, ops) \in {{}, {rec}}
    BY <2>1 DEF OperationUpdate
  <2> HIDE DEF rec
  <2> QED BY <2>1, <2>2, <2>3 DEF OperationCopies
<1> QED BY <1>1, <1>2

(* What a write of the statuses to and ops says of the chain. *)
OutcomeTrue(rec, copy, ch, sp, to, ops) ==
    /\ to = "ConfirmedSpent" => rec.key \in sp
    /\ to = "Failed" => rec.tx \in TxIDs /\ ch[rec.tx] = "failed"
    /\ ops = "Succeeded" => \A op \in copy : op.tx \in TxIDs /\ ch[op.tx] = "succeeded"

(* The target Reconcile computes is true, given that the evidence still is: *)
(* a spent note is spent on the chain, a failed one's own transaction       *)
(* failed, and a succeeded operation's own transaction succeeded.           *)
LEMMA TargetTrue ==
    ASSUME NEW rec, NEW copy \in OperationCopies, NEW e, NEW ch, NEW sp, NEW status,
           NEW to \in TargetStatuses, NEW ops \in TargetOperationStatuses,
           EvidenceOK(e, rec, ch, sp), RecordOK(rec, ch, sp), Target(status, copy, e, to, ops)
    PROVE  OutcomeTrue(rec, copy, ch, sp, to, ops)
<1>1. to = "ConfirmedSpent" => rec.key \in sp
  BY DEF Target, SpentEvidence, FailedTarget, EvidenceOK, RecordOK, TargetStatuses
<1>2. to = "Failed" => rec.tx \in TxIDs /\ ch[rec.tx] = "failed"
  BY DEF Target, FailureEvidence, EvidenceOK
<1>3. ASSUME ops = "Succeeded" PROVE \A op \in copy : op.tx \in TxIDs /\ ch[op.tx] = "succeeded"
  <2>1. OperationMatches(copy, e)
    BY <1>3 DEF Target, FailedTarget
  <2>2. PICK o \in PayrollOperation : copy = {o}
    BY <2>1 DEF OperationMatches, TxMatches, OperationCopies
  <2>3. e.tx = o.tx /\ e.digest # None
    BY <2>1, <2>2 DEF OperationMatches, TxMatches
  <2>4. e.state = "succeeded"
    BY <2>3 DEF EvidenceOK
  <2> QED BY <2>2, <2>3, <2>4 DEF EvidenceOK
<1> QED BY <1>1, <1>2, <1>3 DEF OutcomeTrue

(* The compare-and-set of a reconciler, as the store sees it: the operation *)
(* it writes is a whole copy, so the store's own lemmas apply.              *)
LEMMA CommitShape ==
    ASSUME LifeInv, NEW c \in Reconcilers, Commit(c)
    PROVE  \E to \in TargetStatuses, ops \in TargetOperationStatuses :
             /\ recon[c].r \in DOMAIN reservations
             /\ recon[c].copy \in OperationCopies
             /\ EvidenceOK(recon[c].e, reservations[recon[c].r], chain, spent)
             /\ recon[c].status = reservations[recon[c].r].status
             /\ recon[c].status \notin {"ConfirmedSpent", "Failed"}
             /\ Target(recon[c].status, recon[c].copy, recon[c].e, to, ops)
             /\ TransitionWithOperation(recon[c].r, recon[c].status, to, recon[c].op,
                                        OperationUpdate(recon[c].copy, ops))
<1>1. PICK to \in TargetStatuses, ops \in TargetOperationStatuses :
         /\ Writes(c, to, ops)
         /\ TransitionWithOperation(recon[c].r, recon[c].status, to, recon[c].op,
                                    OperationUpdate(recon[c].copy, ops))
  BY DEF Commit
<1>2. CallOK(recon[c], reservations, chain, spent) /\ recon[c].pc = "loaded"
  BY <1>1 DEF Writes, LifeInv, EvidenceInv
<1>3. /\ recon[c].r \in DOMAIN reservations
      /\ recon[c].copy \in OperationCopies
      /\ EvidenceOK(recon[c].e, reservations[recon[c].r], chain, spent)
  BY <1>2 DEF CallOK
<1>4. /\ recon[c].status = reservations[recon[c].r].status
      /\ Target(recon[c].status, recon[c].copy, recon[c].e, to, ops)
  BY <1>1 DEF Writes, CanMove
<1>5. recon[c].status \notin {"ConfirmedSpent", "Failed"}
  BY <1>4 DEF Target
<1> QED BY <1>1, <1>3, <1>4, <1>5

(* The write of a reconciler: whatever is old in what it read, the outcome  *)
(* it records is the chain's.                                               *)
LEMMA CommitKeeps ==
    ASSUME LifeInv, NEW c \in Reconcilers, Commit(c)
    PROVE  EvidenceInv' /\ KeepsResolved
<1> USE DEF LifeInv
<1>1. PICK to \in TargetStatuses, ops \in TargetOperationStatuses :
         /\ recon[c].r \in DOMAIN reservations
         /\ recon[c].copy \in OperationCopies
         /\ EvidenceOK(recon[c].e, reservations[recon[c].r], chain, spent)
         /\ recon[c].status = reservations[recon[c].r].status
         /\ recon[c].status \notin {"ConfirmedSpent", "Failed"}
         /\ Target(recon[c].status, recon[c].copy, recon[c].e, to, ops)
         /\ TransitionWithOperation(recon[c].r, recon[c].status, to, recon[c].op,
                                    OperationUpdate(recon[c].copy, ops))
  BY CommitShape
<1> DEFINE r == recon[c].r
           rec == reservations[r]
           moved == Moved(rec, to)
           copies == OperationUpdate(recon[c].copy, ops)
           written == [x \in {y \in {recon[c].op} : copies # {}} |-> CHOOSE w \in copies : TRUE]
<1>2. rec \in NoteReservation /\ RecordOK(rec, chain, spent)
  BY <1>1, StoredRecord DEF EvidenceInv
<1>3. to \in ReservationStatus /\ to \in AfterBroadcast
  BY DEF TargetStatuses, ReservationStatus, AfterBroadcast
<1>4. /\ to = "ConfirmedSpent" => rec.key \in spent
      /\ to = "Failed" => rec.tx \in TxIDs /\ chain[rec.tx] = "failed"
      /\ ops = "Succeeded" => \A op \in recon[c].copy : op.tx \in TxIDs /\ chain[op.tx] = "succeeded"
  <2> DEFINE copy == recon[c].copy
             e == recon[c].e
             status == recon[c].status
  <2>1. /\ copy \in OperationCopies /\ EvidenceOK(e, rec, chain, spent)
        /\ Target(status, copy, e, to, ops)
    BY <1>1
  <2> HIDE DEF rec, copy, e, status
  <2>2. OutcomeTrue(rec, copy, chain, spent, to, ops)
    BY <1>2, <2>1, TargetTrue
  <2> QED BY <2>2 DEF copy, OutcomeTrue
<1>5. /\ reservations' = Updated(reservations, [x \in {r} |-> moved])
      /\ operations' = Updated(operations, written)
      /\ recon' = [recon EXCEPT ![c] = Idle]
      /\ UNCHANGED <<chain, spent>>
  BY <1>1 DEF TransitionWithOperation, StoreReservations, Commit
<1>6. \A w \in copies : OutcomeOK(w, chain)
  <2> SUFFICES ASSUME NEW w \in copies PROVE OutcomeOK(w, chain)
    OBVIOUS
  <2>1. w.status = ops /\ \A op \in recon[c].copy : w.tx = op.tx
    BY SMTT(120), <1>1, UpdateIsCopy
  <2>2. recon[c].copy # {}
    BY DEF OperationUpdate
  <2> QED BY <1>4, <2>1, <2>2 DEF OutcomeOK
<1>7. \A x \in DOMAIN written : OutcomeOK(written[x], chain)
  <2>1. copies # {} => (CHOOSE w \in copies : TRUE) \in copies
    OBVIOUS
  <2> HIDE DEF copies
  <2> QED BY <1>6, <2>1
<1>8. \A o \in DOMAIN operations' : OutcomeOK(operations'[o], chain')
  <2> HIDE DEF written
  <2> QED BY <1>5, <1>7 DEF Updated, EvidenceInv
<1>9. moved.key = rec.key /\ moved.op = rec.op /\ moved.tx = rec.tx /\ moved.status = to
  <2> HIDE DEF rec
  <2> QED BY <1>2, <1>3 DEF Moved, ClearLease, NoteReservation
<1> HIDE DEF moved, copies, written
<1>10. /\ DOMAIN reservations' = DOMAIN reservations
       /\ reservations'[r] = moved
       /\ \A x \in DOMAIN reservations : x # r => reservations'[x] = reservations[x]
  BY <1>1, <1>5 DEF Updated
<1>11. Carried(reservations, reservations')
  BY <1>1, <1>9, <1>10 DEF Carried
<1>12. ASSUME NEW x \in DOMAIN reservations' PROVE RecordOK(reservations'[x], chain', spent')
  <2>1. CASE x = r
    <3>1. RecordOK(moved, chain, spent)
      BY <1>2, <1>3, <1>4, <1>9 DEF RecordOK
    <3> QED BY <1>5, <1>10, <2>1, <3>1
  <2>2. CASE x # r
    BY <1>5, <1>10, <2>2 DEF EvidenceInv
  <2> QED BY <2>1, <2>2
<1>13. CallOK(Idle, reservations', chain', spent')
  BY DEF CallOK, Idle
<1>14. /\ recon'[c] = Idle
       /\ \A d \in Reconcilers : d # c => recon'[d] = recon[d]
       /\ recon' \in [Reconcilers -> {recon'[d] : d \in Reconcilers}]
  BY <1>5 DEF EvidenceInv
<1>15. \A d \in Reconcilers :
         recon'[d] = recon[d] \/ CallOK(recon'[d], reservations', chain', spent')
  BY <1>13, <1>14
<1>16. ChainGrows(chain, chain', spent, spent')
  BY <1>5 DEF ChainGrows
<1>17. EvidenceInv'
  BY <1>5, <1>8, <1>11, <1>12, <1>14, <1>15, <1>16, EvidenceStep DEF EvidenceInv
<1> QED BY <1>11, <1>17 DEF KeepsResolved, Carried

-----------------------------------------------------------------------------
(* Of the chain and the reconcilers only a broadcast and Commit, the        *)
(* transition of Reconcile, touch the store.                                *)
LEMMA ReconCases ==
    ASSUME ReconNext
    PROVE  \/ \E refs \in RefMaps, tx \in TxIDs, now \in Now : Submit(refs, tx, now)
           \/ \E c \in Reconcilers : Commit(c)
           \/ UNCHANGED storeVars
<1>1. ASSUME NEW tx, Include(tx) PROVE UNCHANGED storeVars
  BY <1>1 DEF Include
<1>2. ASSUME NEW k, ForeignSpend(k) PROVE UNCHANGED storeVars
  BY <1>2 DEF ForeignSpend
<1>3. ASSUME NEW c, NEW r, NEW indexed, Observe(c, r, indexed) PROVE UNCHANGED storeVars
  BY <1>3 DEF Observe
<1>4. ASSUME NEW c, LoadReservation(c) \/ LoadOperation(c) PROVE UNCHANGED storeVars
  BY <1>4 DEF LoadReservation, LoadOperation
<1>5. ASSUME NEW c, Return(c) \/ Crash(c) PROVE UNCHANGED storeVars
  BY <1>5 DEF Return, Crash
<1> QED BY <1>1, <1>2, <1>3, <1>4, <1>5 DEF ReconNext

(* Every step of a worker, of the chain or of a reconciler is one the store *)
(* accepts, and keeps what StoreSafety says of it.                          *)
LEMMA LifeStoreStep ==
    ASSUME LifeInv, LifeNext
    PROVE  StoreInv'
<1> USE DEF LifeInv
<1>1. ASSUME WorkerCall PROVE StoreInv'
  <2>1. {"Reserved", "Proving", "Released"} \subseteq ReservationStatus
    BY DEF ReservationStatus
  <2>2. ServiceNext
    BY <1>1, <2>1 DEF WorkerCall, ServiceNext
  <2> QED BY <2>2, ServiceStep
<1>2. ASSUME NEW refs \in RefMaps, NEW tx \in TxIDs, NEW now \in Now, Submit(refs, tx, now)
      PROVE  StoreInv'
  <2>1. ServiceNext
    BY <1>2 DEF Submit, ServiceNext
  <2> QED BY <2>1, ServiceStep
<1>3. ASSUME NEW c \in Reconcilers, Commit(c) PROVE StoreInv'
  <2>1. PICK to \in TargetStatuses, ops \in TargetOperationStatuses :
           /\ recon[c].r \in DOMAIN reservations
           /\ recon[c].copy \in OperationCopies
           /\ recon[c].status = reservations[recon[c].r].status
           /\ TransitionWithOperation(recon[c].r, recon[c].status, to, recon[c].op,
                                      OperationUpdate(recon[c].copy, ops))
    BY <1>3, CommitShape
  <2> DEFINE r == recon[c].r
             from == recon[c].status
             o == recon[c].op
             upd == OperationUpdate(recon[c].copy, ops)
  <2>2. from \in ReservationStatus /\ to \in ReservationStatus
    BY <2>1, StoredRecord DEF NoteReservation, TargetStatuses, ReservationStatus
  <2>3. upd \in OperationCopies /\ TransitionWithOperation(r, from, to, o, upd)
    BY <2>1, UpdateIsCopy
  <2> HIDE DEF r, from, o, upd
  <2>4. ServiceUpdate
    BY <2>2, <2>3, TransitionWithOperationFits
  <2> QED BY <2>4, ServiceUpdateInv
<1>4. ASSUME UNCHANGED storeVars PROVE StoreInv'
  BY <1>4, StoreStutter
<1> QED BY <1>1, <1>2, <1>3, <1>4, ReconCases DEF LifeNext

(* The invariant is inductive, and no step touches a resolved reservation. *)
LEMMA LifeStep ==
    ASSUME LifeInv, LifeNext
    PROVE  LifeInv' /\ KeepsResolved
<1>1. EvidenceInv' /\ KeepsResolved
  BY WorkerCallKeeps, SubmitKeeps, IncludeKeeps, ForeignSpendKeeps, ObserveKeeps,
     LoadReservationKeeps, LoadOperationKeeps, CommitKeeps, ReturnKeeps DEF LifeNext, ReconNext
<1> QED BY <1>1, LifeStoreStep DEF LifeInv

(* The invariant holds of an empty store and a chain that knows nothing. *)
LEMMA LifeInitInv == ReconInit => LifeInv
<1> SUFFICES ASSUME ReconInit PROVE LifeInv
  OBVIOUS
<1>1. StoreInv
  BY StoreInitInv DEF ReconInit
<1>2. DOMAIN reservations = {} /\ DOMAIN operations = {}
  BY DEF ReconInit, StoreInit
<1>3. \A c \in Reconcilers : CallOK(recon[c], reservations, chain, spent)
  BY DEF ReconInit, Idle, CallOK
<1>4. /\ chain \in [TxIDs -> TxState]
      /\ recon \in [Reconcilers -> {recon[c] : c \in Reconcilers}]
  BY DEF ReconInit, TxState
<1> QED BY <1>1, <1>2, <1>3, <1>4 DEF LifeInv, EvidenceInv

(* The invariant of the whole life of reservations: the store's own, and    *)
(* that evidence and copies read at different times by Reconcile still      *)
(* describe the reservation's own transaction when they are written.        *)
THEOREM LifeSafety == LifeSpec => []LifeInv
<1>1. LifeInv /\ [LifeNext]_reconVars => LifeInv'
  <2>1. ASSUME LifeInv, UNCHANGED reconVars PROVE LifeInv'
    <3>1. StoreInv'
      BY <2>1, StoreStutter DEF reconVars, LifeInv
    <3>2. EvidenceInv'
      BY <2>1 DEF reconVars, storeVars, LifeInv, EvidenceInv
    <3> QED BY <3>1, <3>2 DEF LifeInv
  <2> QED BY <2>1, LifeStep
<1> QED BY <1>1, LifeInitInv, PTL DEF LifeSpec

(* However old the evidence and the copies a reconciler wrote, a note is    *)
(* ConfirmedSpent only if the chain has its nullifier, and an operation     *)
(* Succeeded only if its own transaction succeeded.                         *)
THEOREM ConfirmedSafe == LifeSpec => []ConfirmedMeansSpent
<1>1. LifeInv => ConfirmedMeansSpent
  BY DEF LifeInv, EvidenceInv, RecordOK, OutcomeOK, ConfirmedMeansSpent
<1> QED BY <1>1, LifeSafety, PTL

(* Reconcile gives a note up as Failed only when its own transaction failed *)
(* on the chain.                                                            *)
THEOREM FailedSafe == LifeSpec => []FailedMeansTxFailed
<1>1. LifeInv => FailedMeansTxFailed
  BY DEF LifeInv, EvidenceInv, RecordOK, FailedMeansTxFailed
<1> QED BY <1>1, LifeSafety, PTL

(* A resolved reservation stays resolved: no worker and no late reconciler  *)
(* changes the status of a ConfirmedSpent or Failed one.                    *)
THEOREM ResolvedFinal == LifeSpec => [][KeepsResolved]_reconVars
<1>1. LifeInv /\ [LifeNext]_reconVars => [KeepsResolved]_reconVars
  BY LifeStep
<1> QED BY <1>1, LifeSafety, PTL DEF LifeSpec

-----------------------------------------------------------------------------
(* An operation whose status a step leaves, or sets to one that is neither  *)
(* ProofReady nor Submitted, moves nothing.                                 *)
LEMMA QuietMovesWhole ==
    ASSUME \A o \in DOMAIN operations :
              \/ operations'[o].status = operations[o].status
              \/ operations'[o].status \notin {"ProofReady", "Submitted"}
    PROVE  MovesWhole
  BY DEF MovesWhole

(* The store writes upd for the reservations refs and opsUpd for their      *)
(* operations ops, all with the same status.                                *)
BatchWritten(refs, ops, upd, opsUpd, status) ==
    /\ LinksComplete(refs, ops)
    /\ reservations' = Updated(reservations, upd) /\ DOMAIN upd = DOMAIN refs
    /\ \A r \in DOMAIN upd : upd[r].status = status
    /\ operations' = Updated(operations, opsUpd) /\ DOMAIN opsUpd = ops
    /\ \A o \in ops : opsUpd[o].status = status

(* A batch that records status for the operations ops moves every active    *)
(* reservation of them: the link check refuses a list that leaves one out.  *)
LEMMA BatchMovesWhole ==
    ASSUME NEW refs, NEW ops, NEW upd, NEW opsUpd, NEW status,
           BatchWritten(refs, ops, upd, opsUpd, status)
    PROVE  MovesWhole
<1> USE DEF BatchWritten
<1> SUFFICES ASSUME NEW o \in DOMAIN operations, operations'[o].status # operations[o].status,
                    NEW r \in ActiveIn(reservations), reservations[r].op = o
             PROVE  reservations'[r].status = operations'[o].status
  BY DEF MovesWhole
<1>1. o \in ops
  BY DEF Updated
<1>2. r \in DOMAIN refs
  BY <1>1 DEF LinksComplete
<1>3. reservations'[r] = upd[r] /\ operations'[o] = opsUpd[o]
  BY <1>1, <1>2 DEF Updated
<1> QED BY <1>1, <1>2, <1>3

(* Only MarkReservationsProofReady and MarkReservationsSubmitted write      *)
(* these statuses, and they move the operation whole.                       *)
LEMMA StepMovesWhole ==
    ASSUME LifeInv, LifeNext
    PROVE  MovesWhole
<1> USE DEF LifeInv
<1>0. \A o \in DOMAIN operations : operations[o] \in PayrollOperation
  BY DEF StoreInv, IndexInv, StoreTypeOK
<1>1. ASSUME UNCHANGED operations PROVE MovesWhole
  BY <1>1, QuietMovesWhole
<1>2. ASSUME NEW new \in NewBatches, NEW newOps \in SUBSET OperationIDs, ReserveBatch(new, newOps)
      PROVE  MovesWhole
  <2>1. \A o \in DOMAIN operations : operations'[o] = operations[o]
    BY <1>2 DEF ReserveBatch, Updated
  <2> QED BY <2>1, QuietMovesWhole
<1>3. ASSUME NEW o \in OperationIDs, CreateOperation(o) PROVE MovesWhole
  <2>1. \A x \in DOMAIN operations : operations'[x] = operations[x]
    BY <1>3 DEF CreateOperation, Updated
  <2> QED BY <2>1, QuietMovesWhole
<1>4. ASSUME NEW refs \in RefMaps, NEW digest \in Digests \cup {None}, NEW now \in Now,
             MarkProofReady(refs, digest, now)
      PROVE  MovesWhole
  <2> DEFINE proved(r) == [reservations[r] EXCEPT !.status = "ProofReady"]
             upd == [r \in DOMAIN refs |-> proved(r)]
             ready(o) == [operations[o] EXCEPT !.status = "ProofReady",
                  !.expected = CHOOSE d \in Merged(operations[o].expected, digest) : TRUE]
             ops == LinkedOps(refs)
             opsUpd == [o \in ops |-> ready(o)]
             status == "ProofReady"
  <2>1. /\ reservations' = Updated(reservations, upd) /\ LinksComplete(refs, ops)
        /\ operations' = Updated(operations, opsUpd) /\ ops \subseteq DOMAIN operations
        /\ LeasedAt(refs, "Proving", now)
    BY <1>4 DEF MarkProofReady, StoreReservations
  <2>2. \A o \in ops : ready(o).status = status
    BY <1>0, <2>1 DEF PayrollOperation
  <2>3. \A r \in DOMAIN refs : proved(r).status = status
    BY <2>1, StoredRecord DEF LeasedAt, NoteReservation
  <2> HIDE DEF ready, proved, status
  <2>4. /\ DOMAIN opsUpd = ops /\ \A o \in ops : opsUpd[o].status = status
        /\ DOMAIN upd = DOMAIN refs /\ \A r \in DOMAIN upd : upd[r].status = status
    BY <2>2, <2>3
  <2> HIDE DEF upd, ops, opsUpd
  <2>5. BatchWritten(refs, ops, upd, opsUpd, status)
    BY <2>1, <2>4 DEF BatchWritten
  <2> QED BY <2>5, BatchMovesWhole
<1>5. ASSUME NEW refs \in RefMaps, NEW tx \in TxIDs, NEW now \in Now, Submit(refs, tx, now)
      PROVE  MovesWhole
  <2>1. PICK status \in {"Submitted", "Unknown"} : MarkBroadcast(status, refs, tx, now)
    BY <1>5 DEF Submit, MarkSubmitted, MarkBroadcastUnknown
  <2> DEFINE mv(r) == ClearLease([reservations[r] EXCEPT !.status = status, !.tx = tx])
             upd == [r \in DOMAIN refs |-> mv(r)]
             sent(o) == [operations[o] EXCEPT !.status = status, !.tx = tx]
             ops == LinkedOps(refs)
             opsUpd == [o \in ops |-> sent(o)]
  <2>2. /\ reservations' = Updated(reservations, upd) /\ LinksComplete(refs, ops)
        /\ operations' = Updated(operations, opsUpd) /\ ops \subseteq DOMAIN operations
        /\ LeasedAt(refs, "ProofReady", now)
    BY <2>1 DEF MarkBroadcast, StoreReservations
  <2>3. \A o \in ops : sent(o).status = status
    BY <1>0, <2>2 DEF PayrollOperation
  <2>4. \A r \in DOMAIN refs : mv(r).status = status
    BY <2>2, StoredRecord DEF LeasedAt, ClearLease, NoteReservation
  <2> HIDE DEF sent, mv
  <2>5. /\ DOMAIN opsUpd = ops /\ \A o \in ops : opsUpd[o].status = status
        /\ DOMAIN upd = DOMAIN refs /\ \A r \in DOMAIN upd : upd[r].status = status
    BY <2>3, <2>4
  <2> HIDE DEF upd, ops, opsUpd
  <2>6. BatchWritten(refs, ops, upd, opsUpd, status)
    BY <2>2, <2>5 DEF BatchWritten
  <2> QED BY <2>6, BatchMovesWhole
<1>6. ASSUME NEW c \in Reconcilers, Commit(c) PROVE MovesWhole
  <2>1. PICK to \in TargetStatuses, ops \in TargetOperationStatuses :
           /\ recon[c].copy \in OperationCopies
           /\ TransitionWithOperation(recon[c].r, recon[c].status, to, recon[c].op,
                                      OperationUpdate(recon[c].copy, ops))
    BY <1>6, CommitShape
  <2> DEFINE copies == OperationUpdate(recon[c].copy, ops)
             written == [x \in {y \in {recon[c].op} : copies # {}} |-> CHOOSE w \in copies : TRUE]
  <2>2. operations' = Updated(operations, written)
    BY <2>1 DEF TransitionWithOperation
  <2>3. \A w \in copies : w.status = ops
    BY SMTT(120), <2>1, UpdateIsCopy
  <2>4. copies # {} => (CHOOSE w \in copies : TRUE) \in copies
    OBVIOUS
  <2> HIDE DEF copies
  <2>5. \A x \in DOMAIN written : written[x].status = ops
    BY <2>3, <2>4
  <2> HIDE DEF written
  <2>6. \A o \in DOMAIN operations :
          \/ operations'[o].status = operations[o].status
          \/ operations'[o].status \notin {"ProofReady", "Submitted"}
    BY <2>2, <2>5 DEF Updated, TargetOperationStatuses
  <2> QED BY <2>6, QuietMovesWhole
<1>7. ASSUME WorkerCall PROVE MovesWhole
  <2>1. ASSUME NEW r, NEW from, NEW to, Transition(r, from, to) PROVE UNCHANGED operations
    BY <2>1 DEF Transition
  <2>2. ASSUME NEW r, NEW token, NEW from, NEW to, NEW now,
               \/ TransitionWithLease(r, token, from, to, now)
               \/ ClearReservationLease(r, token, now)
        PROVE  UNCHANGED operations
    BY <2>2 DEF TransitionWithLease, ClearReservationLease
  <2>3. ASSUME NEW r, NEW token, NEW now, NEW ttl,
               AcquireLease(r, now, ttl) \/ HeartbeatLease(r, token, now, ttl)
        PROVE  UNCHANGED operations
    BY <2>3 DEF AcquireLease, HeartbeatLease
  <2>4. ASSUME Tick PROVE UNCHANGED operations
    BY <2>4 DEF Tick
  <2> QED BY <1>1, <1>2, <1>3, <1>4, <1>7, <2>1, <2>2, <2>3, <2>4 DEF WorkerCall
<1>8. ASSUME UNCHANGED storeVars PROVE MovesWhole
  BY <1>1, <1>8 DEF storeVars
<1> QED BY <1>5, <1>6, <1>7, <1>8, ReconCases DEF LifeNext

(* Over the whole life of reservations an operation is proved and broadcast *)
(* whole: no active input is left behind in an earlier state.               *)
THEOREM MovesWholeSafe == LifeSpec => OperationMovesWhole
<1> DEFINE A == \A o \in DOMAIN operations :
                  LET s == operations'[o].status IN
                  (s \in {"ProofReady", "Submitted"} /\ s # operations[o].status) =>
                     \A r \in ActiveIn(reservations) :
                         reservations[r].op = o => reservations'[r].status = s
<1>1. LifeInv /\ [LifeNext]_reconVars => [A]_storeVars
  BY StepMovesWhole DEF MovesWhole, reconVars
<1> QED BY <1>1, LifeSafety, PTL DEF LifeSpec, OperationMovesWhole
=============================================================================
