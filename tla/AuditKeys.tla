----------------------------- MODULE AuditKeys -----------------------------
(***************************************************************************)
(* The audit-key epochs and the halt switch of the audit-field lane of     *)
(* x/privacy (keeper/audit_keys.go): governance schedules a key for a      *)
(* future height, may cancel it before that height, and the block whose    *)
(* height is reached activates it before any transaction of the block.     *)
(*                                                                         *)
(* Every message runs inside the block at `height`; a message that the     *)
(* code refuses changes nothing and is no step of the model.  The key      *)
(* material (suite, point, proof of possession) is a model value.          *)
(***************************************************************************)
EXTENDS Integers

CONSTANTS KeyIDs,         \* audit key identifiers governance may register
          InitialKey,     \* the key of the fresh genesis
          InitialHeight,  \* the first block of the chain
          MaxInt64,       \* largest activation height the code accepts
          MaxUint64       \* largest epoch number

ASSUME KeyAssumption ==
    /\ InitialKey \in KeyIDs
    /\ InitialHeight \in Nat \ {0}
    /\ MaxInt64 \in Nat /\ InitialHeight <= MaxInt64
    /\ MaxUint64 \in Nat \ {0}

VARIABLES height,       \* ctx.BlockHeight() of the block being executed
          auditKey,     \* prefix auditEpochPrefix: epoch -> auditKeyRecord
          activation,   \* prefix auditActivationPrefix: the pending pointers
          active,       \* auditActivePrefix: the active (epoch, height)
          cancelled,    \* prefix auditCancellationPrefix: the epochs
          halted        \* auditHaltPrefix

keyVars == <<height, auditKey, activation, active, cancelled, halted>>

Epochs == 1 .. MaxUint64

AuditKeyRecord == [keyID : KeyIDs, activationHeight : Nat, registeredHeight : Nat]

Pointer == [epoch : Epochs, height : Nat]

-----------------------------------------------------------------------------
(* freshEntries: the genesis key is epoch 1, registered and active at the   *)
(* height before the first block; the activation queue is empty.            *)
KeyInit ==
    /\ height = InitialHeight - 1
    /\ auditKey = [e \in {1} |-> [keyID            |-> InitialKey,
                                  activationHeight |-> InitialHeight - 1,
                                  registeredHeight |-> InitialHeight - 1]]
    /\ activation = {}
    /\ active = [epoch |-> 1, height |-> InitialHeight - 1]
    /\ cancelled = {}
    /\ halted = FALSE

(* auditExecutionOrigin: a delivered message of a block of the chain.       *)
Delivering == height >= InitialHeight

(* activeAuditKey succeeds: the pointer agrees with the record it names,    *)
(* and the record's activation height has been reached.                     *)
ActiveKeyValid ==
    /\ active.epoch \in DOMAIN auditKey
    /\ auditKey[active.epoch].activationHeight = active.height
    /\ active.height <= height

(* maxAuditEpoch(newID) returns max without an error: the history is        *)
(* contiguous and no epoch, cancelled or not, has used the key.             *)
MaxAuditEpoch(max, newID) ==
    /\ DOMAIN auditKey = 1 .. max
    /\ \A e \in 1 .. max : auditKey[e].keyID # newID

(* The epoch of a schedule message: the successor of the registered maximum, *)
(* which exists and is not the last uint64.                                 *)
NextEpoch(e, max) == max # 0 /\ max # MaxUint64 /\ e = max + 1

(* The activation height of a schedule message: in the future, and an int64.*)
FutureOrNow(h) == h >= height /\ h <= MaxInt64

FutureHeight(h) == h > height /\ h <= MaxInt64

(* The pointer stored under activation height h is deleted.                 *)
WithoutPointer(h) == {p \in activation : p.height # h}

-----------------------------------------------------------------------------
(* ScheduleAuditKeyEpoch: a future activation height, nothing pending, the  *)
(* next epoch number and a key never used before.  One cache write stores   *)
(* the record and its activation pointer.                                   *)
ScheduleAuditKeyEpoch(e, k, h) ==
    /\ Delivering
    /\ FutureHeight(h)
    /\ activation = {}
    /\ \E max \in 0 .. MaxUint64 : MaxAuditEpoch(max, k) /\ NextEpoch(e, max)
    /\ auditKey' = [d \in DOMAIN auditKey \cup {e} |->
                      IF d = e THEN [keyID |-> k, activationHeight |-> h,
                                     registeredHeight |-> height]
                               ELSE auditKey[d]]
    /\ activation' = WithoutPointer(h) \cup {[epoch |-> e, height |-> h]}
    /\ UNCHANGED <<height, active, cancelled, halted>>

(* CancelPendingAuditEpoch: only the pending epoch, only before its height; *)
(* the cancellation is immutable and the pointer goes with it.              *)
CancelPendingAuditEpoch(e) ==
    /\ Delivering
    /\ \E p \in activation :
         /\ activation = {p} /\ p.epoch = e /\ p.height > height
         /\ activation' = WithoutPointer(p.height)
    /\ e \notin cancelled
    /\ cancelled' = cancelled \cup {e}
    /\ UNCHANGED <<height, auditKey, active, halted>>

(* SetPrivacyHalt: resuming requires a usable active key and a well-formed  *)
(* history; halting requires nothing.                                       *)
SetPrivacyHalt(b) ==
    /\ Delivering
    /\ b \/ (ActiveKeyValid /\ \E max \in 0 .. MaxUint64 : DOMAIN auditKey = 1 .. max)
    /\ halted' = b
    /\ UNCHANGED <<height, auditKey, activation, active, cancelled>>

(* BeginAuditBlock runs before every transaction of the block at height+1.  *)
(* No pointer, or one for a later height: nothing happens.  A pointer for   *)
(* this height becomes the active key.  Anything else is an error of        *)
(* BeginBlock, and the chain cannot take the block: no step is possible.    *)
NothingDue == activation = {} \/ \E p \in activation : activation = {p} /\ p.height > height + 1

DueNow(p) ==
    /\ activation = {p} /\ p.height = height + 1
    /\ p.epoch \in DOMAIN auditKey
    /\ auditKey[p.epoch].activationHeight = p.height
    /\ p.epoch \notin cancelled

BlockUnlessHalted ==
    /\ ~halted
    /\ height' = height + 1
    /\ \/ NothingDue /\ UNCHANGED <<activation, active>>
       \/ \E p \in activation : DueNow(p) /\ active' = p /\ activation' = WithoutPointer(p.height)
    /\ UNCHANGED <<auditKey, cancelled, halted>>

BeginAuditBlock ==
    /\ height' = height + 1
    /\ \/ NothingDue /\ UNCHANGED <<activation, active>>
       \/ \E p \in activation :
            /\ DueNow(p)
            /\ active' = p
            /\ activation' = WithoutPointer(p.height)
    /\ UNCHANGED <<auditKey, cancelled, halted>>

-----------------------------------------------------------------------------
(* The management state a stopped chain exports and takes back at the       *)
(* restart height, the next one (exportAuditManagementState,                *)
(* auditMetadataEntriesFromGenesis).                                        *)
RestartHeight == height + 1

(* The management part of a genesis file; its history lists the epochs from *)
(* the first on.                                                            *)
KeyFile ==
    [history   : UNION {[1 .. n -> AuditKeyRecord] : n \in Nat},
     active    : Nat,
     pending   : SUBSET Pointer,
     cancelled : SUBSET Nat,
     halted    : BOOLEAN]

(* The export reads the whole store: a contiguous history, a usable active  *)
(* key and at most one pointer.                                             *)
KeysExportable ==
    /\ \E max \in Epochs : DOMAIN auditKey = 1 .. max
    /\ ActiveKeyValid
    /\ \A p, q \in activation : p = q

(* The active pointer is exported as its epoch only.                        *)
ExportedKeys ==
    [history   |-> auditKey,
     active    |-> active.epoch,
     pending   |-> activation,
     cancelled |-> cancelled,
     halted    |-> halted]

(* auditKeyRecord.validate: the genesis key belongs to the height before    *)
(* the first block, every other key was registered before its activation.   *)
RecordValid(e, r) ==
    /\ r.activationHeight <= MaxInt64 /\ r.registeredHeight <= MaxInt64
    /\ IF e = 1 THEN r.activationHeight = InitialHeight - 1 /\ r.registeredHeight = InitialHeight - 1
                ELSE r.activationHeight > r.registeredHeight

(* The pending pointer of a file: of a known epoch, at its height, and      *)
(* still to come at the restart height.                                     *)
PendingDueOrAhead(g, p) ==
    /\ p.epoch \in DOMAIN g.history
    /\ g.history[p.epoch].activationHeight = p.height
    /\ p.height >= RestartHeight

PendingAhead(g, p) ==
    /\ p.epoch \in DOMAIN g.history
    /\ g.history[p.epoch].activationHeight = p.height
    /\ p.height > RestartHeight

MetadataAccepted(g) ==
    /\ \E max \in Epochs : DOMAIN g.history = 1 .. max
    /\ \A e \in DOMAIN g.history : RecordValid(e, g.history[e])
    /\ g.history[1].keyID = InitialKey
    /\ g.active \in DOMAIN g.history
    /\ g.history[g.active].activationHeight <= RestartHeight
    /\ \A p \in g.pending : PendingAhead(g, p)
    /\ g.cancelled \subseteq DOMAIN g.history

(* The pointer written back takes its height from the history.              *)
ActiveImported(g) == [epoch |-> g.active, height |-> g.history[g.active].activationHeight]

-----------------------------------------------------------------------------
KeyNext ==
    \/ \E e \in Epochs, k \in KeyIDs, h \in 0 .. MaxInt64 : ScheduleAuditKeyEpoch(e, k, h)
    \/ \E e \in Epochs : CancelPendingAuditEpoch(e)
    \/ \E b \in BOOLEAN : SetPrivacyHalt(b)
    \/ BeginAuditBlock

KeySpec == KeyInit /\ [][KeyNext]_keyVars

-----------------------------------------------------------------------------
(* The type invariant of the key store. *)
KeyTypeOK ==
    /\ height \in Nat
    /\ \E n \in Epochs : auditKey \in [1 .. n -> AuditKeyRecord]
    /\ activation \in SUBSET Pointer
    /\ active \in Pointer
    /\ cancelled \in SUBSET Epochs
    /\ halted \in BOOLEAN

(* BeginAuditBlock never returns an error: at every reachable state the     *)
(* pending pointer is absent, in the future, or due and activatable, so no  *)
(* sequence of schedules and cancels makes the chain miss an activation     *)
(* ("missed audit key activation", "cancelled audit epoch cannot activate").*)
BeginBlockNeverFails == NothingDue \/ \E p \in activation : DueNow(p)

(* The active pointer is always the greatest epoch whose height has been    *)
(* reached and that was not cancelled, and activeAuditKey can read it.      *)
ActiveIsLatestDue ==
    /\ ActiveKeyValid
    /\ active.epoch \notin cancelled
    /\ \A e \in DOMAIN auditKey :
         (e \notin cancelled /\ auditKey[e].activationHeight <= height) => e <= active.epoch

(* No key ever serves two epochs, even when one of them was cancelled       *)
(* ("audit key ID cannot be reused").                                       *)
KeyUsedOnce ==
    \A d, e \in DOMAIN auditKey : auditKey[d].keyID = auditKey[e].keyID => d = e

(* The active key changes only between blocks, to a later epoch, exactly at *)
(* the height it was announced for: every transaction of one block is       *)
(* audited under one key.                                                   *)
ActiveChangesAtItsHeight ==
    [][active' # active =>
         /\ height' = height + 1
         /\ active'.height = height'
         /\ active'.epoch > active.epoch]_keyVars

(* The key store can always be exported, and a restart takes it back with   *)
(* the same active pointer, unless a key is pending for the restart height  *)
(* itself: that export is refused ("invalid exported pending audit          *)
(* activation"), although BeginAuditBlock of that height would activate the *)
(* key.  A cancel, or one more block, makes an export that is accepted.     *)
KeysTakenBack ==
    Delivering =>
        /\ KeysExportable
        /\ MetadataAccepted(ExportedKeys) <=> \A p \in activation : p.height # RestartHeight
        /\ ActiveImported(ExportedKeys) = active

(* Every scheduled epoch is eventually activated or cancelled. *)
PendingResolves ==
    \A e \in Epochs :
        (\E p \in activation : p.epoch = e) ~> (active.epoch = e \/ e \in cancelled)
=============================================================================
