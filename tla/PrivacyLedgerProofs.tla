------------------------ MODULE PrivacyLedgerProofs ------------------------
(***************************************************************************)
(* Proofs about AuditKeys, PrivacyLedger and LegacyLane, for every set of  *)
(* keys, every initial height and every width of heights and epochs, and   *)
(* for every set of accounts, denoms and notes, every capacity and every   *)
(* initial distribution of coins: first the key schedule and what the      *)
(* audit lane checks, then that the lane neither creates nor loses value,  *)
(* that its scan is its ledger and that a note can be withdrawn, and last  *)
(* the same of the legacy lane.                                            *)
(***************************************************************************)
EXTENDS PrivacyLedger, LegacyLane, FiniteSetTheorems, TLAPS

(* The provers tried on a leaf that names none, and their time limits. *)
USE ZenonT(120), SMTT(120)

(* What the schedule maintains between messages: at most one pointer, for   *)
(* the last registered epoch, in the future, not cancelled and agreeing     *)
(* with its record; and every other uncancelled epoch is at most active.    *)
PendingShape ==
    \/ activation = {}
    \/ \E p \in Pointer :
         /\ activation = {p}
         /\ DOMAIN auditKey = 1 .. p.epoch
         /\ auditKey[p.epoch].activationHeight = p.height
         /\ p.height > height
         /\ p.epoch \notin cancelled
         /\ p.epoch > active.epoch

EpochAccounted ==
    \A e \in DOMAIN auditKey :
        e <= active.epoch \/ e \in cancelled \/ \E p \in activation : p.epoch = e

KeyInv ==
    /\ KeyTypeOK
    /\ ActiveKeyValid
    /\ active.epoch \notin cancelled
    /\ cancelled \subseteq DOMAIN auditKey
    /\ PendingShape
    /\ EpochAccounted
    /\ KeyUsedOnce

(* The fresh genesis state satisfies the invariant. *)
LEMMA KeyInitInv == KeyInit => KeyInv
<1> SUFFICES ASSUME KeyInit PROVE KeyInv
  OBVIOUS
<1> USE KeyAssumption
<1>1. 1 \in Epochs /\ 1 .. 1 = {1}
  BY DEF Epochs
<1>2. KeyTypeOK
  <2>1. auditKey \in [1 .. 1 -> AuditKeyRecord]
    BY SMTT(120), <1>1 DEF KeyInit, AuditKeyRecord
  <2>2. \E n \in Epochs : auditKey \in [1 .. n -> AuditKeyRecord]
    BY <1>1, <2>1
  <2>3. height \in Nat /\ active \in Pointer
    BY SMTT(120), <1>1 DEF KeyInit, Pointer
  <2> QED BY <2>2, <2>3 DEF KeyInit, KeyTypeOK
<1>3. ActiveKeyValid
  BY DEF KeyInit, ActiveKeyValid
<1>4. PendingShape /\ EpochAccounted /\ KeyUsedOnce
  BY DEF KeyInit, PendingShape, EpochAccounted, KeyUsedOnce
<1> QED BY <1>2, <1>3, <1>4 DEF KeyInit, KeyInv

(* Scheduling keeps the invariant: the new epoch is the one pending.        *)
LEMMA ScheduleInv ==
    ASSUME KeyInv, NEW e \in Epochs, NEW k \in KeyIDs, NEW h \in 0 .. MaxInt64,
           ScheduleAuditKeyEpoch(e, k, h)
    PROVE  KeyInv'
<1> USE KeyAssumption
<1> DEFINE rec == [keyID |-> k, activationHeight |-> h, registeredHeight |-> height]
<1>1. PICK max \in 0 .. MaxUint64 : MaxAuditEpoch(max, k) /\ NextEpoch(e, max)
  BY DEF ScheduleAuditKeyEpoch
<1>2. DOMAIN auditKey = 1 .. max /\ e = max + 1 /\ max \in Nat /\ max # 0
  BY SMTT(120), <1>1 DEF MaxAuditEpoch, NextEpoch
<1>3. PICK n \in Epochs : auditKey \in [1 .. n -> AuditKeyRecord]
  BY DEF KeyInv, KeyTypeOK
<1>4. auditKey \in [1 .. max -> AuditKeyRecord]
  BY <1>2, <1>3
<1>5. h \in Nat /\ height \in Nat /\ h > height /\ rec \in AuditKeyRecord
  BY SMTT(120) DEF ScheduleAuditKeyEpoch, FutureHeight, KeyInv, KeyTypeOK, AuditKeyRecord
<1>6. 1 .. max \cup {e} = 1 .. e
  BY SMTT(120), <1>2
<1>7. auditKey' = [d \in 1 .. e |-> IF d = e THEN rec ELSE auditKey[d]]
  BY <1>2, <1>6 DEF ScheduleAuditKeyEpoch
<1>8. activation' = {[epoch |-> e, height |-> h]}
  BY DEF ScheduleAuditKeyEpoch, WithoutPointer
<1>9. UNCHANGED <<height, active, cancelled, halted>>
  BY DEF ScheduleAuditKeyEpoch
<1>10. active \in Pointer /\ active.epoch \in 1 .. max /\ cancelled \subseteq 1 .. max
  BY <1>2 DEF KeyInv, KeyTypeOK, ActiveKeyValid
<1>11. \A d \in 1 .. max : d # e /\ d \in 1 .. e /\ auditKey'[d] = auditKey[d]
  BY <1>2, <1>7
<1>12. auditKey'[e] = rec /\ e \in 1 .. e
  BY <1>2, <1>7
<1>13. auditKey' \in [1 .. e -> AuditKeyRecord] /\ DOMAIN auditKey' = 1 .. e
  BY SMTT(120), <1>2, <1>4, <1>5, <1>7, <1>11
<1>14. [epoch |-> e, height |-> h] \in Pointer
  BY <1>5 DEF Pointer
<1>15. KeyTypeOK'
  BY <1>8, <1>9, <1>13, <1>14 DEF KeyInv, KeyTypeOK
<1>16. ActiveKeyValid'
  BY <1>9, <1>10, <1>11, <1>13 DEF KeyInv, ActiveKeyValid
<1>17. PendingShape'
  <2> DEFINE p == [epoch |-> e, height |-> h]
  <2>1. p.epoch = e /\ p.height = h /\ p \in Pointer
    BY <1>14
  <2>2. e \notin cancelled /\ e > active.epoch
    BY <1>2, <1>10
  <2>3. auditKey'[p.epoch].activationHeight = h
    BY <1>12, <2>1
  <2> HIDE DEF p
  <2> QED BY <1>5, <1>8, <1>9, <1>13, <2>1, <2>2, <2>3 DEF PendingShape, p
<1>18. EpochAccounted'
  <2> SUFFICES ASSUME NEW d \in 1 .. e
               PROVE d <= active.epoch \/ d \in cancelled \/ \E p \in activation' : p.epoch = d
    BY <1>9, <1>13 DEF EpochAccounted
  <2>1. CASE d = e
    BY <2>1, <1>8
  <2>2. CASE d # e
    <3>1. d \in 1 .. max
      BY <1>2, <2>2
    <3>2. activation = {}
      BY DEF ScheduleAuditKeyEpoch
    <3> QED BY <1>2, <3>1, <3>2 DEF KeyInv, EpochAccounted
  <2> QED BY <2>1, <2>2
<1>19. KeyUsedOnce'
  <2>1. \A d \in 1 .. max : auditKey[d].keyID # k
    BY <1>1 DEF MaxAuditEpoch
  <2>2. \A c, d \in 1 .. max : auditKey[c].keyID = auditKey[d].keyID => c = d
    BY <1>2 DEF KeyInv, KeyUsedOnce
  <2>3. \A d \in 1 .. e : d = e \/ d \in 1 .. max
    BY SMTT(120), <1>2
  <2>4. rec.keyID = k
    OBVIOUS
  <2> QED BY <1>11, <1>12, <1>13, <2>1, <2>2, <2>3, <2>4 DEF KeyUsedOnce
<1>20. (active.epoch \notin cancelled)' /\ (cancelled \subseteq DOMAIN auditKey)'
  BY SMTT(120), <1>2, <1>9, <1>10, <1>13 DEF KeyInv
<1> QED BY <1>15, <1>16, <1>17, <1>18, <1>19, <1>20 DEF KeyInv

(* Cancelling keeps the invariant: the pointer leaves with the epoch.       *)
LEMMA CancelInv ==
    ASSUME KeyInv, NEW e \in Epochs, CancelPendingAuditEpoch(e)
    PROVE  KeyInv'
<1> USE KeyAssumption
<1>1. PICK p \in activation : activation = {p} /\ p.epoch = e /\ activation' = WithoutPointer(p.height)
  BY DEF CancelPendingAuditEpoch
<1>2. activation' = {}
  BY <1>1 DEF WithoutPointer
<1>3. UNCHANGED <<height, auditKey, active, halted>> /\ cancelled' = cancelled \cup {e}
  BY DEF CancelPendingAuditEpoch
<1>4. DOMAIN auditKey = 1 .. e /\ e > active.epoch
  BY <1>1 DEF KeyInv, PendingShape
<1>5. active.epoch # e
  BY SMTT(120), <1>4 DEF KeyInv, KeyTypeOK, Pointer, Epochs
<1>6. KeyTypeOK'
  BY <1>2, <1>3 DEF KeyInv, KeyTypeOK
<1>7. ActiveKeyValid' /\ KeyUsedOnce'
  BY <1>3 DEF KeyInv, ActiveKeyValid, KeyUsedOnce
<1>8. PendingShape'
  BY <1>2 DEF PendingShape
<1>9. EpochAccounted'
  BY <1>1, <1>2, <1>3 DEF KeyInv, EpochAccounted
<1>10. (active.epoch \notin cancelled)' /\ (cancelled \subseteq DOMAIN auditKey)'
  BY SMTT(120), <1>3, <1>4, <1>5 DEF KeyInv, Epochs
<1> QED BY <1>6, <1>7, <1>8, <1>9, <1>10 DEF KeyInv

(* A new block keeps the invariant: a due pointer becomes the active key.   *)
LEMMA BeginBlockInv ==
    ASSUME KeyInv, BeginAuditBlock
    PROVE  KeyInv'
<1> USE KeyAssumption
<1>1. UNCHANGED <<auditKey, cancelled, halted>> /\ height' = height + 1 /\ height \in Nat
  BY DEF BeginAuditBlock, KeyInv, KeyTypeOK
<1>2. CASE NothingDue /\ UNCHANGED <<activation, active>>
  <2>1. KeyTypeOK'
    BY SMTT(120), <1>1, <1>2 DEF KeyInv, KeyTypeOK
  <2>2. ActiveKeyValid' /\ KeyUsedOnce' /\ EpochAccounted'
    BY SMTT(120), <1>1, <1>2 DEF KeyInv, KeyTypeOK, Pointer, ActiveKeyValid, KeyUsedOnce, EpochAccounted
  <2>3. PendingShape'
    BY <1>1, <1>2 DEF KeyInv, PendingShape, NothingDue
  <2> QED BY <1>1, <1>2, <2>1, <2>2, <2>3 DEF KeyInv
<1>3. CASE \E p \in activation : /\ DueNow(p)
                                /\ active' = p
                                /\ activation' = WithoutPointer(p.height)
  <2>1. PICK p \in activation : DueNow(p) /\ active' = p /\ activation' = WithoutPointer(p.height)
    BY <1>3
  <2>2. activation' = {} /\ activation = {p}
    BY <2>1 DEF DueNow, WithoutPointer
  <2>3. p \in Pointer /\ p.epoch \in Epochs /\ p.height \in Nat
    BY <2>1 DEF KeyInv, KeyTypeOK, Pointer
  <2>4. p.epoch > active.epoch /\ DOMAIN auditKey = 1 .. p.epoch
    BY <2>2 DEF KeyInv, PendingShape
  <2>5. KeyTypeOK'
    BY SMTT(120), <1>1, <2>1, <2>2, <2>3 DEF KeyInv, KeyTypeOK
  <2>6. ActiveKeyValid' /\ (active.epoch \notin cancelled)'
    BY <1>1, <2>1 DEF DueNow, ActiveKeyValid
  <2>7. PendingShape' /\ KeyUsedOnce'
    BY <1>1, <2>2 DEF KeyInv, PendingShape, KeyUsedOnce
  <2>8. EpochAccounted'
    BY <1>1, <2>1, <2>3, <2>4 DEF EpochAccounted, Epochs
  <2> QED BY <1>1, <2>5, <2>6, <2>7, <2>8 DEF KeyInv
<1> QED BY <1>2, <1>3 DEF BeginAuditBlock

(* Every step of the key component preserves the invariant. *)
LEMMA KeyStepInv == KeyInv /\ [KeyNext]_keyVars => KeyInv'
<1> SUFFICES ASSUME KeyInv, [KeyNext]_keyVars PROVE KeyInv'
  OBVIOUS
<1>1. ASSUME NEW e \in Epochs, NEW k \in KeyIDs, NEW h \in 0 .. MaxInt64,
             ScheduleAuditKeyEpoch(e, k, h)
      PROVE KeyInv'
  BY <1>1, ScheduleInv
<1>2. ASSUME NEW e \in Epochs, CancelPendingAuditEpoch(e) PROVE KeyInv'
  BY <1>2, CancelInv
<1>3. ASSUME NEW b \in BOOLEAN, SetPrivacyHalt(b) PROVE KeyInv'
  <2>1. UNCHANGED <<height, auditKey, activation, active, cancelled>> /\ halted' \in BOOLEAN
    BY <1>3 DEF SetPrivacyHalt
  <2> QED BY <2>1 DEF KeyInv, KeyTypeOK, ActiveKeyValid, PendingShape, EpochAccounted, KeyUsedOnce
<1>4. CASE BeginAuditBlock
  BY <1>4, BeginBlockInv
<1>5. CASE UNCHANGED keyVars
  BY <1>5 DEF keyVars, KeyInv, KeyTypeOK, ActiveKeyValid, PendingShape, EpochAccounted, KeyUsedOnce
<1> QED BY <1>1, <1>2, <1>3, <1>4, <1>5 DEF KeyNext

(* KeyInv is an invariant of the key component. *)
THEOREM KeySafety == KeySpec => []KeyInv
<1> QED BY KeyInitInv, KeyStepInv, PTL DEF KeySpec

(* The store keeps its types and a contiguous epoch history. *)
THEOREM KeyTypeCorrect == KeySpec => []KeyTypeOK
<1>1. KeyInv => KeyTypeOK
  BY DEF KeyInv
<1> QED BY <1>1, KeySafety, PTL

(* BeginAuditBlock never returns an error, so no schedule stops the chain.  *)
THEOREM BeginBlockSafe == KeySpec => []BeginBlockNeverFails
<1>1. KeyInv => BeginBlockNeverFails
  <2> SUFFICES ASSUME KeyInv PROVE BeginBlockNeverFails
    OBVIOUS
  <2>1. CASE activation = {}
    BY <2>1 DEF BeginBlockNeverFails, NothingDue
  <2>2. CASE activation # {}
    <3>1. PICK p \in Pointer : /\ activation = {p}
                               /\ DOMAIN auditKey = 1 .. p.epoch
                               /\ auditKey[p.epoch].activationHeight = p.height
                               /\ p.height > height
                               /\ p.epoch \notin cancelled
      BY <2>2 DEF KeyInv, PendingShape
    <3>2. p.height \in Nat /\ height \in Nat /\ p.epoch \in 1 .. p.epoch
      BY SMTT(120), KeyAssumption DEF KeyInv, KeyTypeOK, Pointer, Epochs
    <3> QED BY <3>1, <3>2 DEF BeginBlockNeverFails, NothingDue, DueNow
  <2> QED BY <2>1, <2>2
<1> QED BY <1>1, KeySafety, PTL

(* The invariant names the active key: the pending epoch is not yet due and *)
(* every other uncancelled one is not after it.                             *)
LEMMA KeyInvActive == KeyInv => ActiveIsLatestDue
<1> SUFFICES ASSUME KeyInv, NEW e \in DOMAIN auditKey, e \notin cancelled,
                    auditKey[e].activationHeight <= height
             PROVE e <= active.epoch
  BY DEF ActiveIsLatestDue, KeyInv
<1>1. SUFFICES ASSUME NEW p \in activation, p.epoch = e PROVE FALSE
  BY DEF KeyInv, EpochAccounted
<1>2. p \in Pointer /\ auditKey[e].activationHeight = p.height /\ p.height > height
  BY <1>1 DEF KeyInv, PendingShape
<1> QED BY <1>2 DEF Pointer, KeyInv, KeyTypeOK

(* The active key is the latest due, uncancelled epoch. *)
THEOREM ActiveKeySafe == KeySpec => []ActiveIsLatestDue
<1> QED BY KeyInvActive, KeySafety, PTL

(* No key is used by two epochs. *)
THEOREM KeyReuseSafe == KeySpec => []KeyUsedOnce
<1>1. KeyInv => KeyUsedOnce
  BY DEF KeyInv
<1> QED BY <1>1, KeySafety, PTL

(* The active key changes only at a block boundary, at its own height.      *)
THEOREM ActiveChangeSafe == KeySpec => ActiveChangesAtItsHeight
<1> DEFINE A == active' # active =>
                  /\ height' = height + 1
                  /\ active'.height = height'
                  /\ active'.epoch > active.epoch
<1>1. ASSUME KeyInv, [KeyNext]_keyVars PROVE [A]_keyVars
  <2> SUFFICES ASSUME active' # active PROVE A
    OBVIOUS
  <2>1. BeginAuditBlock
    BY <1>1 DEF KeyNext, keyVars, ScheduleAuditKeyEpoch, CancelPendingAuditEpoch, SetPrivacyHalt
  <2>2. PICK p \in activation : DueNow(p) /\ active' = p
    BY <2>1 DEF BeginAuditBlock
  <2>3. p.height = height + 1 /\ activation = {p} /\ height' = height + 1
    BY <2>1, <2>2 DEF DueNow, BeginAuditBlock
  <2>4. p.epoch > active.epoch
    BY <1>1, <2>3 DEF KeyInv, PendingShape
  <2> QED BY <2>2, <2>3, <2>4
<1> QED BY <1>1, KeySafety, PTL DEF KeySpec, ActiveChangesAtItsHeight

(* Every record of the history is one auditKeyRecord.validate accepts, and  *)
(* the first is that of the genesis key.                                    *)
HistoryValid ==
    /\ \A e \in DOMAIN auditKey : RecordValid(e, auditKey[e])
    /\ 1 \in DOMAIN auditKey /\ auditKey[1].keyID = InitialKey

(* The genesis key is recorded at the height before the first block. *)
LEMMA HistoryInit == KeyInit => HistoryValid
<1> SUFFICES ASSUME KeyInit PROVE HistoryValid
  OBVIOUS
<1>1. /\ DOMAIN auditKey = {1}
      /\ auditKey[1].keyID = InitialKey
      /\ auditKey[1].activationHeight = InitialHeight - 1
      /\ auditKey[1].registeredHeight = InitialHeight - 1
  BY ZenonT(120) DEF KeyInit
<1>2. InitialHeight - 1 <= MaxInt64
  BY SMTT(120), KeyAssumption
<1>3. RecordValid(1, auditKey[1])
  BY ZenonT(120), <1>1, <1>2 DEF RecordValid
<1> QED BY ZenonT(120), <1>1, <1>3 DEF HistoryValid

(* A scheduled record follows the history and is registered before its      *)
(* height; no other step writes a record.                                   *)
LEMMA HistoryStep == KeyInv /\ HistoryValid /\ [KeyNext]_keyVars => HistoryValid'
<1> SUFFICES ASSUME KeyInv, HistoryValid, [KeyNext]_keyVars PROVE HistoryValid'
  OBVIOUS
<1>1. CASE auditKey' = auditKey
  BY ZenonT(120), <1>1 DEF HistoryValid, RecordValid
<1>2. ASSUME NEW e \in Epochs, NEW k \in KeyIDs, NEW h \in 0 .. MaxInt64,
             ScheduleAuditKeyEpoch(e, k, h)
      PROVE HistoryValid'
  <2> DEFINE r == [keyID |-> k, activationHeight |-> h, registeredHeight |-> height]
  <2>1. PICK max \in 0 .. MaxUint64 : DOMAIN auditKey = 1 .. max /\ max # 0 /\ e = max + 1
    BY ZenonT(120), <1>2 DEF ScheduleAuditKeyEpoch, MaxAuditEpoch, NextEpoch
  <2>2. e # 1 /\ e \notin DOMAIN auditKey
    BY SMTT(120), <2>1, KeyAssumption
  <2>3. auditKey' = [d \in DOMAIN auditKey \cup {e} |-> IF d = e THEN r ELSE auditKey[d]]
    BY <1>2 DEF ScheduleAuditKeyEpoch
  <2>4. h > height /\ h <= MaxInt64 /\ h \in Nat /\ height \in Nat
    BY SMTT(120), <1>2, KeyAssumption DEF ScheduleAuditKeyEpoch, FutureHeight, KeyInv, KeyTypeOK
  <2>5. height <= MaxInt64
    BY SMTT(120), <2>4, KeyAssumption
  <2>6. RecordValid(e, r)
    BY ZenonT(120), <2>2, <2>4, <2>5 DEF RecordValid
  <2> HIDE DEF r
  <2>7. DOMAIN auditKey' = DOMAIN auditKey \cup {e}
    BY ZenonT(120), <2>3
  <2>8. auditKey'[e] = r /\ \A d \in DOMAIN auditKey : auditKey'[d] = auditKey[d]
    BY ZenonT(120), <2>2, <2>3
  <2>9. \A d \in DOMAIN auditKey' : RecordValid(d, auditKey'[d])
    BY ZenonT(120), <2>6, <2>7, <2>8 DEF HistoryValid
  <2>10. 1 \in DOMAIN auditKey' /\ auditKey'[1].keyID = InitialKey
    BY ZenonT(120), <2>7, <2>8 DEF HistoryValid
  <2> QED BY ZenonT(120), <2>9, <2>10 DEF HistoryValid, RecordValid
<1>3. ASSUME NEW e \in Epochs, CancelPendingAuditEpoch(e) PROVE auditKey' = auditKey
  BY <1>3 DEF CancelPendingAuditEpoch
<1>4. ASSUME NEW b \in BOOLEAN, SetPrivacyHalt(b) PROVE auditKey' = auditKey
  BY <1>4 DEF SetPrivacyHalt
<1>5. CASE BeginAuditBlock \/ UNCHANGED keyVars
  BY <1>1, <1>5 DEF BeginAuditBlock, keyVars
<1> QED BY ZenonT(120), <1>1, <1>2, <1>3, <1>4, <1>5 DEF KeyNext

(* The history always passes the checks of the import. *)
THEOREM HistorySafe == KeySpec => []HistoryValid
<1> QED BY HistoryInit, HistoryStep, KeySafety, PTL DEF KeySpec

(* The metadata stage refuses an export exactly while a key is pending for  *)
(* the restart height.                                                      *)
LEMMA MetadataExact ==
  ASSUME KeyInv, HistoryValid
  PROVE  MetadataAccepted(ExportedKeys) <=> \A p \in activation : p.height # RestartHeight
<1> DEFINE g == ExportedKeys
<1>1. /\ g.history = auditKey /\ g.active = active.epoch /\ g.pending = activation
      /\ g.cancelled = cancelled
  BY DEF ExportedKeys
<1> HIDE DEF g
<1>2. \E max \in Epochs : DOMAIN auditKey = 1 .. max
  BY DEF KeyInv, KeyTypeOK
<1>3. /\ active.epoch \in DOMAIN auditKey
      /\ auditKey[active.epoch].activationHeight <= RestartHeight
  <2>1. /\ active.epoch \in DOMAIN auditKey
        /\ auditKey[active.epoch].activationHeight = active.height
        /\ active.height <= height /\ active.height \in Nat /\ height \in Nat
    BY DEF KeyInv, KeyTypeOK, ActiveKeyValid, Pointer
  <2>2. active.height <= height + 1
    BY SMTT(120), <2>1
  <2> QED BY ZenonT(120), <2>1, <2>2 DEF RestartHeight
<1>4. ASSUME NEW p \in activation
      PROVE  PendingAhead(g, p) <=> p.height # RestartHeight
  <2>1. /\ p \in Pointer /\ DOMAIN auditKey = 1 .. p.epoch
        /\ auditKey[p.epoch].activationHeight = p.height /\ p.height > height
    BY DEF KeyInv, PendingShape
  <2>2. p.epoch \in 1 .. p.epoch /\ p.height \in Nat /\ height \in Nat
    BY SMTT(120), <2>1 DEF Pointer, Epochs, KeyInv, KeyTypeOK
  <2>3. p.height > height + 1 <=> p.height # height + 1
    BY SMTT(120), <2>1, <2>2
  <2> QED BY ZenonT(120), <1>1, <2>1, <2>2, <2>3 DEF PendingAhead, RestartHeight
<1>5. cancelled \subseteq DOMAIN auditKey
  BY DEF KeyInv
<1> QED BY ZenonT(120), <1>1, <1>2, <1>3, <1>4, <1>5 DEF MetadataAccepted, HistoryValid, g

(* Whatever was scheduled, cancelled and activated, the key store can be    *)
(* exported, and a restart refuses it only for a key due at its own height. *)
THEOREM KeysTakenBackSafe == KeySpec => []KeysTakenBack
<1>1. KeyInv /\ HistoryValid => KeysTakenBack
  <2> SUFFICES ASSUME KeyInv, HistoryValid PROVE KeysTakenBack
    OBVIOUS
  <2>1. KeysExportable
    BY ZenonT(120) DEF KeyInv, KeyTypeOK, PendingShape, KeysExportable
  <2>2. ActiveImported(ExportedKeys) = active
    <3>1. /\ active = [epoch |-> active.epoch, height |-> active.height]
          /\ auditKey[active.epoch].activationHeight = active.height
      BY DEF KeyInv, KeyTypeOK, ActiveKeyValid, Pointer
    <3>2. ExportedKeys.active = active.epoch /\ ExportedKeys.history = auditKey
      BY DEF ExportedKeys
    <3> QED BY ZenonT(120), <3>1, <3>2 DEF ActiveImported
  <2> QED BY ZenonT(120), <2>1, <2>2, MetadataExact DEF KeysTakenBack
<1> QED BY <1>1, KeySafety, HistorySafe, PTL

-----------------------------------------------------------------------------
(* The nullifier set is what the scan entries spent. *)
SpentByScan == nullifiers = UNION {Range(scan[i].inputs) : i \in DOMAIN scan}

(* No entry is from a later block. *)
ScanInThePast == \A i \in DOMAIN scan : scan[i].height <= height

(* What the two lanes share.  A record of the lane without epochs may have  *)
(* epoch 0.                                                                 *)
Record == [kind : Kinds, height : Nat, epoch : Nat, keyID : KeyIDs,
           inputs : Seq(Note), outputs : Seq(Note), firstLeaf : Nat]

CoinTypes ==
    /\ balances \in [Holders -> [Denoms -> Nat]]
    /\ deposited \in [Denoms -> Nat]
    /\ withdrawn \in [Denoms -> Nat]

TreeTypes ==
    /\ leaves \in Seq(Note) /\ Len(leaves) <= MaxLeaves
    /\ nullifiers \subseteq Note
    /\ scan \in Seq(Record) /\ Len(scan) <= MaxSequence
    /\ height \in Nat

TreeInv == TreeTypes /\ SpentByScan /\ EffectOnce /\ ScanInThePast

(* What either lane has checked of a message when it starts to write, ...   *)
Checked(m) ==
    /\ ActiveCounts(m) /\ IsInjective(m.inputs) /\ IsInjective(m.outputs)
    /\ m.inputs # <<>> => CheckHistoricalRoot(m.root)
    /\ \A i \in DOMAIN m.inputs : ~HasNullifier(m.inputs[i])
    /\ \A i \in DOMAIN m.outputs : ~HasCommitment(m.outputs[i])
    /\ EnsureCanAppendCommitments(Len(m.outputs))
    /\ Transparent(m) => m.denom \in Registered
    /\ VerifyProof(m)
    /\ SequenceLeft

(* ... that its coins are there, and what it writes, x being its record.    *)
Covered(m, payer) ==
    /\ m.kind = "deposit" => payer # Module /\ m.amount <= balances[payer][m.denom]
    /\ m.kind = "withdraw" => m.amount <= balances[Module][m.denom]

Written(m, x) ==
    /\ nullifiers' = nullifiers \cup Range(m.inputs)
    /\ leaves' = leaves \o m.outputs
    /\ scan' = Append(scan, x)
    /\ x.height = height /\ x.firstLeaf = Len(leaves)
    /\ x.inputs = m.inputs /\ x.outputs = m.outputs
    /\ height' = height

LedgerInv ==
    /\ KeyInv
    /\ LedgerTypeOK
    /\ ReserveBacked
    /\ SpentByScan
    /\ EffectOnce
    /\ ScanInThePast
    /\ AuditedUnderDueKey

-----------------------------------------------------------------------------
(* One bank transfer keeps every balance a natural number and moves exactly *)
(* the amount (auditPrincipal.send, the bank facade's sends).               *)
LEMMA SentBalances ==
    ASSUME NEW from \in Holders, NEW to \in Holders, from # to,
           NEW d \in Denoms, NEW a \in Nat,
           balances \in [Holders -> [Denoms -> Nat]], a <= balances[from][d]
    PROVE  /\ Sent(from, to, d, a) \in [Holders -> [Denoms -> Nat]]
           /\ Sent(from, to, d, a)[from][d] = balances[from][d] - a
           /\ Sent(from, to, d, a)[to][d] = balances[to][d] + a
           /\ \A h \in Holders, e \in Denoms :
                (e # d \/ h \notin {from, to}) => Sent(from, to, d, a)[h][e] = balances[h][e]
<1> DEFINE mid == [balances EXCEPT ![from][d] = @ - a]
<1>1. balances[from][d] - a \in Nat
  OBVIOUS
<1>2. mid \in [Holders -> [Denoms -> Nat]]
  BY <1>1
<1>3. /\ mid[from][d] = balances[from][d] - a
      /\ \A h \in Holders, e \in Denoms : (e # d \/ h # from) => mid[h][e] = balances[h][e]
  OBVIOUS
<1>4. Sent(from, to, d, a) = [mid EXCEPT ![to][d] = @ + a]
  BY DEF Sent
<1> HIDE DEF mid
<1>5. [mid EXCEPT ![to][d] = @ + a] \in [Holders -> [Denoms -> Nat]]
  BY SMTT(120), <1>2
<1>6. /\ [mid EXCEPT ![to][d] = @ + a][to][d] = mid[to][d] + a
      /\ \A h \in Holders, e \in Denoms :
           (e # d \/ h # to) => [mid EXCEPT ![to][d] = @ + a][h][e] = mid[h][e]
  BY <1>2
<1> QED BY SMTT(120), <1>3, <1>4, <1>5, <1>6

(* A transfer to oneself moves nothing. *)
LEMMA SentToSelf ==
    ASSUME NEW from \in Holders, NEW to \in Holders, from = to, NEW d \in Denoms, NEW a \in Nat,
           balances \in [Holders -> [Denoms -> Nat]]
    PROVE  Sent(from, to, d, a) = balances
<1> DEFINE mid == [balances EXCEPT ![from][d] = @ - a]
<1>1. mid \in [Holders -> [Denoms -> Int]] /\ mid[from][d] = balances[from][d] - a
  BY SMTT(120)
<1>2. \A g \in Holders, e \in Denoms : (e # d \/ g # from) => mid[g][e] = balances[g][e]
  OBVIOUS
<1>3. Sent(from, to, d, a) = [mid EXCEPT ![to][d] = @ + a]
  BY DEF Sent
<1> HIDE DEF mid
<1>4. mid[to][d] + a = balances[to][d]
  <2>1. balances[from][d] \in Nat
    OBVIOUS
  <2> QED BY <1>1, <2>1
<1>5. [mid EXCEPT ![to][d] = @ + a] = balances
  BY SMTT(120), <1>1, <1>2, <1>4
<1> QED BY <1>3, <1>5

(* Appending new, distinct commitments keeps the leaves distinct.           *)
LEMMA ConcatInjective ==
    ASSUME NEW S, NEW s \in Seq(S), NEW t \in Seq(S), IsInjective(s), IsInjective(t),
           \A i \in DOMAIN t : ~ \E j \in DOMAIN s : s[j] = t[i]
    PROVE  IsInjective(s \o t)
<1> SUFFICES ASSUME NEW a \in DOMAIN (s \o t), NEW b \in DOMAIN (s \o t), (s \o t)[a] = (s \o t)[b]
             PROVE a = b
  BY DEF IsInjective
<1>1. a \in 1 .. Len(s) + Len(t) /\ b \in 1 .. Len(s) + Len(t)
  OBVIOUS
<1>2. \A i \in 1 .. Len(s) : (s \o t)[i] = s[i] /\ i \in DOMAIN s
  OBVIOUS
<1>3. \A i \in 1 .. Len(s) + Len(t) :
        i > Len(s) => (s \o t)[i] = t[i - Len(s)] /\ i - Len(s) \in DOMAIN t
  OBVIOUS
<1>4. Len(s) \in Nat /\ Len(t) \in Nat
  OBVIOUS
<1>5. CASE a <= Len(s) /\ b <= Len(s)
  BY SMTT(120), <1>1, <1>2, <1>4, <1>5 DEF IsInjective
<1>6. CASE a > Len(s) /\ b > Len(s)
  <2>1. a - Len(s) = b - Len(s)
    BY ZenonT(120), <1>1, <1>3, <1>6 DEF IsInjective
  <2> QED BY <1>1, <1>4, <2>1
<1>7. CASE a <= Len(s) /\ b > Len(s)
  BY SMTT(120), <1>1, <1>2, <1>3, <1>4, <1>7
<1>8. CASE a > Len(s) /\ b <= Len(s)
  BY SMTT(120), <1>1, <1>2, <1>3, <1>4, <1>8
<1> QED BY SMTT(120), <1>1, <1>4, <1>5, <1>6, <1>7, <1>8

-----------------------------------------------------------------------------
(* An accepted message keeps the reserve backed: a deposit raises the       *)
(* module's coins and its liability together, a withdrawal lowers both, or  *)
(* the liability alone when it pays the module itself.                      *)
LEMMA PrincipalKeepsReserve ==
    ASSUME CoinTypes, ReserveBacked, NEW m \in Message, NEW payer \in Holders,
           Covered(m, payer), MovePrincipal(m, payer)
    PROVE  CoinTypes' /\ ReserveBacked'
<1> USE LedgerAssumption
<1>1. MovePrincipal(m, payer) /\ Module \in Holders
  BY DEF Holders
<1>2. m.kind \in Kinds /\ m.denom \in Denoms /\ m.amount \in Nat /\ m.recipient \in Holders
  BY DEF Message
<1>3. CASE m.kind = "deposit"
  <2>1. payer # Module /\ m.amount <= balances[payer][m.denom]
    BY <1>3 DEF Covered
  <2>2. /\ balances' = Sent(payer, Module, m.denom, m.amount)
        /\ deposited' = [deposited EXCEPT ![m.denom] = @ + m.amount]
        /\ withdrawn' = withdrawn
    BY <1>1, <1>3 DEF MovePrincipal
  <2>3. /\ balances' \in [Holders -> [Denoms -> Nat]]
        /\ balances'[Module][m.denom] = balances[Module][m.denom] + m.amount
        /\ \A d \in Denoms : d # m.denom => balances'[Module][d] = balances[Module][d]
    BY SMTT(120), <1>1, <1>2, <2>1, <2>2, SentBalances DEF CoinTypes
  <2>4. deposited' \in [Denoms -> Nat] /\ withdrawn' \in [Denoms -> Nat]
    BY SMTT(120), <1>2, <2>2 DEF CoinTypes
  <2>5. /\ deposited'[m.denom] = deposited[m.denom] + m.amount
        /\ \A d \in Denoms : d # m.denom => deposited'[d] = deposited[d]
    BY <1>2, <2>2 DEF CoinTypes
  <2>6. ASSUME NEW d \in Denoms PROVE balances'[Module][d] >= deposited'[d] - withdrawn'[d]
    <3>1. /\ balances[Module][d] \in Nat /\ deposited[d] \in Nat /\ withdrawn[d] \in Nat
          /\ balances[Module][d] >= deposited[d] - withdrawn[d]
      BY <1>1 DEF CoinTypes, ReserveBacked, Liability
    <3>2. CASE d = m.denom
      BY SMTT(120), <1>2, <2>2, <2>3, <2>5, <3>1, <3>2
    <3>3. CASE d # m.denom
      BY <2>2, <2>3, <2>5, <3>1, <3>3
    <3> QED BY <3>2, <3>3
  <2> QED BY <2>3, <2>4, <2>6 DEF CoinTypes, ReserveBacked, Liability
<1>4. CASE m.kind = "withdraw"
  <2>1. m.amount <= balances[Module][m.denom]
    BY <1>4 DEF Covered
  <2>2. /\ balances' = Sent(Module, m.recipient, m.denom, m.amount)
        /\ withdrawn' = [withdrawn EXCEPT ![m.denom] = @ + m.amount]
        /\ deposited' = deposited
    BY <1>1, <1>4 DEF MovePrincipal
  <2>3. /\ balances' \in [Holders -> [Denoms -> Nat]]
        /\ balances'[Module][m.denom] \in {balances[Module][m.denom] - m.amount, balances[Module][m.denom]}
        /\ \A d \in Denoms : d # m.denom => balances'[Module][d] = balances[Module][d]
    <3>1. CASE m.recipient # Module
      BY SMTT(120), <1>1, <1>2, <2>1, <2>2, <3>1, SentBalances DEF CoinTypes
    <3>2. CASE m.recipient = Module
      <4>1. balances' = balances
        BY <1>1, <1>2, <2>1, <2>2, <3>2, SentToSelf DEF CoinTypes
      <4> QED BY <4>1 DEF CoinTypes
    <3> QED BY <3>1, <3>2
  <2>4. deposited' \in [Denoms -> Nat] /\ withdrawn' \in [Denoms -> Nat]
    BY SMTT(120), <1>2, <2>2 DEF CoinTypes
  <2>5. /\ withdrawn'[m.denom] = withdrawn[m.denom] + m.amount
        /\ \A d \in Denoms : d # m.denom => withdrawn'[d] = withdrawn[d]
    BY <1>2, <2>2 DEF CoinTypes
  <2>6. ASSUME NEW d \in Denoms PROVE balances'[Module][d] >= deposited'[d] - withdrawn'[d]
    <3>1. /\ balances[Module][d] \in Nat /\ deposited[d] \in Nat /\ withdrawn[d] \in Nat
          /\ balances[Module][d] >= deposited[d] - withdrawn[d]
      BY <1>1 DEF CoinTypes, ReserveBacked, Liability
    <3>2. CASE d = m.denom
      BY SMTT(120), <1>2, <2>2, <2>3, <2>5, <3>1, <3>2
    <3>3. CASE d # m.denom
      BY <2>2, <2>3, <2>5, <3>1, <3>3
    <3> QED BY <3>2, <3>3
  <2> QED BY <2>3, <2>4, <2>6 DEF CoinTypes, ReserveBacked, Liability
<1>5. CASE m.kind \notin {"deposit", "withdraw"}
  <2>1. UNCHANGED <<balances, deposited, withdrawn>>
    BY <1>1, <1>5 DEF MovePrincipal
  <2> QED BY <2>1 DEF CoinTypes, ReserveBacked, Liability
<1> QED BY <1>3, <1>4, <1>5

(* No send through the bank facade lowers the module's coins.               *)
LEMMA BankSendKeepsReserve ==
    ASSUME CoinTypes, ReserveBacked, NEW from \in Holders, NEW to \in Holders,
           NEW d \in Denoms, NEW a \in Nat, BankSend(from, to, d, a)
    PROVE  CoinTypes' /\ ReserveBacked'
<1> USE LedgerAssumption
<1>1. Module \in Holders /\ from # Module /\ from # to /\ a <= balances[from][d]
  BY DEF BankSend, Deny, Holders
<1>2. balances' = Sent(from, to, d, a) /\ UNCHANGED <<deposited, withdrawn>>
  BY DEF BankSend
<1>3. /\ balances' \in [Holders -> [Denoms -> Nat]]
      /\ balances'[to][d] = balances[to][d] + a
      /\ \A h \in Holders, e \in Denoms :
           (e # d \/ h \notin {from, to}) => balances'[h][e] = balances[h][e]
  <2>1. balances \in [Holders -> [Denoms -> Nat]]
    BY DEF CoinTypes
  <2>2. /\ Sent(from, to, d, a) \in [Holders -> [Denoms -> Nat]]
        /\ Sent(from, to, d, a)[to][d] = balances[to][d] + a
        /\ \A h \in Holders, e \in Denoms :
             (e # d \/ h \notin {from, to}) => Sent(from, to, d, a)[h][e] = balances[h][e]
    BY SMTT(120), <1>1, <2>1, SentBalances
  <2> QED BY <1>2, <2>2
<1>4. ASSUME NEW e \in Denoms PROVE balances'[Module][e] >= deposited[e] - withdrawn[e]
  <2>1. /\ balances[Module][e] \in Nat /\ deposited[e] \in Nat /\ withdrawn[e] \in Nat
        /\ balances[Module][e] >= deposited[e] - withdrawn[e]
    BY <1>1 DEF CoinTypes, ReserveBacked, Liability
  <2>2. CASE e = d /\ to = Module
    BY SMTT(120), <1>3, <2>1, <2>2
  <2>3. CASE e # d \/ to # Module
    <3>1. balances'[Module][e] = balances[Module][e]
      BY <1>1, <1>3, <2>3
    <3> QED BY <2>1, <3>1
  <2> QED BY <2>2, <2>3
<1> QED BY <1>2, <1>3, <1>4 DEF CoinTypes, ReserveBacked, Liability

-----------------------------------------------------------------------------
(* What an accepted message leaves in the tree, the nullifier set and the   *)
(* scan: the appended outputs are new and distinct, the spent inputs were   *)
(* unspent, and the new entry is the last one.                              *)
LEMMA WrittenKeepsTree ==
    ASSUME TreeInv, NEW m \in Message, NEW x \in Record, Checked(m), Written(m, x)
    PROVE  TreeInv'
<1> USE LedgerAssumption
<1>1. m.inputs \in Seq(Note) /\ m.outputs \in Seq(Note)
  BY DEF Message
<1>2. /\ nullifiers' = nullifiers \cup Range(m.inputs)
      /\ leaves' = leaves \o m.outputs
      /\ height' = height
  BY DEF Written
<1>3. /\ leaves \in Seq(Note) /\ Len(leaves) <= MaxLeaves /\ nullifiers \subseteq Note
      /\ scan \in Seq(Record) /\ Len(scan) <= MaxSequence /\ height \in Nat
  BY DEF TreeInv, TreeTypes
<1>5. x.height = height /\ x.inputs = m.inputs /\ x.outputs = m.outputs
  BY DEF Written
<1>7. scan' = Append(scan, x)
  BY DEF Written
<1>8. /\ scan' \in Seq(Record) /\ Len(scan') = Len(scan) + 1
      /\ DOMAIN scan' = DOMAIN scan \cup {Len(scan) + 1}
      /\ DOMAIN scan = 1 .. Len(scan) /\ Len(scan) \in Nat
      /\ \A i \in DOMAIN scan : scan'[i] = scan[i]
      /\ scan'[Len(scan) + 1] = x
  BY SMTT(120), <1>3, <1>7
<1>9. Range(m.inputs) \subseteq Note /\ Range(m.inputs) \cap nullifiers = {}
  BY SMTT(120), <1>1, <1>2 DEF Range, Checked, HasNullifier
<1>10. leaves' \in Seq(Note) /\ Len(leaves') <= MaxLeaves /\ nullifiers' \subseteq Note
  <2>1. Len(leaves') = Len(leaves) + Len(m.outputs) /\ leaves' \in Seq(Note)
    BY SMTT(120), <1>1, <1>2, <1>3
  <2>2. Len(m.outputs) <= MaxLeaves - Len(leaves) /\ Len(m.outputs) \in Nat /\ Len(leaves) \in Nat
    BY SMTT(120), <1>1, <1>2, <1>3 DEF Checked, EnsureCanAppendCommitments
  <2> QED BY SMTT(120), <1>2, <1>3, <1>9, <2>1, <2>2
<1>11. Len(scan') <= MaxSequence
  BY SMTT(120), <1>8 DEF Checked, SequenceLeft
<1>12. SpentByScan'
  <2>1. nullifiers = UNION {Range(scan[i].inputs) : i \in DOMAIN scan}
    BY DEF TreeInv, SpentByScan
  <2>2. nullifiers' = nullifiers \cup Range(x.inputs)
    BY <1>2, <1>5
  <2>3. ASSUME NEW n, n \in nullifiers' PROVE \E i \in DOMAIN scan' : n \in Range(scan'[i].inputs)
    <3>1. CASE n \in Range(x.inputs)
      BY <1>8, <3>1
    <3>2. CASE n \in nullifiers
      <4>1. PICK i \in DOMAIN scan : n \in Range(scan[i].inputs)
        BY <2>1, <3>2
      <4> QED BY <1>8, <4>1
    <3> QED BY <2>2, <2>3, <3>1, <3>2
  <2>4. ASSUME NEW i \in DOMAIN scan', NEW n \in Range(scan'[i].inputs) PROVE n \in nullifiers'
    <3>1. CASE i \in DOMAIN scan
      BY <1>8, <2>1, <2>2, <3>1
    <3>2. CASE i = Len(scan) + 1
      BY <1>8, <2>2, <3>2
    <3> QED BY <1>8, <3>1, <3>2
  <2>5. nullifiers' = UNION {Range(scan'[i].inputs) : i \in DOMAIN scan'}
    BY <2>3, <2>4
  <2> QED BY <2>5 DEF SpentByScan
<1>13. EffectOnce'
  <2>1. IsInjective(leaves')
    <3>1. IsInjective(leaves) /\ IsInjective(m.outputs)
      BY <1>2 DEF TreeInv, EffectOnce, Checked
    <3>2. \A i \in DOMAIN m.outputs : ~ \E j \in DOMAIN leaves : leaves[j] = m.outputs[i]
      BY <1>2 DEF Checked, HasCommitment
    <3> QED BY <1>1, <1>2, <1>3, <3>1, <3>2, ConcatInjective
  <2>2. ASSUME NEW i \in DOMAIN scan PROVE Range(scan[i].inputs) \cap Range(x.inputs) = {}
    <3>1. Range(scan[i].inputs) \subseteq nullifiers
      BY DEF TreeInv, SpentByScan
    <3> QED BY <1>5, <1>9, <3>1
  <2>3. \A i, j \in DOMAIN scan : i # j => Range(scan[i].inputs) \cap Range(scan[j].inputs) = {}
    BY DEF TreeInv, EffectOnce
  <2>4. ASSUME NEW i \in DOMAIN scan', NEW j \in DOMAIN scan', i # j
        PROVE Range(scan'[i].inputs) \cap Range(scan'[j].inputs) = {}
    <3>1. CASE i \in DOMAIN scan /\ j \in DOMAIN scan
      BY <1>8, <2>3, <2>4, <3>1
    <3>2. CASE i \in DOMAIN scan /\ j = Len(scan) + 1
      BY <1>8, <2>2, <3>2
    <3>3. CASE i = Len(scan) + 1 /\ j \in DOMAIN scan
      BY <1>8, <2>2, <3>3
    <3> QED BY <1>8, <2>4, <3>1, <3>2, <3>3
  <2> QED BY <2>1, <2>4 DEF EffectOnce
<1>14. ScanInThePast'
  <2>1. \A i \in DOMAIN scan : scan[i].height <= height
    BY DEF TreeInv, ScanInThePast
  <2> QED BY SMTT(120), <1>2, <1>3, <1>5, <1>8, <2>1 DEF ScanInThePast
<1> QED BY <1>2, <1>3, <1>8, <1>10, <1>11, <1>12, <1>13, <1>14 DEF TreeInv, TreeTypes

(* The audit lane checks and writes what both lanes do, and takes the coins *)
(* under the reserve checks of applyAuditPrincipal.                         *)
LEMMA AuditChecked ==
    ASSUME LedgerInv, NEW m \in Message, NEW payer \in Holders, ExecuteAudit(m, payer)
    PROVE  /\ Checked(m) /\ Written(m, ScanEntry(m)) /\ ScanEntry(m) \in Entry
           /\ Covered(m, payer) /\ MovePrincipal(m, payer)
           /\ m.epoch = active.epoch /\ m.keyID = auditKey[active.epoch].keyID
<1>1. Accepts(m, payer) /\ MovePrincipal(m, payer)
  BY DEF ExecuteAudit
<1>2. Checked(m)
  BY <1>1 DEF Accepts, ValidateAuditMessage, BuildAuditPublic, Checked
<1>3. Written(m, ScanEntry(m))
  BY DEF ExecuteAudit, Written, ScanEntry, keyVars
<1>4. /\ m.epoch = active.epoch /\ active.epoch \in Epochs
      /\ m.keyID = auditKey[active.epoch].keyID
  BY <1>1 DEF Accepts, BuildAuditPublic, AuthorizedByActiveKey, LedgerInv, KeyInv, KeyTypeOK, Pointer
<1>5. ScanEntry(m) \in Entry
  <2>1. leaves \in Seq(Note) /\ height \in Nat
    BY DEF LedgerInv, LedgerTypeOK, KeyTypeOK
  <2> QED BY SMTT(120), <1>4, <2>1 DEF ScanEntry, Entry, Message
<1>6. Covered(m, payer)
  BY <1>1 DEF Accepts, Transparent, PrincipalAllowed, Covered
<1> QED BY <1>1, <1>2, <1>3, <1>4, <1>5, <1>6

(* The types of the audit lane's ledger are those of either lane's.         *)
LEMMA LedgerTreeInv == LedgerInv => TreeInv /\ CoinTypes
<1> SUFFICES ASSUME LedgerInv PROVE TreeInv /\ CoinTypes
  OBVIOUS
<1>1. Entry \subseteq Record
  BY SMTT(120) DEF Entry, Record, Epochs
<1>2. scan \in Seq(Record)
  BY SMTT(120), <1>1 DEF LedgerInv, LedgerTypeOK
<1> QED BY <1>2 DEF LedgerInv, LedgerTypeOK, KeyTypeOK, TreeInv, TreeTypes, CoinTypes

(* A message keeps the tree and the scan of the audit lane, and is recorded *)
(* under the key that is due.                                               *)
LEMMA ExecuteKeepsLedger ==
    ASSUME LedgerInv, NEW m \in Message, NEW payer \in Holders, ExecuteAudit(m, payer)
    PROVE  TreeInv' /\ scan' \in Seq(Entry) /\ AuditedUnderDueKey'
<1> DEFINE x == ScanEntry(m)
<1>1. /\ Checked(m) /\ Written(m, x) /\ x \in Entry
      /\ m.epoch = active.epoch /\ m.keyID = auditKey[active.epoch].keyID
  BY AuditChecked
<1>2. UNCHANGED <<height, auditKey, activation, active, cancelled, halted>>
  BY DEF ExecuteAudit, keyVars
<1>3. scan \in Seq(Entry)
  BY DEF LedgerInv, LedgerTypeOK
<1>4. x.height = height /\ x.epoch = m.epoch /\ x.keyID = m.keyID
  BY DEF ScanEntry
<1> HIDE DEF x
<1>5. x \in Record
  BY SMTT(120), <1>1 DEF Entry, Record, Epochs
<1>6. TreeInv'
  BY <1>1, <1>5, LedgerTreeInv, WrittenKeepsTree
<1>7. scan' = Append(scan, x)
  BY <1>1 DEF Written
<1>8. /\ scan' \in Seq(Entry)
      /\ DOMAIN scan' = DOMAIN scan \cup {Len(scan) + 1}
      /\ \A i \in DOMAIN scan : scan'[i] = scan[i]
      /\ scan'[Len(scan) + 1] = x
  BY <1>1, <1>3, <1>7
<1>9. AuditedUnderDueKey'
  <2>1. ActiveIsLatestDue
    BY KeyInvActive DEF LedgerInv
  <2>2. ASSUME NEW i \in DOMAIN scan'
        PROVE LET due == {e \in DOMAIN auditKey \ cancelled :
                            auditKey[e].activationHeight <= scan'[i].height}
              IN  /\ scan'[i].epoch \in due
                  /\ \A e \in due : e <= scan'[i].epoch
                  /\ scan'[i].keyID = auditKey[scan'[i].epoch].keyID
    <3>1. CASE i \in DOMAIN scan
      BY <1>8, <3>1 DEF LedgerInv, AuditedUnderDueKey
    <3>2. CASE i = Len(scan) + 1
      <4>1. /\ scan'[i].epoch = active.epoch /\ scan'[i].height = height
            /\ scan'[i].keyID = auditKey[active.epoch].keyID
        BY <1>1, <1>4, <1>8, <3>2
      <4>2. /\ active.epoch \in DOMAIN auditKey /\ active.epoch \notin cancelled
            /\ auditKey[active.epoch].activationHeight <= height
        BY <2>1 DEF ActiveIsLatestDue, ActiveKeyValid
      <4> QED BY <2>1, <4>1, <4>2 DEF ActiveIsLatestDue
    <3> QED BY <1>8, <2>2, <3>1, <3>2
  <2> QED BY <1>2, <2>2 DEF AuditedUnderDueKey
<1> QED BY <1>6, <1>8, <1>9

-----------------------------------------------------------------------------
(* No schedule, cancellation or block changes what was due at an earlier    *)
(* height: a new epoch starts later, and a cancelled one had not started.   *)
LEMMA KeyStepKeepsAudit ==
    ASSUME LedgerInv, KeyNext, UNCHANGED scan
    PROVE  ScanInThePast' /\ AuditedUnderDueKey'
<1>1. /\ KeyInv /\ height \in Nat /\ height' \in Nat
  <2>1. KeyInv /\ KeyInv'
    BY KeyStepInv DEF LedgerInv
  <2> QED BY <2>1 DEF KeyInv, KeyTypeOK
<1>2. \A i \in DOMAIN scan : scan[i].height <= height /\ scan[i].height \in Nat
  <2> SUFFICES ASSUME NEW i \in DOMAIN scan PROVE scan[i].height <= height /\ scan[i].height \in Nat
    OBVIOUS
  <2>1. scan \in Seq(Entry) /\ scan[i].height <= height
    BY DEF LedgerInv, ScanInThePast, LedgerTypeOK
  <2>2. scan[i] \in Entry
    BY <2>1
  <2> QED BY <2>1, <2>2 DEF Entry
<1>3. \A e \in DOMAIN auditKey : auditKey[e].activationHeight \in Nat
  BY <1>1 DEF KeyInv, KeyTypeOK, AuditKeyRecord
<1>4. height' = height \/ height' = height + 1
  BY DEF KeyNext, ScheduleAuditKeyEpoch, CancelPendingAuditEpoch, SetPrivacyHalt, BeginAuditBlock
<1>5. ScanInThePast'
  <2> SUFFICES ASSUME NEW i \in DOMAIN scan PROVE scan[i].height <= height'
    BY DEF ScanInThePast
  <2> QED BY <1>1, <1>2, <1>4
<1>6. ASSUME UNCHANGED <<auditKey, cancelled>> PROVE AuditedUnderDueKey'
  BY <1>6 DEF LedgerInv, AuditedUnderDueKey
<1>7. ASSUME NEW k, NEW c \in Epochs, NEW h \in 0 .. MaxInt64, ScheduleAuditKeyEpoch(c, k, h)
      PROVE AuditedUnderDueKey'
  <2>1. /\ DOMAIN auditKey' = DOMAIN auditKey \cup {c} /\ cancelled' = cancelled
        /\ c \notin DOMAIN auditKey /\ auditKey'[c].activationHeight = h /\ h > height /\ h \in Nat
        /\ \A e \in DOMAIN auditKey : auditKey'[e] = auditKey[e]
    <3>1. PICK max \in 0 .. MaxUint64 : MaxAuditEpoch(max, k) /\ NextEpoch(c, max)
      BY <1>7 DEF ScheduleAuditKeyEpoch
    <3>2. c \notin DOMAIN auditKey
      BY <3>1, KeyAssumption DEF MaxAuditEpoch, NextEpoch
    <3> QED BY <1>7, <3>2, KeyAssumption DEF ScheduleAuditKeyEpoch, FutureHeight
  <2>2. ASSUME NEW i \in DOMAIN scan
        PROVE {e \in DOMAIN auditKey' \ cancelled' : auditKey'[e].activationHeight <= scan[i].height}
                = {e \in DOMAIN auditKey \ cancelled : auditKey[e].activationHeight <= scan[i].height}
    <3>1. ~(h <= scan[i].height)
      BY <1>1, <1>2, <2>1
    <3> QED BY <2>1, <3>1
  <2> QED BY ZenonT(120), <2>1, <2>2 DEF LedgerInv, AuditedUnderDueKey
<1>8. ASSUME NEW c \in Epochs, CancelPendingAuditEpoch(c)
      PROVE AuditedUnderDueKey'
  <2>1. auditKey' = auditKey /\ cancelled' = cancelled \cup {c}
    BY <1>8 DEF CancelPendingAuditEpoch
  <2>2. PICK p \in activation : activation = {p} /\ p.epoch = c /\ p.height > height
    BY <1>8 DEF CancelPendingAuditEpoch
  <2>3. auditKey[c].activationHeight = p.height /\ c \in DOMAIN auditKey /\ p.height \in Nat
    BY SMTT(120), <1>1, <2>2 DEF KeyInv, KeyTypeOK, PendingShape, Pointer, Epochs
  <2>4. ASSUME NEW i \in DOMAIN scan
        PROVE {e \in DOMAIN auditKey' \ cancelled' : auditKey'[e].activationHeight <= scan[i].height}
                = {e \in DOMAIN auditKey \ cancelled : auditKey[e].activationHeight <= scan[i].height}
    <3>1. ~(auditKey[c].activationHeight <= scan[i].height)
      BY SMTT(120), <1>1, <1>2, <2>2, <2>3
    <3> QED BY <2>1, <3>1
  <2> QED BY <2>1, <2>4 DEF LedgerInv, AuditedUnderDueKey
<1>9. AuditedUnderDueKey'
  <2>1. CASE BeginAuditBlock
    BY <1>6, <2>1 DEF BeginAuditBlock
  <2>2. ASSUME NEW b \in BOOLEAN, SetPrivacyHalt(b) PROVE AuditedUnderDueKey'
    BY <1>6, <2>2 DEF SetPrivacyHalt
  <2> QED BY <1>7, <1>8, <2>1, <2>2 DEF KeyNext
<1> QED BY <1>5, <1>9

(* The fresh genesis satisfies the invariant. *)
LEMMA LedgerInitInv == LedgerInit => LedgerInv
<1> SUFFICES ASSUME LedgerInit PROVE LedgerInv
  OBVIOUS
<1> USE LedgerAssumption
<1>1. KeyInv /\ KeyTypeOK
  BY KeyInitInv DEF LedgerInit, KeyInv
<1>2. Module \in Holders
  BY DEF Holders
<1>3. LedgerTypeOK
  BY SMTT(120), <1>1 DEF LedgerInit, LedgerTypeOK
<1>4. ReserveBacked
  BY SMTT(120), <1>2 DEF LedgerInit, ReserveBacked, Liability
<1>5. SpentByScan /\ EffectOnce /\ ScanInThePast /\ AuditedUnderDueKey
  BY SMTT(120) DEF LedgerInit, SpentByScan, EffectOnce, ScanInThePast, AuditedUnderDueKey, IsInjective
<1> QED BY <1>1, <1>3, <1>4, <1>5 DEF LedgerInv

(* Every step of the ledger keeps the invariant. *)
LEMMA LedgerStepInv == LedgerInv /\ [LedgerNext]_allVars => LedgerInv'
<1> SUFFICES ASSUME LedgerInv, [LedgerNext]_allVars PROVE LedgerInv'
  OBVIOUS
<1>0. KeyTypeOK /\ CoinTypes /\ ReserveBacked /\ KeyInv
  BY DEF LedgerInv, LedgerTypeOK, CoinTypes
<1>1. ASSUME NEW m \in Message, NEW payer \in Holders, ExecuteAudit(m, payer) PROVE LedgerInv'
  <2>1. CoinTypes' /\ ReserveBacked'
    <3>1. Covered(m, payer) /\ MovePrincipal(m, payer)
      BY <1>1, AuditChecked
    <3> QED BY <1>0, <3>1, PrincipalKeepsReserve
  <2>2. TreeInv' /\ scan' \in Seq(Entry) /\ AuditedUnderDueKey'
    BY <1>1, ExecuteKeepsLedger
  <2>3. UNCHANGED keyVars
    BY <1>1 DEF ExecuteAudit
  <2>4. KeyInv'
    BY <1>0, <2>3, KeyStepInv
  <2>5. LedgerTypeOK'
    BY <2>1, <2>2, <2>4 DEF LedgerTypeOK, CoinTypes, KeyInv, TreeInv, TreeTypes
  <2> QED BY <2>1, <2>2, <2>4, <2>5 DEF LedgerInv, TreeInv
<1>2. ASSUME NEW from \in Holders, NEW to \in Holders, NEW d \in Denoms, NEW a \in Nat,
             BankSend(from, to, d, a)
      PROVE LedgerInv'
  <2>1. CoinTypes' /\ ReserveBacked'
    BY <1>0, <1>2, BankSendKeepsReserve
  <2>2. UNCHANGED <<keyVars, leaves, nullifiers, scan>>
    BY <1>2 DEF BankSend
  <2>3. KeyInv'
    BY <1>0, <2>2, KeyStepInv
  <2>4. LedgerTypeOK'
    BY <2>1, <2>2, <2>3 DEF LedgerInv, LedgerTypeOK, CoinTypes, KeyInv
  <2>5. SpentByScan' /\ EffectOnce' /\ ScanInThePast' /\ AuditedUnderDueKey'
    BY <2>2 DEF LedgerInv, SpentByScan, EffectOnce, ScanInThePast, AuditedUnderDueKey, keyVars
  <2> QED BY <2>1, <2>3, <2>4, <2>5 DEF LedgerInv
<1>3. CASE KeyStep
  <2>1. KeyNext /\ UNCHANGED <<balances, deposited, withdrawn, leaves, nullifiers, scan>>
    BY <1>3 DEF KeyStep, ledgerVars
  <2>2. KeyInv'
    BY <1>0, <2>1, KeyStepInv
  <2>3. ScanInThePast' /\ AuditedUnderDueKey'
    BY <2>1, KeyStepKeepsAudit
  <2>4. LedgerTypeOK'
    BY <2>1, <2>2 DEF LedgerInv, LedgerTypeOK, KeyInv
  <2>5. ReserveBacked' /\ SpentByScan' /\ EffectOnce'
    BY <2>1 DEF LedgerInv, ReserveBacked, Liability, SpentByScan, EffectOnce
  <2> QED BY <2>2, <2>3, <2>4, <2>5 DEF LedgerInv
<1>4. CASE UNCHANGED allVars
  <2>1. UNCHANGED <<keyVars, balances, deposited, withdrawn, leaves, nullifiers, scan>>
    BY <1>4 DEF allVars, ledgerVars
  <2>2. KeyInv'
    BY <1>0, <2>1, KeyStepInv
  <2>3. LedgerTypeOK'
    BY <2>1, <2>2 DEF LedgerInv, LedgerTypeOK, KeyInv
  <2>4. ReserveBacked' /\ SpentByScan' /\ EffectOnce' /\ ScanInThePast' /\ AuditedUnderDueKey'
    BY <2>1 DEF LedgerInv, ReserveBacked, Liability, SpentByScan, EffectOnce, ScanInThePast,
                AuditedUnderDueKey, keyVars
  <2> QED BY <2>2, <2>3, <2>4 DEF LedgerInv
<1>5. ASSUME NEW m \in Message, Deposit(m) \/ Withdraw(m) \/ Transfer(m) \/ BatchTransfer(m)
      PROVE LedgerInv'
  <2>1. ExecuteAudit(m, m.creator) /\ m.creator \in Holders
    BY <1>5 DEF Deposit, Withdraw, Transfer, BatchTransfer, Message
  <2> QED BY <1>1, <2>1
<1>6. ASSUME NEW m \in Message, NEW f \in Holders, DepositWithFunderV2(m, f) PROVE LedgerInv'
  BY <1>1, <1>6 DEF DepositWithFunderV2
<1> QED BY <1>2, <1>3, <1>4, <1>5, <1>6 DEF LedgerNext

-----------------------------------------------------------------------------
(* The inductive invariant of the audit-field ledger holds always. *)
THEOREM LedgerSafety == LedgerSpec => []LedgerInv
<1> QED BY LedgerInitInv, LedgerStepInv, PTL DEF LedgerSpec

(* The ledger keeps its types, its tree capacity and its sequence limit.    *)
THEOREM LedgerTypeCorrect == LedgerSpec => []LedgerTypeOK
<1>1. LedgerInv => LedgerTypeOK
  BY DEF LedgerInv
<1> QED BY <1>1, LedgerSafety, PTL

(* The module account always covers its liability (GetReserveSnapshot,      *)
(* applyAuditPrincipal).                                                    *)
THEOREM ReserveSafe == LedgerSpec => []ReserveBacked
<1>1. LedgerInv => ReserveBacked
  BY DEF LedgerInv
<1> QED BY <1>1, LedgerSafety, PTL

(* No commitment enters the tree twice and no note is consumed twice        *)
(* (buildAuditPublic's nullifier and commitment checks).                    *)
THEOREM EffectOnceSafe == LedgerSpec => []EffectOnce
<1>1. LedgerInv => EffectOnce
  BY DEF LedgerInv
<1> QED BY <1>1, LedgerSafety, PTL

(* Every executed message carries the key due at its height, for good       *)
(* (buildAuditPublic under ScheduleAuditKeyEpoch, CancelPendingAuditEpoch   *)
(* and BeginAuditBlock).                                                    *)
THEOREM AuditKeySafe == LedgerSpec => []AuditedUnderDueKey
<1>1. LedgerInv => AuditedUnderDueKey
  BY DEF LedgerInv
<1> QED BY <1>1, LedgerSafety, PTL

-----------------------------------------------------------------------------
(* Among subsets of a finite set there is one from which nothing can be     *)
(* taken without leaving them: induction over a finite set.                 *)
LEMMA MinimalSubset ==
    ASSUME NEW S, IsFiniteSet(S), NEW T \in SUBSET (SUBSET S), T # {}
    PROVE  \E m \in T : \A x \in m : m \ {x} \notin T
<1>1. FiniteSubsetsOf(S) = SUBSET S
  BY FS_FiniteSubsetsOfFinite
<1>2. \E m \in T : \A y \in T : ~(<<y, m>> \in StrictSubsetOrdering(S))
  <2>1. IsWellFoundedOn(StrictSubsetOrdering(S), FiniteSubsetsOf(S))
    BY FS_StrictSubsetOrderingWellFounded
  <2> QED BY ZenonT(120), <1>1, <2>1, WFMin
<1>3. PICK m \in T : \A y \in T : ~(<<y, m>> \in StrictSubsetOrdering(S))
  BY <1>2
<1>4. ASSUME NEW x \in m PROVE m \ {x} \notin T
  BY <1>3 DEF StrictSubsetOrdering
<1> QED BY <1>4

(* The worth of a set of notes, and what the fold that computes it does.    *)
Worth(S) == MapThenSumSet(LAMBDA n : n.amount, S)

AnyOf(s) == CHOOSE x \in s : TRUE

FoldStep(S, f) == [s \in SUBSET S |-> IF s = {} THEN 0 ELSE AnyOf(s).amount + f[s \ {AnyOf(s)}]]

Priced(S) == IsFiniteSet(S) /\ \A x \in S : x.amount \in Nat

Additive(S, g) ==
    /\ g \in [SUBSET S -> Nat]
    /\ g[{}] = 0
    /\ \A s \in SUBSET S : \A x \in S \ s : g[s \cup {x}] = g[s] + x.amount

(* The fold is the value at S of the one function that satisfies its        *)
(* recursion equation over the subsets of S.                                *)
LEMMA WorthUnfolds ==
    ASSUME NEW S, NEW g, g = FoldStep(S, g), \A f : f = FoldStep(S, f) => f = g
    PROVE  Worth(S) = g[S]
  BY DEF Worth, MapThenSumSet, MapThenFoldSet, AnyOf, FoldStep

(* Every finite set of priced notes has a function that adds one note at a  *)
(* time, in whatever order.                                                 *)
LEMMA AdditiveExists ==
    ASSUME NEW S, Priced(S)
    PROVE  \E g : Additive(S, g)
<1> DEFINE Bad == {B \in SUBSET S : ~ \E g : Additive(B, g)}
<1> SUFFICES ASSUME S \in Bad PROVE FALSE
  OBVIOUS
<1>1. PICK m \in Bad : \A x \in m : m \ {x} \notin Bad
  BY MinimalSubset DEF Priced
<1>2. m \in SUBSET S /\ ~ \E g : Additive(m, g)
  OBVIOUS
<1>3. CASE m = {}
  <2>1. Additive({}, [s \in SUBSET {} |-> 0])
    BY DEF Additive
  <2> QED BY <1>2, <1>3, <2>1
<1>4. ASSUME NEW x \in m PROVE FALSE
  <2>1. PICK g : Additive(m \ {x}, g)
    BY <1>1, <1>2, <1>4
  <2> DEFINE h == [s \in SUBSET m |-> IF x \in s THEN g[s \ {x}] + x.amount ELSE g[s]]
  <2>2. x.amount \in Nat /\ \A y \in m : y.amount \in Nat
    BY <1>2 DEF Priced
  <2>3. \A s \in SUBSET m : s \ {x} \in SUBSET (m \ {x}) /\ g[s \ {x}] \in Nat
    BY <2>1 DEF Additive
  <2>4. \A s \in SUBSET m : x \notin s => s \in SUBSET (m \ {x}) /\ g[s] \in Nat
    BY ZenonT(120), <2>1 DEF Additive
  <2>5. h \in [SUBSET m -> Nat]
    BY SMTT(120), <2>2, <2>3, <2>4
  <2>6. h[{}] = 0
    BY <2>1 DEF Additive
  <2>7. ASSUME NEW s \in SUBSET m, NEW y \in m \ s PROVE h[s \cup {y}] = h[s] + y.amount
    <3>1. CASE y = x
      <4>1. (s \cup {y}) \ {x} = s /\ x \notin s /\ x \in s \cup {y} /\ s \cup {y} \in SUBSET m
        BY <3>1
      <4> QED BY <3>1, <4>1
    <3>2. CASE y # x /\ x \in s
      <4>1. (s \cup {y}) \ {x} = (s \ {x}) \cup {y} /\ y \in (m \ {x}) \ (s \ {x}) /\ s \cup {y} \in SUBSET m
        BY <3>2
      <4>2. g[(s \ {x}) \cup {y}] = g[s \ {x}] + y.amount
        BY <2>1, <2>3, <4>1 DEF Additive
      <4>3. h[s \cup {y}] = (g[s \ {x}] + y.amount) + x.amount /\ h[s] = g[s \ {x}] + x.amount
        BY <3>2, <4>1, <4>2
      <4>4. g[s \ {x}] \in Nat /\ y.amount \in Nat /\ x.amount \in Nat
        BY <2>2, <2>3
      <4> HIDE DEF h
      <4> QED BY SMTT(120), <4>3, <4>4
    <3>3. CASE y # x /\ x \notin s
      <4>1. x \notin s \cup {y} /\ y \in (m \ {x}) \ s /\ s \cup {y} \in SUBSET m
        BY <3>3
      <4>2. g[s \cup {y}] = g[s] + y.amount
        BY <2>1, <2>4, <3>3, <4>1 DEF Additive
      <4> QED BY <3>3, <4>1, <4>2
    <3> QED BY <3>1, <3>2, <3>3
  <2>8. Additive(m, h)
    BY <2>5, <2>6, <2>7 DEF Additive
  <2> QED BY <1>2, <2>8
<1> QED BY <1>3, <1>4

(* Such a function computes the fold, so the order in which the fold picks  *)
(* notes does not matter.                                                   *)
LEMMA WorthIsAdditive ==
    ASSUME NEW S, Priced(S), NEW g, Additive(S, g)
    PROVE  Worth(S) = g[S]
<1>1. ASSUME NEW s \in SUBSET S, s # {}
      PROVE  AnyOf(s) \in s /\ AnyOf(s).amount \in Nat /\ g[s \ {AnyOf(s)}] \in Nat
             /\ g[s] = AnyOf(s).amount + g[s \ {AnyOf(s)}]
  <2>1. AnyOf(s) \in s
    BY <1>1 DEF AnyOf
  <2> DEFINE x == AnyOf(s)
  <2> HIDE DEF x
  <2>2. x \in s /\ s \ {x} \in SUBSET S /\ x \in S \ (s \ {x}) /\ (s \ {x}) \cup {x} = s
    BY <2>1 DEF x
  <2>3. g[(s \ {x}) \cup {x}] = g[s \ {x}] + x.amount
    BY <2>2 DEF Additive
  <2>4. x.amount \in Nat /\ g[s \ {x}] \in Nat
    BY <2>2 DEF Priced, Additive
  <2>5. g[s] = g[s \ {x}] + x.amount
    BY <2>2, <2>3, ZenonT(120)
  <2>6. g[s] = x.amount + g[s \ {x}]
    BY SMTT(120), <2>4, <2>5
  <2> QED BY <2>2, <2>4, <2>6 DEF x
<1>2. g = FoldStep(S, g)
  <2>1. \A s \in SUBSET S : g[s] = FoldStep(S, g)[s]
    BY <1>1 DEF FoldStep, Additive
  <2> QED BY <2>1 DEF FoldStep, Additive
<1>3. ASSUME NEW f, f = FoldStep(S, f) PROVE f = g
  <2> DEFINE Bad == {s \in SUBSET S : f[s] # g[s]}
  <2>1. ASSUME Bad # {} PROVE FALSE
    <3>1. PICK m \in Bad : \A x \in m : m \ {x} \notin Bad
      BY <2>1, MinimalSubset DEF Priced
    <3>2. f[m] = IF m = {} THEN 0 ELSE AnyOf(m).amount + f[m \ {AnyOf(m)}]
      BY <1>3 DEF FoldStep
    <3>3. CASE m = {}
      BY <3>2, <3>3 DEF Additive
    <3>4. CASE m # {}
      <4>1. AnyOf(m) \in m /\ g[m] = AnyOf(m).amount + g[m \ {AnyOf(m)}]
        BY <1>1, <3>4
      <4>2. f[m \ {AnyOf(m)}] = g[m \ {AnyOf(m)}]
        BY <3>1, <4>1
      <4> QED BY <3>2, <3>4, <4>1, <4>2
    <3> QED BY <3>3, <3>4
  <2>2. DOMAIN f = SUBSET S /\ f = [s \in SUBSET S |-> f[s]]
    BY <1>3 DEF FoldStep
  <2>3. \A s \in SUBSET S : f[s] = g[s]
    BY <2>1
  <2> QED BY <2>2, <2>3 DEF Additive
<1> QED BY <1>2, <1>3, WorthUnfolds

(* A new note adds its amount to the worth of a set.                        *)
LEMMA WorthAdd ==
    ASSUME NEW S, Priced(S), NEW x, x \notin S, x.amount \in Nat
    PROVE  /\ Priced(S \cup {x}) /\ Worth(S) \in Nat
           /\ Worth(S \cup {x}) = Worth(S) + x.amount
<1>1. Priced(S \cup {x})
  BY FS_AddElement DEF Priced
<1>2. PICK g : Additive(S \cup {x}, g)
  BY <1>1, AdditiveExists
<1> DEFINE h == [s \in SUBSET S |-> g[s]]
<1>3. Additive(S, h)
  <2>1. h \in [SUBSET S -> Nat] /\ h[{}] = 0
    BY <1>2 DEF Additive
  <2>2. ASSUME NEW s \in SUBSET S, NEW y \in S \ s PROVE h[s \cup {y}] = h[s] + y.amount
    BY <1>2 DEF Additive
  <2> QED BY <2>1, <2>2 DEF Additive
<1>4. Worth(S) = h[S] /\ Worth(S \cup {x}) = g[S \cup {x}]
  BY <1>1, <1>2, <1>3, WorthIsAdditive
<1>5. g[S \cup {x}] = g[S] + x.amount /\ g[S] \in Nat
  BY <1>2 DEF Additive
<1> QED BY <1>1, <1>4, <1>5

(* No notes are worth nothing.                                              *)
LEMMA WorthEmpty == Worth({}) = 0 /\ Priced({})
<1>1. Priced({})
  BY FS_EmptySet DEF Priced
<1>2. Additive({}, [s \in SUBSET {} |-> 0])
  BY DEF Additive
<1> QED BY <1>1, <1>2, WorthIsAdditive

(* The worths of disjoint sets of notes add up.                             *)
LEMMA WorthUnion ==
    ASSUME NEW A, NEW B, Priced(A), Priced(B), A \cap B = {}
    PROVE  /\ Worth(A) \in Nat /\ Worth(B) \in Nat
           /\ Worth(A \cup B) = Worth(A) + Worth(B)
<1> DEFINE Bad == {C \in SUBSET B : ~(/\ Priced(C) /\ Priced(A \cup C)
                                      /\ Worth(A) \in Nat /\ Worth(C) \in Nat
                                      /\ Worth(A \cup C) = Worth(A) + Worth(C))}
<1> SUFFICES ASSUME Bad # {} PROVE FALSE
  OBVIOUS
<1>1. PICK m \in Bad : \A x \in m : m \ {x} \notin Bad
  BY MinimalSubset DEF Priced
<1>2. Worth(A) \in Nat
  <2>1. PICK g : Additive(A, g)
    BY AdditiveExists
  <2>2. Worth(A) = g[A]
    BY <2>1, WorthIsAdditive
  <2>3. g[A] \in Nat
    BY <2>1 DEF Additive
  <2> QED BY <2>2, <2>3
<1>3. CASE m = {}
  BY SMTT(120), <1>1, <1>2, <1>3, WorthEmpty
<1>4. ASSUME NEW x \in m PROVE FALSE
  <2> DEFINE C == m \ {x}
  <2>1. /\ C \in SUBSET B /\ C \notin Bad /\ x \notin C /\ x \notin A \cup C /\ x.amount \in Nat
        /\ C \cup {x} = m /\ (A \cup C) \cup {x} = A \cup m
    BY <1>1, <1>4 DEF Priced
  <2>2. /\ Priced(C) /\ Priced(A \cup C) /\ Worth(C) \in Nat
        /\ Worth(A \cup C) = Worth(A) + Worth(C)
    BY <2>1
  <2> HIDE DEF C
  <2>3. Priced(m) /\ Worth(m) = Worth(C) + x.amount
    BY <2>1, <2>2, WorthAdd
  <2>4. Priced(A \cup m) /\ Worth(A \cup m) = Worth(A \cup C) + x.amount
    BY <2>1, <2>2, WorthAdd
  <2>5. Worth(m) \in Nat /\ Worth(A \cup m) = Worth(A) + Worth(m)
    BY SMTT(120), <1>2, <2>1, <2>2, <2>3, <2>4
  <2> QED BY <1>1, <1>2, <2>3, <2>4, <2>5
<1> QED BY <1>3, <1>4

-----------------------------------------------------------------------------
(* Where the scan entries lie in the tree: one after the other, up to the   *)
(* last leaf, and each spends only what lies before it.                     *)
ScanPlaces ==
    \A i \in DOMAIN scan :
        /\ scan[i].firstLeaf + Len(scan[i].outputs) <= Len(leaves)
        /\ scan[i].firstLeaf + Len(scan[i].outputs) =
             IF i = Len(scan) THEN Len(leaves) ELSE scan[i + 1].firstLeaf
        /\ \A j \in DOMAIN scan[i].outputs : leaves[scan[i].firstLeaf + j] = scan[i].outputs[j]
        /\ \A n \in Range(scan[i].inputs) : \E l \in 1 .. scan[i].firstLeaf : leaves[l] = n

(* Only notes of the tree are spent, and only registered assets enter it.   *)
SpentInTree == nullifiers \subseteq Range(leaves)

LeavesRegistered == \A i \in DOMAIN leaves : leaves[i].denom \in Registered

ValueInv == ScanPlaces /\ SpentInTree /\ LeavesRegistered /\ ValueConserved

(* Every circuit makes each input a leaf under the message's root, and the  *)
(* root is a recorded one (CheckHistoricalRoot).                            *)
LEMMA InputsInTree ==
    ASSUME TreeTypes, NEW m \in Message, Checked(m), NEW n \in Range(m.inputs)
    PROVE  \E l \in 1 .. Len(leaves) : leaves[l] = n
<1>1. m.inputs \in Seq(Note) /\ leaves \in Seq(Note) /\ Len(leaves) \in Nat
  BY DEF Message, TreeTypes
<1>2. PICK i \in DOMAIN m.inputs : n = m.inputs[i]
  BY DEF Range
<1>3. i \in 1 .. Len(m.inputs) /\ m.inputs # <<>>
  BY <1>1, <1>2
<1>4. m.root \in 1 .. Len(leaves)
  BY <1>3 DEF Checked, CheckHistoricalRoot
<1>5. InTree(n, m.root)
  <2>1. CASE m.kind = "deposit"
    BY <1>3, <2>1 DEF Checked, ActiveCounts
  <2>2. CASE m.kind = "withdraw"
    <3>1. i = 1
      BY <1>3, <2>2 DEF Checked, ActiveCounts
    <3> QED BY <1>2, <2>2, <3>1 DEF Checked, VerifyProof, SpendCircuit
  <2>3. CASE m.kind = "transfer"
    <3>1. i = 1 \/ i = 2
      BY <1>3, <2>3 DEF Checked, ActiveCounts
    <3> QED BY <1>2, <2>3, <3>1 DEF Checked, VerifyProof, JoinSplitCircuit
  <2>4. CASE m.kind = "batch"
    BY <2>4 DEF Checked, VerifyProof, BatchJoinSplit16x32
  <2> QED BY <2>1, <2>2, <2>3, <2>4 DEF Message, Kinds
<1> QED BY SMTT(120), <1>1, <1>4, <1>5 DEF InTree

(* The notes of a sequence are finitely many and have natural amounts.      *)
LEMMA RangePriced ==
    ASSUME NEW s \in Seq(Note)
    PROVE  Priced(Range(s)) /\ Range(s) \subseteq Note
<1>1. Range(s) \subseteq Note
  BY DEF Range
<1>2. IsFiniteSet(Range(s))
  <2>1. IsFiniteSet(1 .. Len(s))
    BY FS_Interval
  <2>2. s \in Surjection(1 .. Len(s), Range(s))
    BY SMTT(120) DEF Surjection, Range
  <2> QED BY <2>1, <2>2, FS_Surjection
<1> QED BY SMTT(120), <1>1, <1>2, LedgerAssumption DEF Priced, Note

(* A new entry lies behind the others and its inputs before it.             *)
LEMMA WrittenKeepsPlaces ==
    ASSUME TreeTypes, ScanPlaces, SpentInTree,
           NEW m \in Message, NEW x \in Record, Checked(m), Written(m, x)
    PROVE  ScanPlaces' /\ SpentInTree'
<1>1. /\ nullifiers' = nullifiers \cup Range(m.inputs)
      /\ leaves' = leaves \o m.outputs
  BY DEF Written
<1>2. /\ leaves \in Seq(Note) /\ scan \in Seq(Record) /\ m.outputs \in Seq(Note) /\ m.inputs \in Seq(Note)
  BY DEF TreeTypes, Message
<1>3. /\ x.inputs = m.inputs /\ x.outputs = m.outputs /\ x.firstLeaf = Len(leaves)
  BY DEF Written
<1>4. scan' = Append(scan, x)
  BY DEF Written
<1>5. /\ Len(leaves') = Len(leaves) + Len(m.outputs) /\ Len(leaves) \in Nat /\ Len(m.outputs) \in Nat
      /\ \A l \in 1 .. Len(leaves) : leaves'[l] = leaves[l]
      /\ \A j \in 1 .. Len(m.outputs) : leaves'[Len(leaves) + j] = m.outputs[j]
      /\ DOMAIN m.outputs = 1 .. Len(m.outputs) /\ DOMAIN leaves = 1 .. Len(leaves)
      /\ DOMAIN leaves' = 1 .. Len(leaves')
  BY <1>1, <1>2
<1>6. /\ Len(scan') = Len(scan) + 1 /\ Len(scan) \in Nat
      /\ DOMAIN scan' = 1 .. Len(scan) + 1 /\ DOMAIN scan = 1 .. Len(scan)
      /\ \A i \in 1 .. Len(scan) : scan'[i] = scan[i]
      /\ scan'[Len(scan) + 1] = x
  BY <1>2, <1>4
<1>7. \A n \in Range(m.inputs) : \E l \in 1 .. Len(leaves) : leaves[l] = n
  BY <1>1, InputsInTree
<1>8. SpentInTree'
  <2>1. Range(leaves) \subseteq Range(leaves')
    BY SMTT(120), <1>5 DEF Range
  <2>2. Range(m.inputs) \subseteq Range(leaves)
    BY <1>5, <1>7 DEF Range
  <2> QED BY <1>1, <2>1, <2>2 DEF SpentInTree
<1>9. ASSUME NEW i \in DOMAIN scan'
      PROVE  /\ scan'[i].firstLeaf + Len(scan'[i].outputs) <= Len(leaves')
             /\ scan'[i].firstLeaf + Len(scan'[i].outputs) =
                  IF i = Len(scan') THEN Len(leaves') ELSE scan'[i + 1].firstLeaf
             /\ \A j \in DOMAIN scan'[i].outputs : leaves'[scan'[i].firstLeaf + j] = scan'[i].outputs[j]
             /\ \A n \in Range(scan'[i].inputs) : \E l \in 1 .. scan'[i].firstLeaf : leaves'[l] = n
  <2>1. CASE i = Len(scan) + 1
    <3>1. scan'[i].firstLeaf = Len(leaves) /\ scan'[i].outputs = m.outputs /\ scan'[i].inputs = m.inputs
      BY <1>3, <1>6, <2>1
    <3>2. scan'[i].firstLeaf + Len(scan'[i].outputs) = Len(leaves') /\ i = Len(scan')
      BY <1>5, <1>6, <2>1, <3>1
    <3>3. Len(leaves') \in Nat
      BY SMTT(120), <1>5
    <3>4. \A j \in DOMAIN m.outputs : leaves'[Len(leaves) + j] = m.outputs[j]
      BY <1>5
    <3>5. \A n \in Range(m.inputs) : \E l \in 1 .. Len(leaves) : leaves'[l] = n
      BY <1>5, <1>7
    <3> QED BY SMTT(120), <3>1, <3>2, <3>3, <3>4, <3>5
  <2>2. CASE i \in 1 .. Len(scan)
    <3>1. scan[i] \in Record /\ scan'[i] = scan[i]
      BY SMTT(120), <1>2, <1>6, <2>2
    <3>2. /\ scan[i].firstLeaf \in Nat /\ scan[i].outputs \in Seq(Note) /\ Len(scan[i].outputs) \in Nat
          /\ DOMAIN scan[i].outputs = 1 .. Len(scan[i].outputs)
      BY SMTT(120), <3>1 DEF Record
    <3>3. /\ scan[i].firstLeaf + Len(scan[i].outputs) <= Len(leaves)
          /\ scan[i].firstLeaf + Len(scan[i].outputs) =
               IF i = Len(scan) THEN Len(leaves) ELSE scan[i + 1].firstLeaf
          /\ \A j \in DOMAIN scan[i].outputs : leaves[scan[i].firstLeaf + j] = scan[i].outputs[j]
          /\ \A n \in Range(scan[i].inputs) : \E l \in 1 .. scan[i].firstLeaf : leaves[l] = n
      BY <1>6, <2>2 DEF ScanPlaces
    <3>4. scan'[i].firstLeaf + Len(scan'[i].outputs) <= Len(leaves')
      BY SMTT(120), <1>5, <3>1, <3>2, <3>3
    <3>5. scan'[i].firstLeaf + Len(scan'[i].outputs) = scan'[i + 1].firstLeaf /\ i # Len(scan')
      <4>1. CASE i = Len(scan)
        <5>1. scan'[i + 1] = x
          BY <1>6, <4>1, ZenonT(120)
        <5>2. scan'[i].firstLeaf + Len(scan'[i].outputs) = Len(leaves)
          BY <3>1, <3>3, <4>1
        <5>3. Len(scan) # Len(scan')
          <6>1. Len(scan') = Len(scan) + 1 /\ Len(scan) \in Nat
            BY <1>6
          <6> QED BY <6>1
        <5> QED BY <1>3, <4>1, <5>1, <5>2, <5>3
      <4>2. CASE i # Len(scan)
        BY SMTT(120), <1>6, <2>2, <3>1, <3>3, <4>2
      <4> QED BY <1>6, <2>2, <4>1, <4>2
    <3>6. ASSUME NEW j \in DOMAIN scan[i].outputs
          PROVE  leaves'[scan[i].firstLeaf + j] = scan[i].outputs[j]
      <4>1. scan[i].firstLeaf + j \in 1 .. Len(leaves)
        BY SMTT(120), <1>5, <3>2, <3>3
      <4> QED BY <1>5, <3>3, <4>1
    <3>7. ASSUME NEW n \in Range(scan[i].inputs)
          PROVE  \E l \in 1 .. scan[i].firstLeaf : leaves'[l] = n
      <4>1. PICK l \in 1 .. scan[i].firstLeaf : leaves[l] = n
        BY <3>3
      <4>2. l \in 1 .. Len(leaves)
        BY SMTT(120), <1>5, <3>2, <3>3
      <4> QED BY <1>5, <4>1, <4>2
    <3> QED BY <3>1, <3>4, <3>5, <3>6, <3>7
  <2> QED BY SMTT(120), <1>6, <2>1, <2>2
<1> QED BY <1>8, <1>9 DEF ScanPlaces

(* What an accepted message does to the unspent notes of one denom.         *)
OfDenom(S, d) == {n \in S : n.denom = d}

(* An executed message takes its inputs of a denom out of the unspent notes *)
(* and adds its outputs: applyPrivacyTransition spends and appends as one   *)
(* write.                                                                   *)
LEMMA UnspentMoves ==
    ASSUME TreeTypes, SpentInTree, NEW m \in Message, NEW x \in Record, Checked(m), Written(m, x),
           NEW d \in Denoms
    PROVE  LET In == OfDenom(Range(m.inputs), d)
               Out == OfDenom(Range(m.outputs), d)
           IN  /\ Priced(In) /\ Priced(Out) /\ Worth(In) \in Nat /\ Worth(Out) \in Nat
               /\ Worth(Unspent(d)) \in Nat /\ Worth(Unspent(d)') \in Nat
               /\ Worth(Unspent(d)') + Worth(In) = Worth(Unspent(d)) + Worth(Out)
<1> DEFINE In == OfDenom(Range(m.inputs), d)
           Out == OfDenom(Range(m.outputs), d)
           U == Unspent(d)
           Rest == U \ In
<1>1. /\ nullifiers' = nullifiers \cup Range(m.inputs)
      /\ leaves' = leaves \o m.outputs
  BY DEF Written
<1>2. /\ leaves \in Seq(Note) /\ m.outputs \in Seq(Note) /\ m.inputs \in Seq(Note)
  BY DEF TreeTypes, Message
<1>3. /\ Priced(Range(leaves)) /\ Priced(Range(m.inputs)) /\ Priced(Range(m.outputs))
  BY <1>2, RangePriced
<1>4. \A A, B : Priced(A) /\ B \subseteq A => Priced(B)
  BY FS_Subset DEF Priced
<1>5. Priced(In) /\ Priced(Out) /\ Priced(U) /\ Priced(Rest)
  <2>1. In \subseteq Range(m.inputs) /\ Out \subseteq Range(m.outputs) /\ U \subseteq Range(leaves)
        /\ Rest \subseteq Range(leaves)
    BY DEF OfDenom, Unspent
  <2> QED BY <1>3, <1>4, <2>1
<1>6. Range(leaves') = Range(leaves) \cup Range(m.outputs)
  <2>1. /\ DOMAIN leaves = 1 .. Len(leaves) /\ DOMAIN m.outputs = 1 .. Len(m.outputs)
        /\ DOMAIN leaves' = 1 .. Len(leaves) + Len(m.outputs)
        /\ Len(leaves) \in Nat /\ Len(m.outputs) \in Nat
        /\ \A i \in 1 .. Len(leaves) : leaves'[i] = leaves[i]
        /\ \A i \in 1 .. Len(m.outputs) : leaves'[Len(leaves) + i] = m.outputs[i]
    BY <1>1, <1>2
  <2>2. \A i \in DOMAIN leaves' : i \in DOMAIN leaves \/ i - Len(leaves) \in DOMAIN m.outputs
    BY SMTT(120), <2>1
  <2>3. \A i \in DOMAIN leaves' : i \notin DOMAIN leaves => leaves'[i] = m.outputs[i - Len(leaves)]
    BY SMTT(120), <2>1
  <2>4. \A i \in DOMAIN m.outputs : Len(leaves) + i \in DOMAIN leaves'
    BY SMTT(120), <2>1
  <2> QED BY SMTT(120), <2>1, <2>2, <2>3, <2>4 DEF Range
<1>7. Range(m.inputs) \subseteq Range(leaves) /\ Range(m.inputs) \cap nullifiers = {}
  <2>1. Range(m.inputs) \subseteq Range(leaves)
    <3> SUFFICES ASSUME NEW n \in Range(m.inputs) PROVE n \in Range(leaves)
      OBVIOUS
    <3>1. PICK l \in 1 .. Len(leaves) : leaves[l] = n
      BY <1>1, InputsInTree
    <3> QED BY SMTT(120), <1>2, <3>1 DEF Range
  <2>2. Range(m.inputs) \cap nullifiers = {}
    BY DEF Checked, HasNullifier, Range
  <2> QED BY <2>1, <2>2
<1>8. Range(m.outputs) \cap Range(leaves) = {}
  BY DEF Checked, HasCommitment, Range
<1>9. U = Rest \cup In /\ Rest \cap In = {}
  BY <1>7 DEF OfDenom, Unspent
<1>10. Unspent(d)' = {n \in Range(leaves') \ nullifiers' : n.denom = d}
  BY DEF Unspent
<1>11. Unspent(d)' = Rest \cup Out /\ Rest \cap Out = {}
  BY <1>1, <1>6, <1>7, <1>8, <1>10 DEF OfDenom, Unspent, SpentInTree
<1> HIDE DEF In, Out, U, Rest
<1>12. /\ Worth(U) = Worth(Rest) + Worth(In) /\ Worth(Rest) \in Nat /\ Worth(In) \in Nat
  BY <1>5, <1>9, WorthUnion
<1>13. Worth(Unspent(d)') = Worth(Rest) + Worth(Out) /\ Worth(Out) \in Nat
  BY <1>5, <1>11, WorthUnion
<1>14. /\ Priced(In) /\ Priced(Out) /\ Worth(In) \in Nat /\ Worth(Out) \in Nat
       /\ Worth(U) \in Nat /\ Worth(Unspent(d)') \in Nat
       /\ Worth(Unspent(d)') + Worth(In) = Worth(U) + Worth(Out)
  BY SMTT(120), <1>5, <1>12, <1>13
<1> QED BY <1>14 DEF In, Out, U

(* The worth of one note and of two.                                        *)
LEMMA WorthOfOne ==
    ASSUME NEW a \in Note
    PROVE  Worth({a}) = a.amount /\ Priced({a})
<1>1. a.amount \in Nat
  BY SMTT(120), LedgerAssumption DEF Note
<1>2. Priced({} \cup {a}) /\ Worth({} \cup {a}) = 0 + a.amount
  BY <1>1, WorthEmpty, WorthAdd
<1>3. {} \cup {a} = {a}
  OBVIOUS
<1> QED BY <1>1, <1>2, <1>3

(* Two distinct notes are worth the sum of their amounts.                   *)
LEMMA WorthOfTwo ==
    ASSUME NEW a \in Note, NEW b \in Note, a # b
    PROVE  Worth({a, b}) = a.amount + b.amount
<1>1. b.amount \in Nat /\ b \notin {a} /\ {a} \cup {b} = {a, b}
  BY SMTT(120), LedgerAssumption DEF Note
<1>2. Worth({a} \cup {b}) = Worth({a}) + b.amount
  BY <1>1, WorthOfOne, WorthAdd
<1> QED BY <1>1, <1>2, WorthOfOne

(* How many notes a message of each kind spends and creates, and that a     *)
(* transfer of either kind is of one asset (ValidateActiveCounts and the    *)
(* circuits).                                                               *)
LEMMA MessageShape ==
    ASSUME NEW m \in Message, Checked(m)
    PROVE  /\ m.kind = "deposit" => Len(m.inputs) = 0 /\ Len(m.outputs) = 1
           /\ m.kind = "withdraw" => Len(m.inputs) = 1 /\ Len(m.outputs) = 0
           /\ m.kind = "transfer" => Len(m.inputs) = 2 /\ Len(m.outputs) = 2
           /\ m.kind \in {"transfer", "batch"} => Len(m.inputs) >= 1 /\ OneAsset(m)
<1>1. ActiveCounts(m) /\ VerifyProof(m)
  BY DEF Checked
<1>2. m.kind \in {"transfer", "batch"} => OneAsset(m)
  BY <1>1 DEF VerifyProof, JoinSplitCircuit, BatchJoinSplit16x32
<1>3. m.kind \in {"transfer", "batch"} => Len(m.inputs) >= 1
  BY <1>1 DEF ActiveCounts
<1>4. /\ m.kind = "deposit" => Len(m.inputs) = 0 /\ Len(m.outputs) = 1
      /\ m.kind = "withdraw" => Len(m.inputs) = 1 /\ Len(m.outputs) = 0
      /\ m.kind = "transfer" => Len(m.inputs) = 2 /\ Len(m.outputs) = 2
  BY <1>1 DEF ActiveCounts
<1> QED BY <1>2, <1>3, <1>4

(* The circuits balance each denom: what a message spends of it and what it *)
(* creates differ by the coins it moves (applyAuditPrincipal).              *)
LEMMA MessageBalanced ==
    ASSUME NEW m \in Message, Checked(m), NEW d \in Denoms
    PROVE  LET In == OfDenom(Range(m.inputs), d)
               Out == OfDenom(Range(m.outputs), d)
           IN  IF Transparent(m) /\ m.denom = d
               THEN IF m.kind = "deposit" THEN Worth(In) = 0 /\ Worth(Out) = m.amount
                                          ELSE Worth(In) = m.amount /\ Worth(Out) = 0
               ELSE Worth(In) = Worth(Out)
<1> DEFINE In == OfDenom(Range(m.inputs), d)
           Out == OfDenom(Range(m.outputs), d)
<1>1. /\ m.outputs \in Seq(Note) /\ m.inputs \in Seq(Note) /\ m.kind \in Kinds
      /\ m.denom \in Denoms /\ m.amount \in Nat
  BY DEF Message
<1>2. Worth({}) = 0
  BY WorthEmpty
<1>3. ASSUME NEW s \in Seq(Note), Len(s) = 0 PROVE Range(s) = {}
  BY <1>3 DEF Range
<1>4. ASSUME NEW s \in Seq(Note), Len(s) = 1 PROVE Range(s) = {s[1]} /\ s[1] \in Note
  BY <1>4 DEF Range
<1>5. CASE m.kind = "deposit"
  <2>1. Len(m.inputs) = 0 /\ Len(m.outputs) = 1
    BY <1>5, MessageShape
  <2>2. m.outputs[1].amount = m.amount /\ m.outputs[1].denom = m.denom
    BY <1>5 DEF Checked, VerifyProof, DepositCircuit
  <2>3. In = {} /\ Range(m.outputs) = {m.outputs[1]} /\ m.outputs[1] \in Note
    BY <1>1, <1>3, <1>4, <2>1 DEF OfDenom
  <2>4. CASE m.denom = d
    <3>1. Out = {m.outputs[1]}
      BY <2>2, <2>3, <2>4 DEF OfDenom
    <3> QED BY <1>2, <1>5, <2>2, <2>3, <2>4, <3>1, WorthOfOne DEF Transparent
  <2>5. CASE m.denom # d
    <3>1. Out = {}
      BY <2>2, <2>3, <2>5 DEF OfDenom
    <3> QED BY <1>2, <2>3, <2>5, <3>1
  <2> QED BY <2>4, <2>5
<1>6. CASE m.kind = "withdraw"
  <2>1. Len(m.inputs) = 1 /\ Len(m.outputs) = 0
    BY <1>6, MessageShape
  <2>2. m.inputs[1].amount = m.amount /\ m.inputs[1].denom = m.denom
    BY <1>6 DEF Checked, VerifyProof, SpendCircuit
  <2>3. Out = {} /\ Range(m.inputs) = {m.inputs[1]} /\ m.inputs[1] \in Note
    BY <1>1, <1>3, <1>4, <2>1 DEF OfDenom
  <2>4. CASE m.denom = d
    <3>1. In = {m.inputs[1]}
      BY <2>2, <2>3, <2>4 DEF OfDenom
    <3> QED BY <1>2, <1>6, <2>2, <2>3, <2>4, <3>1, WorthOfOne DEF Transparent
  <2>5. CASE m.denom # d
    <3>1. In = {}
      BY <2>2, <2>3, <2>5 DEF OfDenom
    <3> QED BY <1>2, <2>3, <2>5, <3>1
  <2> QED BY <2>4, <2>5
<1>7. CASE m.kind \in {"transfer", "batch"}
  <2>1. OneAsset(m) /\ Len(m.inputs) >= 1
    BY <1>7, MessageShape
  <2>2. Worth(Range(m.inputs)) = Worth(Range(m.outputs))
    <3>1. CASE m.kind = "batch"
      BY <3>1 DEF Checked, VerifyProof, BatchJoinSplit16x32, Total, Worth
    <3>2. CASE m.kind = "transfer"
      <4>1. Len(m.inputs) = 2 /\ Len(m.outputs) = 2
        BY <3>2, MessageShape
      <4>2. /\ m.inputs[1] # m.inputs[2] /\ m.outputs[1] # m.outputs[2]
            /\ m.inputs[1].amount + m.inputs[2].amount = m.outputs[1].amount + m.outputs[2].amount
        BY <3>2 DEF Checked, VerifyProof, JoinSplitCircuit
      <4>3. ASSUME NEW s \in Seq(Note), Len(s) = 2
            PROVE  Range(s) = {s[1], s[2]} /\ s[1] \in Note /\ s[2] \in Note
        BY <4>3 DEF Range
      <4>4. Worth(Range(m.inputs)) = m.inputs[1].amount + m.inputs[2].amount
        BY <1>1, <4>1, <4>2, <4>3, WorthOfTwo
      <4>5. Worth(Range(m.outputs)) = m.outputs[1].amount + m.outputs[2].amount
        BY <1>1, <4>1, <4>2, <4>3, WorthOfTwo
      <4> QED BY <4>2, <4>4, <4>5
    <3> QED BY <1>7, <3>1, <3>2
  <2>3. PICK a \in Range(m.inputs) : TRUE
    <3>1. 1 \in DOMAIN m.inputs
      BY <1>1, <2>1
    <3> QED BY <3>1 DEF Range
  <2>4. \A b \in Range(m.inputs) \cup Range(m.outputs) : b.denom = a.denom
    BY <2>1, <2>3 DEF OneAsset
  <2>5. CASE a.denom = d
    <3>1. In = Range(m.inputs) /\ Out = Range(m.outputs)
      BY <2>4, <2>5 DEF OfDenom
    <3> QED BY <1>7, <2>2, <3>1 DEF Transparent
  <2>6. CASE a.denom # d
    <3>1. In = {} /\ Out = {}
      BY <2>4, <2>6 DEF OfDenom
    <3> QED BY <1>7, <3>1 DEF Transparent
  <2> QED BY <2>5, <2>6
<1> QED BY <1>1, <1>5, <1>6, <1>7 DEF Kinds

(* Deposits, withdrawals and transfers keep the unspent notes worth what    *)
(* the module owes (the reserve counters of applyAuditPrincipal).           *)
LEMMA WrittenKeepsValue ==
    ASSUME TreeTypes, CoinTypes, SpentInTree, LeavesRegistered, ValueConserved,
           NEW m \in Message, NEW payer \in Holders, NEW x \in Record,
           Checked(m), Written(m, x), MovePrincipal(m, payer)
    PROVE  ValueConserved' /\ LeavesRegistered'
<1>1. /\ MovePrincipal(m, payer) /\ leaves' = leaves \o m.outputs
      /\ m.kind \in Kinds /\ m.denom \in Denoms /\ m.amount \in Nat
      /\ m.outputs \in Seq(Note) /\ leaves \in Seq(Note)
  BY DEF Written, Message, TreeTypes
<1>2. ASSUME NEW d \in Denoms PROVE Liability(d)' = Worth(Unspent(d)')
  <2> DEFINE In == OfDenom(Range(m.inputs), d)
             Out == OfDenom(Range(m.outputs), d)
  <2>1. /\ Worth(In) \in Nat /\ Worth(Out) \in Nat
        /\ Worth(Unspent(d)) \in Nat /\ Worth(Unspent(d)') \in Nat
        /\ Worth(Unspent(d)') + Worth(In) = Worth(Unspent(d)) + Worth(Out)
    BY <1>2, UnspentMoves
  <2>2. IF Transparent(m) /\ m.denom = d
        THEN IF m.kind = "deposit" THEN Worth(In) = 0 /\ Worth(Out) = m.amount
                                   ELSE Worth(In) = m.amount /\ Worth(Out) = 0
        ELSE Worth(In) = Worth(Out)
    BY <1>1, <1>2, MessageBalanced
  <2> HIDE DEF In, Out
  <2>3. Liability(d) = Worth(Unspent(d))
    BY DEF ValueConserved, Worth
  <2>4. deposited \in [Denoms -> Nat] /\ withdrawn \in [Denoms -> Nat]
    BY DEF CoinTypes
  <2>5. deposited[d] \in Nat /\ withdrawn[d] \in Nat
    BY <2>4
  <2>6. CASE Transparent(m) /\ m.denom = d /\ m.kind = "deposit"
    <3>1. deposited'[d] = deposited[d] + m.amount /\ withdrawn'[d] = withdrawn[d]
      BY <1>1, <2>4, <2>6 DEF MovePrincipal
    <3> QED BY SMTT(120), <1>1, <2>1, <2>2, <2>3, <2>5, <2>6, <3>1 DEF Liability
  <2>7. CASE Transparent(m) /\ m.denom = d /\ m.kind # "deposit"
    <3>1. withdrawn'[d] = withdrawn[d] + m.amount /\ deposited'[d] = deposited[d]
      BY <1>1, <2>4, <2>7 DEF MovePrincipal, Transparent
    <3>2. Worth(In) = m.amount /\ Worth(Out) = 0
      BY <2>2, <2>7
    <3> QED BY SMTT(120), <1>1, <2>1, <2>3, <2>5, <3>1, <3>2 DEF Liability
  <2>8. CASE ~(Transparent(m) /\ m.denom = d)
    <3>1. withdrawn'[d] = withdrawn[d] /\ deposited'[d] = deposited[d]
      BY <1>1, <2>4, <2>8 DEF MovePrincipal, Transparent
    <3> QED BY <2>1, <2>2, <2>3, <2>5, <2>8, <3>1 DEF Liability
  <2> QED BY <2>6, <2>7, <2>8
<1>3. ValueConserved'
  BY <1>2 DEF ValueConserved, Worth, MapThenSumSet, MapThenFoldSet
<1>4. \A i \in DOMAIN m.outputs : m.outputs[i].denom \in Registered
  <2> SUFFICES ASSUME NEW i \in DOMAIN m.outputs PROVE m.outputs[i].denom \in Registered
    OBVIOUS
  <2>1. i \in 1 .. Len(m.outputs) /\ m.outputs[i] \in Range(m.outputs) /\ m.inputs \in Seq(Note)
    BY <1>1 DEF Range, Message
  <2>2. CASE m.kind = "deposit"
    <3>1. i = 1 /\ m.denom \in Registered
      <4>1. Len(m.outputs) = 1
        BY <2>2, MessageShape
      <4>2. m.denom \in Registered
        BY <2>2 DEF Checked, Transparent
      <4> QED BY <2>1, <4>1, <4>2
    <3> QED BY <1>1, <2>2, <3>1 DEF Checked, VerifyProof, DepositCircuit
  <2>3. CASE m.kind = "withdraw"
    BY SMTT(120), <2>1, <2>3, MessageShape
  <2>4. CASE m.kind \in {"transfer", "batch"}
    <3>1. OneAsset(m) /\ Len(m.inputs) >= 1
      BY <2>4, MessageShape
    <3>2. m.inputs[1] \in Range(m.inputs)
      <4>1. 1 \in DOMAIN m.inputs
        BY <2>1, <3>1
      <4> QED BY <4>1 DEF Range
    <3>3. PICK l \in 1 .. Len(leaves) : leaves[l] = m.inputs[1]
      BY <1>1, <3>2, InputsInTree
    <3>4. leaves[l].denom \in Registered
      BY <1>1, <3>3 DEF LeavesRegistered
    <3> QED BY <2>1, <3>1, <3>2, <3>3, <3>4 DEF OneAsset
  <2> QED BY <1>1, <2>2, <2>3, <2>4 DEF Kinds
<1>5. ASSUME NEW i \in DOMAIN leaves' PROVE leaves'[i].denom \in Registered
  <2>1. i \in 1 .. Len(leaves) + Len(m.outputs) /\ Len(leaves) \in Nat /\ Len(m.outputs) \in Nat
    BY <1>1
  <2>2. CASE i \in 1 .. Len(leaves)
    BY <1>1, <2>2 DEF LeavesRegistered
  <2>3. CASE i \notin 1 .. Len(leaves)
    <3>1. i - Len(leaves) \in DOMAIN m.outputs /\ leaves'[i] = m.outputs[i - Len(leaves)]
      BY <1>1, <2>1, <2>3
    <3> QED BY <1>4, <3>1
  <2> QED BY <2>2, <2>3
<1> QED BY <1>3, <1>5 DEF LeavesRegistered

(* A message keeps ValueInv by its circuit and its principal, in either     *)
(* lane.                                                                    *)
LEMMA WrittenKeepsValueInv ==
    ASSUME TreeTypes, CoinTypes, ValueInv, NEW m \in Message, NEW payer \in Holders,
           NEW x \in Record, Checked(m), Written(m, x), MovePrincipal(m, payer)
    PROVE  ValueInv'
<1>1. ScanPlaces' /\ SpentInTree'
  BY WrittenKeepsPlaces DEF ValueInv
<1>2. ValueConserved' /\ LeavesRegistered'
  BY WrittenKeepsValue DEF ValueInv
<1> QED BY <1>1, <1>2 DEF ValueInv

(* What touches neither notes nor counters keeps ValueInv. *)
LEMMA IdleKeepsValueInv ==
    ASSUME ValueInv, UNCHANGED <<deposited, withdrawn, leaves, nullifiers, scan>>
    PROVE  ValueInv'
<1>1. \A d \in Denoms : Unspent(d)' = Unspent(d) /\ Liability(d)' = Liability(d)
  BY DEF Liability, Unspent
<1>2. ValueConserved'
  BY <1>1 DEF ValueInv, ValueConserved, MapThenSumSet, MapThenFoldSet
<1> QED BY SMTT(120), <1>2 DEF ValueInv, ScanPlaces, SpentInTree, LeavesRegistered

(* Every step keeps ValueInv: a message by its circuit and its principal, a *)
(* bank transfer and a key step because they touch neither notes nor        *)
(* counters.                                                                *)
LEMMA ValueStep == LedgerInv /\ ValueInv /\ [LedgerNext]_allVars => ValueInv'
<1> SUFFICES ASSUME LedgerInv, ValueInv, [LedgerNext]_allVars PROVE ValueInv'
  OBVIOUS
<1>1. ASSUME NEW m \in Message, NEW payer \in Holders, ExecuteAudit(m, payer) PROVE ValueInv'
  <2>1. /\ Checked(m) /\ Written(m, ScanEntry(m)) /\ MovePrincipal(m, payer)
        /\ ScanEntry(m) \in Entry
    BY <1>1, AuditChecked
  <2>2. ScanEntry(m) \in Record
    BY SMTT(120), <2>1 DEF Entry, Record, Epochs
  <2>3. TreeTypes /\ CoinTypes
    BY LedgerTreeInv DEF TreeInv
  <2> QED BY <2>1, <2>2, <2>3, WrittenKeepsValueInv
<1>2. ASSUME UNCHANGED <<deposited, withdrawn, leaves, nullifiers, scan>> PROVE ValueInv'
  BY <1>2, IdleKeepsValueInv
<1>3. ASSUME NEW m \in Message, Deposit(m) \/ Withdraw(m) \/ Transfer(m) \/ BatchTransfer(m)
      PROVE ValueInv'
  <2>1. ExecuteAudit(m, m.creator) /\ m.creator \in Holders
    BY <1>3 DEF Deposit, Withdraw, Transfer, BatchTransfer, Message
  <2> QED BY <1>1, <2>1
<1>4. ASSUME NEW m \in Message, NEW f \in Holders, DepositWithFunderV2(m, f) PROVE ValueInv'
  BY <1>1, <1>4 DEF DepositWithFunderV2
<1>5. ASSUME NEW from \in Holders, NEW to \in Holders, NEW d \in Denoms, NEW a \in Nat,
             BankSend(from, to, d, a)
      PROVE ValueInv'
  BY <1>2, <1>5 DEF BankSend
<1>6. CASE KeyStep
  BY <1>2, <1>6 DEF KeyStep, ledgerVars
<1>7. CASE UNCHANGED allVars
  BY <1>2, <1>7 DEF allVars, ledgerVars
<1> QED BY <1>3, <1>4, <1>5, <1>6, <1>7 DEF LedgerNext

(* The fresh ledger has no notes and owes nothing.                          *)
LEMMA ValueInitInv == LedgerInit => ValueInv
<1> SUFFICES ASSUME LedgerInit PROVE ValueInv
  OBVIOUS
<1>1. leaves = <<>> /\ nullifiers = {} /\ scan = <<>>
      /\ deposited = [d \in Denoms |-> 0] /\ withdrawn = [d \in Denoms |-> 0]
  BY DEF LedgerInit
<1>2. ScanPlaces /\ SpentInTree /\ LeavesRegistered
  BY <1>1 DEF ScanPlaces, SpentInTree, LeavesRegistered
<1>3. ASSUME NEW d \in Denoms PROVE Liability(d) = Worth(Unspent(d))
  <2>1. Unspent(d) = {}
    BY <1>1 DEF Unspent, Range
  <2>2. Liability(d) = 0
    BY <1>1 DEF Liability
  <2> QED BY <2>1, <2>2, WorthEmpty
<1> QED BY <1>2, <1>3 DEF ValueInv, ValueConserved, Worth

(* ValueInv is inductive relative to LedgerInv. *)
THEOREM ValueSafety == LedgerSpec => []ValueInv
<1> QED BY LedgerSafety, ValueInitInv, ValueStep, PTL DEF LedgerSpec

(* Per denom, deposits less withdrawals are always exactly the unspent      *)
(* notes, whatever messages, circuits and bank transfers were executed.     *)
THEOREM ValueConservedSafe == LedgerSpec => []ValueConserved
<1>1. ValueInv => ValueConserved
  BY DEF ValueInv
<1> QED BY <1>1, ValueSafety, PTL

(* The wallet scan is always the ledger: outputs at their leaves, inputs    *)
(* the nullifiers, every input an earlier output (storeAuditScan).          *)
THEOREM ScanIsTheLedgerSafe == LedgerSpec => []ScanIsTheLedger
<1>1. LedgerInv /\ ValueInv => ScanIsTheLedger
  BY DEF LedgerInv, ValueInv, ScanPlaces, SpentByScan, ScanIsTheLedger
<1> QED BY <1>1, LedgerSafety, ValueSafety, PTL

(* A note that is unspent is worth no more than the module owes in its      *)
(* asset: applyAuditPrincipal's liability check cannot fail for it.         *)
LEMMA NoteWithinLiability ==
    ASSUME TreeTypes, ValueInv, NEW i \in 1 .. Len(leaves), leaves[i] \notin nullifiers
    PROVE  leaves[i].amount <= Liability(leaves[i].denom)
<1> DEFINE n == leaves[i]
           d == n.denom
           Rest == Unspent(d) \ {n}
<1>1. leaves \in Seq(Note) /\ n \in Note /\ d \in Denoms /\ n.amount \in Nat
  <2>1. leaves \in Seq(Note) /\ MaxAmount \in Nat
    BY LedgerAssumption DEF TreeTypes
  <2>2. n \in Note
    BY SMTT(120), <2>1
  <2> QED BY <2>1, <2>2 DEF Note
<1>2. n \in Unspent(d) /\ n \notin Rest /\ Rest \cup {n} = Unspent(d)
  BY SMTT(120), <1>1 DEF Unspent, Range
<1>3. Priced(Unspent(d))
  <2>1. Priced(Range(leaves))
    BY <1>1, RangePriced
  <2>2. Unspent(d) \subseteq Range(leaves)
    BY DEF Unspent
  <2> QED BY <2>1, <2>2, FS_Subset DEF Priced
<1>4. Priced(Rest)
  <2>1. Rest \subseteq Unspent(d)
    OBVIOUS
  <2> QED BY <1>3, <2>1, FS_Subset DEF Priced
<1>5. Worth(Rest) \in Nat /\ Worth(Rest \cup {n}) = Worth(Rest) + n.amount
  BY <1>1, <1>2, <1>4, WorthAdd, WorthIsAdditive
<1>6. Liability(d) = Worth(Unspent(d))
  BY <1>1 DEF ValueInv, ValueConserved, Worth
<1>7. Liability(d) = Worth(Rest) + n.amount
  BY <1>2, <1>5, <1>6
<1> HIDE DEF Rest
<1> QED BY SMTT(120), <1>1, <1>5, <1>7

(* Unless privacy is halted, an unspent note can be withdrawn at once: no   *)
(* check of the withdraw handler, its reserve checks included, refuses it.  *)
THEOREM WithdrawSafe == LedgerSpec => []WithdrawAlwaysPossible
<1>1. LedgerInv /\ ValueInv => WithdrawAlwaysPossible
  <2> SUFFICES ASSUME LedgerInv, ValueInv, ~halted, Delivering, SequenceLeft,
                      NEW i \in 1 .. Len(leaves), leaves[i] \notin nullifiers, leaves[i].amount > 0,
                      NEW root \in i .. Len(leaves), NEW to \in Accounts
               PROVE  Accepts(WithdrawMessage(leaves[i], root, to), to)
    BY DEF WithdrawAlwaysPossible
  <2> DEFINE n == leaves[i]
             m == WithdrawMessage(n, root, to)
  <2>1. /\ leaves \in Seq(Note) /\ n \in Note /\ n.denom \in Denoms /\ n.amount \in 1 .. MaxAmount
        /\ Len(leaves) \in Nat /\ Len(leaves) <= MaxLeaves /\ MaxLeaves \in Nat
        /\ height \in Nat /\ active.epoch \in Epochs
    <3>1. /\ leaves \in Seq(Note) /\ MaxAmount \in Nat /\ MaxLeaves \in Nat
          /\ Len(leaves) <= MaxLeaves
      BY LedgerAssumption DEF LedgerInv, LedgerTypeOK
    <3>2. n \in Note /\ n.amount > 0 /\ Len(leaves) \in Nat
      BY <3>1
    <3>3. height \in Nat /\ active.epoch \in Epochs
      BY DEF LedgerInv, KeyInv, KeyTypeOK, Pointer
    <3> QED BY SMTT(120), <3>1, <3>2, <3>3 DEF Note
  <2>2. /\ m.kind = "withdraw" /\ m.creator = to /\ m.recipient = to /\ m.denom = n.denom
        /\ m.amount = n.amount /\ m.root = root /\ m.inputs = <<n>> /\ m.outputs = <<>>
        /\ m.epoch = active.epoch /\ m.keyID = auditKey[active.epoch].keyID
        /\ m.expiry = height + 1
    BY DEF WithdrawMessage
  <2> HIDE DEF m
  <2>3. to # Module /\ to # Gov
    BY LedgerAssumption
  <2>4. ValidateAuditMessage(m)
    BY SMTT(120), <2>1, <2>2 DEF ValidateAuditMessage, ActiveCounts, Transparent, IsInjective, Epochs
  <2>5. BuildAuditPublic(m)
    <3>1. AuthorizedByActiveKey(m)
      BY <2>2 DEF AuthorizedByActiveKey, LedgerInv, KeyInv
    <3>2. height < m.expiry
      BY SMTT(120), <2>1, <2>2
    <3>3. CheckHistoricalRoot(m.root)
      BY SMTT(120), <2>1, <2>2 DEF CheckHistoricalRoot
    <3>4. \A j \in DOMAIN m.inputs : ~HasNullifier(m.inputs[j])
      BY <2>2 DEF HasNullifier
    <3>5. EnsureCanAppendCommitments(Len(m.outputs)) /\ DOMAIN m.outputs = {}
      BY SMTT(120), <2>1, <2>2 DEF EnsureCanAppendCommitments
    <3>6. m.denom \in Registered /\ Endpoint(m) # Module
      BY SMTT(120), <2>1, <2>2, <2>3 DEF ValueInv, LeavesRegistered, Endpoint
    <3> QED BY <3>1, <3>2, <3>3, <3>4, <3>5, <3>6 DEF BuildAuditPublic
  <2>6. VerifyProof(m)
    BY SMTT(120), <2>1, <2>2 DEF VerifyProof, SpendCircuit, InTree
  <2>7. PrincipalAllowed(m, to)
    <3>1. balances[Module][n.denom] >= Liability(n.denom)
      BY <2>1 DEF LedgerInv, ReserveBacked
    <3>2. n.amount <= Liability(n.denom)
      BY LedgerTreeInv, NoteWithinLiability DEF TreeInv
    <3>3. balances[Module][n.denom] \in Int /\ Liability(n.denom) \in Int /\ n.amount \in Int
      <4>1. /\ balances \in [Holders -> [Denoms -> Nat]] /\ Module \in Holders
            /\ deposited \in [Denoms -> Nat] /\ withdrawn \in [Denoms -> Nat]
        BY DEF LedgerInv, LedgerTypeOK, Holders
      <4>2. balances[Module] \in [Denoms -> Nat]
        BY <4>1
      <4> QED BY SMTT(120), <2>1, <4>1, <4>2 DEF Liability
    <3>4. n.amount <= balances[Module][n.denom]
      BY SMTT(120), <3>1, <3>2, <3>3
    <3> QED BY <2>2, <3>1, <3>2, <3>4 DEF PrincipalAllowed, Collateralized
  <2> QED BY <2>2, <2>3, <2>4, <2>5, <2>6, <2>7 DEF Accepts, m
<1> QED BY <1>1, LedgerSafety, ValueSafety, PTL

-----------------------------------------------------------------------------
(* The lane without the audit runtime.                                      *)
LegacyInv ==
    /\ TreeInv /\ CoinTypes /\ ReserveBacked /\ ValueInv
    /\ snapshot \in Seq(Nat) /\ SnapshotsInOrder

(* The lane checks and writes what the audit lane does of notes and scan;   *)
(* its coins are checked by the bank alone (BankCovers).                    *)
LEMMA LegacyChecked ==
    ASSUME LegacyInv, NEW m \in Message, NEW payer \in Holders, ExecuteLegacy(m, payer),
           payer # Module
    PROVE  /\ Checked(m) /\ Written(m, LegacyEntry(m)) /\ LegacyEntry(m) \in Record
           /\ Covered(m, payer) /\ MovePrincipal(m, payer)
<1>1. LegacyAccepts(m, payer) /\ MovePrincipal(m, payer)
  BY DEF ExecuteLegacy
<1>2. Checked(m)
  BY <1>1 DEF LegacyAccepts, ValidateBasic, LegacyPublic, Checked
<1>3. /\ LegacyEntry(m).height = height /\ LegacyEntry(m).firstLeaf = Len(leaves)
      /\ LegacyEntry(m).inputs = m.inputs /\ LegacyEntry(m).outputs = m.outputs
  BY DEF LegacyEntry, ScanEntry
<1>4. Written(m, LegacyEntry(m))
  BY <1>3 DEF ExecuteLegacy, Written, keyVars
<1>5. LegacyEntry(m) \in Record
  <2>1. leaves \in Seq(Note) /\ height \in Nat
    BY DEF LegacyInv, TreeInv, TreeTypes
  <2> QED BY SMTT(120), <2>1 DEF LegacyEntry, ScanEntry, Record, Message
<1>6. Covered(m, payer)
  BY <1>1 DEF LegacyAccepts, BankCovers, Covered
<1> QED BY <1>1, <1>2, <1>4, <1>5, <1>6

(* The snapshots of a message's leaves are of its block, behind the others  *)
(* (AppendCommitments and RecordCurrentMerkleRootSnapshotV1).               *)
LEMMA LegacySnapshots ==
    ASSUME LegacyInv, NEW m \in Message, NEW payer \in Holders, ExecuteLegacy(m, payer)
    PROVE  snapshot' \in Seq(Nat) /\ SnapshotsInOrder'
<1> DEFINE new == [i \in DOMAIN m.outputs |-> height]
<1>1. /\ snapshot' = snapshot \o new /\ leaves' = leaves \o m.outputs /\ height' = height
  BY DEF ExecuteLegacy, keyVars
<1>2. /\ snapshot \in Seq(Nat) /\ leaves \in Seq(Note) /\ m.outputs \in Seq(Note) /\ height \in Nat
      /\ Len(snapshot) = Len(leaves)
      /\ \A i \in DOMAIN snapshot : snapshot[i] <= height
      /\ \A i, j \in DOMAIN snapshot : i <= j => snapshot[i] <= snapshot[j]
  BY DEF LegacyInv, TreeInv, TreeTypes, SnapshotsInOrder, Message
<1>3. new \in Seq(Nat) /\ Len(new) = Len(m.outputs) /\ \A i \in 1 .. Len(m.outputs) : new[i] = height
  BY <1>2
<1> HIDE DEF new
<1>4. /\ snapshot' \in Seq(Nat) /\ Len(snapshot') = Len(snapshot) + Len(new)
      /\ Len(snapshot) \in Nat /\ Len(new) \in Nat
      /\ DOMAIN snapshot' = 1 .. Len(snapshot) + Len(new) /\ DOMAIN snapshot = 1 .. Len(snapshot)
      /\ \A i \in 1 .. Len(snapshot) : snapshot'[i] = snapshot[i] /\ snapshot[i] \in Nat
      /\ \A i \in 1 .. Len(snapshot) + Len(new) : i > Len(snapshot) => snapshot'[i] = new[i - Len(snapshot)]
  BY SMTT(120), <1>1, <1>2, <1>3
<1>5. \A i \in 1 .. Len(snapshot) + Len(new) : i > Len(snapshot) => snapshot'[i] = height
  <2> SUFFICES ASSUME NEW i \in 1 .. Len(snapshot) + Len(new), i > Len(snapshot)
               PROVE  snapshot'[i] = height
    OBVIOUS
  <2>1. i - Len(snapshot) \in 1 .. Len(m.outputs)
    BY SMTT(120), <1>3, <1>4
  <2> QED BY <1>3, <1>4, <2>1
<1>6. Len(snapshot') = Len(leaves')
  BY SMTT(120), <1>1, <1>2, <1>3, <1>4
<1>7. \A i \in DOMAIN snapshot' : snapshot'[i] <= height'
  <2> SUFFICES ASSUME NEW i \in 1 .. Len(snapshot) + Len(new) PROVE snapshot'[i] <= height
    BY <1>1, <1>4
  <2>1. CASE i > Len(snapshot)
    BY SMTT(120), <1>2, <1>5, <2>1
  <2>2. CASE ~(i > Len(snapshot))
    <3>1. i \in DOMAIN snapshot /\ snapshot'[i] = snapshot[i]
      BY SMTT(120), <1>4, <2>2
    <3> QED BY <1>2, <3>1
  <2> QED BY <2>1, <2>2
<1>8. ASSUME NEW i \in DOMAIN snapshot', NEW j \in DOMAIN snapshot', i <= j
      PROVE  snapshot'[i] <= snapshot'[j]
  <2>1. CASE j <= Len(snapshot)
    <3>1. /\ i \in DOMAIN snapshot /\ j \in DOMAIN snapshot
          /\ snapshot'[i] = snapshot[i] /\ snapshot'[j] = snapshot[j]
      BY SMTT(120), <1>4, <1>8, <2>1
    <3> QED BY <1>2, <1>8, <3>1
  <2>2. CASE j > Len(snapshot)
    <3>1. snapshot'[j] = height'
      BY <1>1, <1>4, <1>5, <2>2
    <3> QED BY <1>7, <3>1
  <2> QED BY <1>4, <2>1, <2>2
<1> QED BY <1>4, <1>6, <1>7, <1>8 DEF SnapshotsInOrder

(* Every step of the lane keeps the invariant.                              *)
LEMMA LegacyStep == LegacyInv /\ [LegacyNext]_legacyVars => LegacyInv'
<1> SUFFICES ASSUME LegacyInv, [LegacyNext]_legacyVars PROVE LegacyInv'
  OBVIOUS
<1>1. ASSUME NEW m \in Message, NEW payer \in Holders, ExecuteLegacy(m, payer), payer # Module
      PROVE  LegacyInv'
  <2>1. /\ Checked(m) /\ Written(m, LegacyEntry(m)) /\ LegacyEntry(m) \in Record
        /\ Covered(m, payer) /\ MovePrincipal(m, payer)
    BY <1>1, LegacyChecked
  <2>2. TreeInv'
    BY <2>1, WrittenKeepsTree DEF LegacyInv
  <2>3. CoinTypes' /\ ReserveBacked'
    BY <2>1, PrincipalKeepsReserve DEF LegacyInv
  <2>4. ValueInv'
    BY <2>1, WrittenKeepsValueInv DEF LegacyInv, TreeInv
  <2>5. snapshot' \in Seq(Nat) /\ SnapshotsInOrder'
    BY <1>1, LegacySnapshots
  <2> QED BY <2>2, <2>3, <2>4, <2>5 DEF LegacyInv
<1>2. ASSUME CoinTypes', ReserveBacked', height' \in {height, height + 1},
             UNCHANGED <<deposited, withdrawn, leaves, nullifiers, scan, snapshot>>
      PROVE  LegacyInv'
  <2>1. ValueInv'
    BY <1>2, IdleKeepsValueInv DEF LegacyInv
  <2>2. height \in Nat /\ snapshot \in Seq(Nat) /\ \A i \in DOMAIN snapshot : snapshot[i] <= height
    BY DEF LegacyInv, TreeInv, TreeTypes, SnapshotsInOrder
  <2>3. SnapshotsInOrder'
    <3>1. \A i \in DOMAIN snapshot : snapshot[i] <= height'
      BY <1>2, <2>2
    <3> QED BY <1>2, <3>1 DEF LegacyInv, SnapshotsInOrder
  <2>4. ScanInThePast'
    <3>1. ASSUME NEW i \in DOMAIN scan PROVE scan[i].height <= height'
      <4>1. scan \in Seq(Record) /\ scan[i].height <= height
        BY DEF LegacyInv, TreeInv, TreeTypes, ScanInThePast
      <4>2. scan[i] \in Record
        BY <4>1
      <4>3. scan[i].height \in Nat
        BY <4>2 DEF Record
      <4> QED BY SMTT(120), <1>2, <2>2, <4>1, <4>3
    <3> QED BY <1>2, <3>1 DEF ScanInThePast
  <2>5. TreeInv'
    <3>1. SpentByScan' /\ EffectOnce'
      BY <1>2 DEF LegacyInv, TreeInv, SpentByScan, EffectOnce
    <3>2. height' \in Nat
      BY SMTT(120), <1>2, <2>2
    <3>3. TreeTypes'
      BY <1>2, <3>2 DEF LegacyInv, TreeInv, TreeTypes
    <3> QED BY <2>4, <3>1, <3>3 DEF TreeInv
  <2> QED BY <1>2, <2>1, <2>2, <2>3, <2>5 DEF LegacyInv
<1>3. ASSUME NEW m \in Message, m.creator # Module,
             LegacyDeposit(m) \/ LegacyWithdraw(m) \/ LegacyTransfer(m) \/ LegacyBatchTransfer(m)
      PROVE  LegacyInv'
  <2>1. ExecuteLegacy(m, m.creator) /\ m.creator \in Holders
    BY <1>3 DEF LegacyDeposit, LegacyWithdraw, LegacyTransfer, LegacyBatchTransfer, Message
  <2> QED BY <1>1, <1>3, <2>1
<1>4. ASSUME NEW m \in Message, NEW f \in Holders, DepositWithFunder(m, f) PROVE LegacyInv'
  BY <1>1, <1>4 DEF DepositWithFunder
<1>5. ASSUME NEW from \in Holders, NEW to \in Holders, NEW d \in Denoms, NEW a \in Nat,
             LegacyBankSend(from, to, d, a)
      PROVE  LegacyInv'
  <2>1. BankSend(from, to, d, a) /\ snapshot' = snapshot
    BY <1>5 DEF LegacyBankSend
  <2>2. CoinTypes' /\ ReserveBacked'
    BY <2>1, BankSendKeepsReserve DEF LegacyInv
  <2> QED BY <1>2, <2>1, <2>2 DEF BankSend, keyVars
<1>6. CASE LegacyBlock
  <2>1. /\ height' = height + 1
        /\ UNCHANGED <<balances, deposited, withdrawn, leaves, nullifiers, scan, snapshot>>
    BY <1>6 DEF LegacyBlock, ledgerVars
  <2>2. CoinTypes' /\ ReserveBacked'
    BY <2>1 DEF LegacyInv, CoinTypes, ReserveBacked, Liability
  <2> QED BY <1>2, <2>1, <2>2
<1>7. CASE UNCHANGED legacyVars
  <2>1. UNCHANGED <<height, balances, deposited, withdrawn, leaves, nullifiers, scan, snapshot>>
    BY <1>7 DEF legacyVars, allVars, ledgerVars, keyVars
  <2>2. CoinTypes' /\ ReserveBacked'
    BY <2>1 DEF LegacyInv, CoinTypes, ReserveBacked, Liability
  <2> QED BY <1>2, <2>1, <2>2
<1> QED BY <1>3, <1>4, <1>5, <1>6, <1>7 DEF LegacyNext

(* The invariant of the lane without the audit runtime holds always. *)
THEOREM LegacySafety == LegacySpec => []LegacyInv
<1>1. LegacyInit => LegacyInv
  <2> SUFFICES ASSUME LegacyInit PROVE LegacyInv
    OBVIOUS
  <2>1. LedgerInit /\ snapshot = <<>>
    BY DEF LegacyInit
  <2>2. LedgerInv /\ ValueInv
    BY <2>1, LedgerInitInv, ValueInitInv
  <2>3. TreeInv /\ CoinTypes /\ ReserveBacked
    BY <2>2, LedgerTreeInv DEF LedgerInv
  <2>4. leaves = <<>>
    BY <2>1 DEF LedgerInit
  <2> QED BY SMTT(120), <2>1, <2>2, <2>3, <2>4 DEF LegacyInv, SnapshotsInOrder
<1> QED BY <1>1, LegacyStep, PTL DEF LegacySpec

(* Without the audit runtime the module account covers its liability too,   *)
(* though no handler of that lane consults the reserve.                     *)
THEOREM LegacyReserveSafe == LegacySpec => []ReserveBacked
<1>1. LegacyInv => ReserveBacked
  BY DEF LegacyInv
<1> QED BY <1>1, LegacySafety, PTL

(* No note enters the tree twice or is consumed twice in that lane.         *)
THEOREM LegacyEffectOnceSafe == LegacySpec => []EffectOnce
<1>1. LegacyInv => EffectOnce
  BY DEF LegacyInv, TreeInv
<1> QED BY <1>1, LegacySafety, PTL

(* That lane neither creates nor loses value, deposits of zero coins and    *)
(* withdrawals to the module account included.                              *)
THEOREM LegacyValueSafe == LegacySpec => []ValueConserved
<1>1. LegacyInv => ValueConserved
  BY DEF LegacyInv, ValueInv
<1> QED BY <1>1, LegacySafety, PTL

(* The scan of that lane is its ledger (buildLegacyPrivacyScanV2,           *)
(* storeBatchPrivacyEffectV1).                                              *)
THEOREM LegacyScanSafe == LegacySpec => []ScanIsTheLedger
<1>1. LegacyInv => ScanIsTheLedger
  BY DEF LegacyInv, TreeInv, ValueInv, ScanPlaces, SpentByScan, ScanIsTheLedger
<1> QED BY <1>1, LegacySafety, PTL

(* Every root has one snapshot, in the order of the blocks.                 *)
THEOREM LegacySnapshotsSafe == LegacySpec => []SnapshotsInOrder
<1>1. LegacyInv => SnapshotsInOrder
  BY DEF LegacyInv
<1> QED BY <1>1, LegacySafety, PTL

(* A withdrawal passes every check of that lane exactly when the current    *)
(* root was recorded in the same block (Withdraw of msg_server.go).         *)
THEOREM LegacyWithdrawSafe == LegacySpec => []LegacyWithdrawInItsBlock
<1>1. LegacyInv => LegacyWithdrawInItsBlock
  <2> SUFFICES ASSUME LegacyInv, Delivering, SequenceLeft,
                      NEW i \in 1 .. Len(leaves), leaves[i] \notin nullifiers, leaves[i].amount > 0,
                      NEW root \in i .. Len(leaves), NEW to \in Accounts
               PROVE  LegacyAccepts(WithdrawMessage(leaves[i], root, to), to)
                        <=> snapshot[Len(leaves)] = height
    BY DEF LegacyWithdrawInItsBlock
  <2> DEFINE n == leaves[i]
             m == WithdrawMessage(n, root, to)
  <2>1. /\ leaves \in Seq(Note) /\ n \in Note /\ n.denom \in Denoms /\ n.amount \in 1 .. MaxAmount
        /\ Len(leaves) \in Nat /\ Len(leaves) <= MaxLeaves /\ MaxLeaves \in Nat /\ height \in Nat
    <3>1. /\ leaves \in Seq(Note) /\ MaxAmount \in Nat /\ MaxLeaves \in Nat
          /\ Len(leaves) <= MaxLeaves /\ height \in Nat
      BY LedgerAssumption DEF LegacyInv, TreeInv, TreeTypes
    <3>2. n \in Note /\ n.amount > 0 /\ Len(leaves) \in Nat
      BY <3>1
    <3> QED BY SMTT(120), <3>1, <3>2 DEF Note
  <2>2. /\ m.kind = "withdraw" /\ m.denom = n.denom /\ m.amount = n.amount /\ m.root = root
        /\ m.inputs = <<n>> /\ m.outputs = <<>> /\ m.expiry = height + 1
    BY DEF WithdrawMessage
  <2> HIDE DEF m
  <2>3. ValidateBasic(m) /\ MatchesAuditConfig(m)
    BY SMTT(120), <2>1, <2>2 DEF ValidateBasic, MatchesAuditConfig, ActiveCounts, IsInjective
  <2>4. LegacyPublic(m)
    <3>1. height < m.expiry /\ CheckHistoricalRoot(m.root)
      BY <2>1, <2>2 DEF CheckHistoricalRoot
    <3>2. \A j \in DOMAIN m.inputs : ~HasNullifier(m.inputs[j])
      BY SMTT(120), <2>2 DEF HasNullifier
    <3>3. EnsureCanAppendCommitments(Len(m.outputs)) /\ DOMAIN m.outputs = {}
      BY <2>1, <2>2 DEF EnsureCanAppendCommitments
    <3>4. m.denom \in Registered
      BY SMTT(120), <2>1, <2>2 DEF LegacyInv, ValueInv, LeavesRegistered
    <3> QED BY <3>1, <3>2, <3>3, <3>4 DEF LegacyPublic
  <2>5. VerifyProof(m)
    BY <2>1, <2>2 DEF VerifyProof, SpendCircuit, InTree
  <2>6. BankCovers(m, to)
    <3>1. balances[Module][n.denom] >= Liability(n.denom)
      BY <2>1 DEF LegacyInv, ReserveBacked
    <3>2. n.amount <= Liability(n.denom)
      BY NoteWithinLiability DEF LegacyInv, TreeInv
    <3>3. balances[Module][n.denom] \in Int /\ Liability(n.denom) \in Int /\ n.amount \in Int
      <4>1. /\ balances \in [Holders -> [Denoms -> Nat]] /\ Module \in Holders
            /\ deposited \in [Denoms -> Nat] /\ withdrawn \in [Denoms -> Nat]
        BY DEF LegacyInv, CoinTypes, Holders
      <4>2. balances[Module] \in [Denoms -> Nat]
        BY <4>1
      <4> QED BY SMTT(120), <2>1, <4>1, <4>2 DEF Liability
    <3>4. n.amount <= balances[Module][n.denom]
      BY SMTT(120), <3>1, <3>2, <3>3
    <3> QED BY <2>2, <3>4 DEF BankCovers
  <2>7. CanConfirmRoot(m) <=> snapshot[Len(leaves)] = height
    <3>1. m.outputs = <<>> /\ leaves # <<>>
      BY <2>1, <2>2
    <3> QED BY <3>1 DEF CanConfirmRoot
  <2>8. LegacyAccepts(m, to) <=> CanConfirmRoot(m)
    BY <2>3, <2>4, <2>5, <2>6 DEF LegacyAccepts
  <2> QED BY <2>7, <2>8 DEF m
<1> QED BY <1>1, LegacySafety, PTL
=============================================================================
