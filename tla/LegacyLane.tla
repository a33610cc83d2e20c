----------------------------- MODULE LegacyLane -----------------------------
(***************************************************************************)
(* The lane of x/privacy that runs when no audit runtime is configured     *)
(* (k.audit == nil): the four messages of keeper/msg_server.go and         *)
(* keeper/msg_server_batch_transfer.go and the delegated deposit of        *)
(* keeper/deposit.go, on the bank, reserve, tree, nullifiers and scan of   *)
(* PrivacyLedger.  There are no key epochs and no halt here: the audit key *)
(* is the one of the genesis, and the reserve is not consulted.            *)
(*                                                                         *)
(* Every message ends by confirming the snapshot of the current Merkle     *)
(* root, which records the block in which the root was reached.            *)
(***************************************************************************)
EXTENDS PrivacyLedger

VARIABLE snapshot   \* snapshot[n]: the block recorded for the root of n leaves

LegacyInit == LedgerInit /\ snapshot = <<>>

-----------------------------------------------------------------------------
(* ValidateBasic of the four messages.  A deposit may be of zero coins.     *)
ValidateBasic(m) ==
    /\ ActiveCounts(m)
    /\ m.kind # "deposit" => m.expiry > 0
    /\ m.kind = "deposit" => m.amount \in 0 .. MaxAmount
    /\ m.kind = "withdraw" => m.amount \in 1 .. MaxAmount
    /\ IsInjective(m.inputs) /\ IsInjective(m.outputs)

(* GetAuditConfigV1: a transfer is for the genesis audit key, and a batch   *)
(* names its epoch too; deposits and withdrawals carry no audit identity.   *)
MatchesAuditConfig(m) ==
    /\ m.kind \in {"transfer", "batch"} => m.keyID = InitialKey
    /\ m.kind = "batch" => m.epoch = 1

LegacyPublic(m) ==
    /\ Delivering
    /\ m.kind # "deposit" => height < m.expiry
    /\ m.inputs # <<>> => CheckHistoricalRoot(m.root)
    /\ \A i \in DOMAIN m.inputs : ~HasNullifier(m.inputs[i])
    /\ \A i \in DOMAIN m.outputs : ~HasCommitment(m.outputs[i])
    /\ EnsureCanAppendCommitments(Len(m.outputs))
    /\ Transparent(m) => m.denom \in Registered

(* The bank's own refusal: nobody sends more than the balance. *)
BankCovers(m, payer) ==
    /\ m.kind = "deposit" => m.amount <= balances[payer][m.denom]
    /\ m.kind = "withdraw" => m.amount <= balances[Module][m.denom]

(* RecordCurrentMerkleRootSnapshotV1 after the message's appends: the root  *)
(* just appended was recorded in this block; an older root is confirmed     *)
(* only when the block recorded for it is this one.                         *)
CanConfirmRoot(m) ==
    (m.outputs = <<>> /\ leaves # <<>>) => snapshot[Len(leaves)] = height

(* buildLegacyPrivacyScanV2 and storeBatchPrivacyEffectV1: epoch 0 stands   *)
(* for a record without an audit identity.                                  *)
LegacyEntry(m) == [ScanEntry(m) EXCEPT !.epoch = IF m.kind = "batch" THEN @ ELSE 0]

LegacyAccepts(m, payer) ==
    /\ ValidateBasic(m)
    /\ MatchesAuditConfig(m)
    /\ LegacyPublic(m)
    /\ VerifyProof(m)
    /\ BankCovers(m, payer)
    /\ SequenceLeft
    /\ CanConfirmRoot(m)

(* The whole message, or nothing: the handler or the transaction around it  *)
(* discards the writes of a refused one.                                    *)
ExecuteLegacy(m, payer) ==
    /\ LegacyAccepts(m, payer)
    /\ MovePrincipal(m, payer)
    /\ nullifiers' = nullifiers \cup Range(m.inputs)
    /\ leaves' = leaves \o m.outputs
    /\ snapshot' = snapshot \o [i \in DOMAIN m.outputs |-> height]
    /\ scan' = Append(scan, LegacyEntry(m))
    /\ UNCHANGED keyVars

-----------------------------------------------------------------------------
LegacyDeposit(m) == m.kind = "deposit" /\ ExecuteLegacy(m, m.creator)

(* The module's balance must grow by exactly the coin, which the bank       *)
(* transfer of BankCovers does for any funder but the module itself.        *)
DepositWithFunder(m, funder) ==
    /\ m.kind = "deposit" /\ funder # Module
    /\ ExecuteLegacy(m, funder)

LegacyWithdraw(m) == m.kind = "withdraw" /\ ExecuteLegacy(m, m.creator)

LegacyTransfer(m) == m.kind = "transfer" /\ ExecuteLegacy(m, m.creator)

LegacyBatchTransfer(m) == m.kind = "batch" /\ ExecuteLegacy(m, m.creator)

(* The next block: without an audit runtime BeginBlock does nothing. *)
LegacyBlock ==
    /\ height' = height + 1
    /\ UNCHANGED <<auditKey, activation, active, cancelled, halted, ledgerVars, snapshot>>

(* A coin sent to the module by anyone.  Without the audit runtime the      *)
(* facade denies nothing; that no send debits the module, which is the      *)
(* guard of BankSend, is then because its account has no key and only the   *)
(* keeper spends from it.                                                   *)
LegacyBankSend(from, to, d, a) == BankSend(from, to, d, a) /\ UNCHANGED snapshot

(* The module account has no key and signs nothing. *)
LegacyNext ==
    \/ \E m \in Message :
         /\ m.creator # Module
         /\ \/ LegacyDeposit(m) \/ LegacyWithdraw(m)
            \/ LegacyTransfer(m) \/ LegacyBatchTransfer(m)
            \/ \E f \in Holders : DepositWithFunder(m, f)
    \/ \E from, to \in Holders, d \in Denoms, a \in Nat : LegacyBankSend(from, to, d, a)
    \/ LegacyBlock

legacyVars == <<allVars, snapshot>>

LegacySpec == LegacyInit /\ [][LegacyNext]_legacyVars

-----------------------------------------------------------------------------
(* There is one snapshot for each leaf, and the blocks recorded for them    *)
(* never go back: what the genesis import requires of the snapshots.        *)
SnapshotsInOrder ==
    /\ Len(snapshot) = Len(leaves)
    /\ \A i \in DOMAIN snapshot : snapshot[i] <= height
    /\ \A i, j \in DOMAIN snapshot : i <= j => snapshot[i] <= snapshot[j]

(* The holder of an unspent note can withdraw it in the block that recorded *)
(* the current root, and in no other: RecordCurrentMerkleRootSnapshotV1 is  *)
(* the only check that ever refuses the withdrawal.                         *)
LegacyWithdrawInItsBlock ==
    (Delivering /\ SequenceLeft) =>
      \A i \in 1 .. Len(leaves) :
        (leaves[i] \notin nullifiers /\ leaves[i].amount > 0) =>
          \A root \in i .. Len(leaves), to \in Accounts :
            LegacyAccepts(WithdrawMessage(leaves[i], root, to), to) <=> snapshot[Len(leaves)] = height

(* "RecordCurrentMerkleRootSnapshotV1 idempotently confirms the post-       *)
(* operation root": the holder of an unspent note can withdraw it in any    *)
(* block, from any recorded root above it.                                  *)
LegacyWithdrawPossible ==
    (Delivering /\ SequenceLeft) =>
      \A i \in 1 .. Len(leaves) :
        (leaves[i] \notin nullifiers /\ leaves[i].amount > 0) =>
          \A root \in i .. Len(leaves), to \in Accounts :
            LegacyAccepts(WithdrawMessage(leaves[i], root, to), to)
=============================================================================
