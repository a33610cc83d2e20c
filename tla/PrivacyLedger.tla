--------------------------- MODULE PrivacyLedger ---------------------------
(***************************************************************************)
(* The audit-field lane of x/privacy: the four asset messages of           *)
(* keeper/audit_msg_server.go (and the delegated deposit) as they move     *)
(* coins, spend nullifiers, append commitments and write the wallet scan,  *)
(* inside the blocks, key epochs and halt switch of AuditKeys.             *)
(*                                                                         *)
(* Hashes are injective: a note stands for its commitment and for its      *)
(* nullifier, a denom for its asset identifier, and a Merkle root for the  *)
(* number of leaves under it (MerkleTree.tla checks the tree itself).      *)
(* Block time is the block height.  A refused message changes nothing.     *)
(***************************************************************************)
EXTENDS AuditKeys, Sequences, FiniteSets, FiniteSetsExt, Functions

CONSTANTS Accounts,       \* ordinary bank accounts
          Module,         \* the x/privacy module account
          Gov,            \* the governance module account
          Denoms,
          Registered,     \* denoms of the genesis asset registry
          Blinds,         \* note randomness
          MaxAmount,      \* 2^128 - 1
          MaxLeaves,      \* 2^MerkleDepth
          MaxInputs,      \* 16
          MaxOutputs,     \* 32
          MaxSequence,    \* 2^64 - 1
          InitialBalance  \* holder -> denom -> amount

Holders == Accounts \cup {Module, Gov}

ASSUME LedgerAssumption ==
    /\ Module # Gov /\ Module \notin Accounts /\ Gov \notin Accounts
    /\ Registered \subseteq Denoms
    /\ MaxAmount \in Nat /\ MaxLeaves \in Nat /\ MaxSequence \in Nat
    /\ MaxInputs \in Nat /\ MaxOutputs \in Nat
    /\ InitialBalance \in [Holders -> [Denoms -> Nat]]

VARIABLES balances,    \* x/bank: holder -> denom -> amount
          deposited,   \* reserve counters: denom -> total deposited
          withdrawn,   \* reserve counters: denom -> total withdrawn
          leaves,      \* the Merkle leaves, oldest first
          nullifiers,  \* the spent notes
          scan         \* scan summaries with their outputs, by global sequence

ledgerVars == <<balances, deposited, withdrawn, leaves, nullifiers, scan>>
allVars == <<keyVars, ledgerVars>>

Note == [denom : Denoms, amount : 0 .. MaxAmount, blind : Blinds]

Kinds == {"deposit", "withdraw", "transfer", "batch"}

LedgerInit ==
    /\ KeyInit
    /\ balances = InitialBalance
    /\ deposited = [d \in Denoms |-> 0]
    /\ withdrawn = [d \in Denoms |-> 0]
    /\ leaves = <<>>
    /\ nullifiers = {}
    /\ scan = <<>>

-----------------------------------------------------------------------------
(* ValidateAuditMessage and Kind.ValidateActiveCounts: the shape of each    *)
(* kind, positive uint128 coins, and no duplicate nullifier or commitment.  *)
ActiveCounts(m) ==
    LET in == Len(m.inputs)
        out == Len(m.outputs)
    IN  \/ m.kind = "deposit" /\ in = 0 /\ out = 1
        \/ m.kind = "withdraw" /\ in = 1 /\ out = 0
        \/ m.kind = "transfer" /\ in = 2 /\ out = 2
        \/ m.kind = "batch" /\ in \in 1 .. MaxInputs /\ out \in 1 .. MaxOutputs

Transparent(m) == m.kind \in {"deposit", "withdraw"}

ValidateAuditMessage(m) ==
    /\ ActiveCounts(m)
    /\ m.epoch # 0 /\ m.expiry > 0
    /\ Transparent(m) => m.amount \in 1 .. MaxAmount
    /\ IsInjective(m.inputs)
    /\ IsInjective(m.outputs)

-----------------------------------------------------------------------------
HasUnspentCommitment(c) == c \notin nullifiers /\ \E i \in DOMAIN leaves : leaves[i] = c

HasCommitment(c) == \E i \in DOMAIN leaves : leaves[i] = c

HasNullifier(n) == n \in nullifiers

CheckHistoricalRoot(root) == root \in 1 .. Len(leaves)

EnsureCanAppendCommitments(n) == n <= MaxLeaves - Len(leaves)

AnyRegisteredKey(m) == m.epoch \in DOMAIN auditKey /\ auditKey[m.epoch].keyID = m.keyID

AuthorizedByActiveKey(m) ==
    ActiveKeyValid /\ m.epoch = active.epoch /\ m.keyID = auditKey[active.epoch].keyID

(* The transparent side names a registered asset and an endpoint other      *)
(* than the module itself.                                                  *)
Endpoint(m) == IF m.kind = "withdraw" THEN m.recipient ELSE m.creator

BuildAuditPublic(m) ==
    /\ ~halted
    /\ Delivering
    /\ height < m.expiry
    /\ AuthorizedByActiveKey(m)
    /\ m.inputs # <<>> => CheckHistoricalRoot(m.root)
    /\ \A i \in DOMAIN m.inputs : ~HasNullifier(m.inputs[i])
    /\ EnsureCanAppendCommitments(Len(m.outputs))
    /\ \A i \in DOMAIN m.outputs : ~HasCommitment(m.outputs[i])
    /\ Transparent(m) => m.denom \in Registered /\ Endpoint(m) # Module

-----------------------------------------------------------------------------
(* The relations of the four circuits, over the notes of the witness.       *)
Total(notes) == MapThenSumSet(LAMBDA n : n.amount, Range(notes))

InTree(n, root) == \E i \in 1 .. root : leaves[i] = n

DepositCircuit(m) ==
    m.outputs[1].amount = m.amount /\ m.outputs[1].denom = m.denom

SpendCircuit(m) ==
    /\ InTree(m.inputs[1], m.root)
    /\ m.inputs[1].amount = m.amount /\ m.inputs[1].denom = m.denom

AnyAsset(m) == TRUE

OneAsset(m) == \A a, b \in Range(m.inputs) \cup Range(m.outputs) : a.denom = b.denom

BatchJoinSplit16x32(m) ==
    /\ \A n \in Range(m.inputs) : InTree(n, m.root)
    /\ OneAsset(m)
    /\ Total(m.inputs) = Total(m.outputs)
    /\ Total(m.inputs) <= MaxAmount

JoinSplitCircuit(m) ==
    /\ m.inputs[1] # m.inputs[2] /\ m.outputs[1] # m.outputs[2]
    /\ InTree(m.inputs[1], m.root) /\ InTree(m.inputs[2], m.root)
    /\ OneAsset(m)
    /\ m.inputs[1].amount + m.inputs[2].amount = m.outputs[1].amount + m.outputs[2].amount
    /\ m.inputs[1].amount + m.inputs[2].amount <= MaxAmount

VerifyProof(m) ==
    \/ m.kind = "deposit" /\ DepositCircuit(m)
    \/ m.kind = "withdraw" /\ SpendCircuit(m)
    \/ m.kind = "transfer" /\ JoinSplitCircuit(m)
    \/ m.kind = "batch" /\ BatchJoinSplit16x32(m)

-----------------------------------------------------------------------------
Liability(d) == deposited[d] - withdrawn[d]

InvariantHolds(d) == balances[Module][d] = Liability(d)

Collateralized(d) == balances[Module][d] >= Liability(d)

(* auditPrincipal.send: exactly one transfer of the message's coin.         *)
Sent(from, to, d, a) ==
    [[balances EXCEPT ![from][d] = @ - a] EXCEPT ![to][d] = @ + a]

(* applyAuditPrincipal accepts; `payer` is the creator, or the delegated    *)
(* funder of DepositWithFunderV2.                                           *)
PrincipalAllowed(m, payer) ==
    /\ Collateralized(m.denom)
    /\ m.kind = "deposit" =>
         payer \notin {Module} /\ m.amount <= balances[payer][m.denom]
    /\ m.kind = "withdraw" =>
         /\ m.amount <= Liability(m.denom)
         /\ m.amount <= balances[Module][m.denom]

MovePrincipal(m, payer) ==
    CASE m.kind = "deposit" ->
           /\ balances' = Sent(payer, Module, m.denom, m.amount)
           /\ deposited' = [deposited EXCEPT ![m.denom] = @ + m.amount]
           /\ UNCHANGED withdrawn
      [] m.kind = "withdraw" ->
           /\ balances' = Sent(Module, m.recipient, m.denom, m.amount)
           /\ withdrawn' = [withdrawn EXCEPT ![m.denom] = @ + m.amount]
           /\ UNCHANGED deposited
      [] OTHER -> UNCHANGED <<balances, deposited, withdrawn>>

(* storeAuditScan allocates the next global sequence and stores the summary *)
(* with one output per commitment at its leaf index.                        *)
SequenceLeft == Len(scan) < MaxSequence

ScanEntryAfterAppend(m) ==
    [kind |-> m.kind, height |-> height, epoch |-> m.epoch, keyID |-> m.keyID,
     inputs |-> m.inputs, outputs |-> m.outputs, firstLeaf |-> Len(leaves) + Len(m.outputs)]

ScanEntry(m) ==
    [kind |-> m.kind, height |-> height, epoch |-> m.epoch, keyID |-> m.keyID,
     inputs |-> m.inputs, outputs |-> m.outputs, firstLeaf |-> Len(leaves)]

(* executeAuditWithDelegation refuses the message unless all of this holds. *)
Accepts(m, payer) ==
    /\ ValidateAuditMessage(m)
    /\ m.creator # Gov
    /\ BuildAuditPublic(m)
    /\ VerifyProof(m)
    /\ Transparent(m) => PrincipalAllowed(m, payer)
    /\ SequenceLeft

(* applyPrivacyTransition publishes its cache as one write. *)
ExecuteAudit(m, payer) ==
    /\ Accepts(m, payer)
    /\ MovePrincipal(m, payer)
    /\ nullifiers' = nullifiers \cup Range(m.inputs)
    /\ leaves' = leaves \o m.outputs
    /\ scan' = Append(scan, ScanEntry(m))
    /\ UNCHANGED keyVars

-----------------------------------------------------------------------------
Deposit(m) == m.kind = "deposit" /\ ExecuteAudit(m, m.creator)

DepositWithFunderV2(m, funder) ==
    /\ m.kind = "deposit"
    /\ funder \notin {Module, Gov}
    /\ ExecuteAudit(m, funder)

Withdraw(m) == m.kind = "withdraw" /\ ExecuteAudit(m, m.creator)

Transfer(m) == m.kind = "transfer" /\ ExecuteAudit(m, m.creator)

BatchTransfer(m) == m.kind = "batch" /\ ExecuteAudit(m, m.creator)

(* Any other module or account moving coins through the bank facade, which  *)
(* denies every debit of the privacy module; a credit is allowed.           *)
DenyNothing(from) == FALSE

Deny(from) == from = Module

BankSend(from, to, d, a) ==
    /\ ~Deny(from)
    /\ from # to /\ a <= balances[from][d]
    /\ balances' = Sent(from, to, d, a)
    /\ UNCHANGED <<keyVars, deposited, withdrawn, leaves, nullifiers, scan>>

KeyStep == KeyNext /\ UNCHANGED ledgerVars

Message ==
    [kind : Kinds, creator : Holders, recipient : Holders, denom : Denoms, amount : Nat,
     root : Nat, inputs : Seq(Note), outputs : Seq(Note),
     epoch : Nat, keyID : KeyIDs, expiry : Int]

LedgerNext ==
    \/ \E m \in Message :
         \/ Deposit(m) \/ Withdraw(m) \/ Transfer(m) \/ BatchTransfer(m)
         \/ \E f \in Holders : DepositWithFunderV2(m, f)
    \/ \E from, to \in Holders, d \in Denoms, a \in Nat : BankSend(from, to, d, a)
    \/ KeyStep

LedgerSpec == LedgerInit /\ [][LedgerNext]_allVars

-----------------------------------------------------------------------------
Entry == [kind : Kinds, height : Nat, epoch : Epochs, keyID : KeyIDs,
          inputs : Seq(Note), outputs : Seq(Note), firstLeaf : Nat]

(* The type invariant of the ledger: among the rest, the global sequence    *)
(* and the leaf count never pass their limits.                              *)
LedgerTypeOK ==
    /\ KeyTypeOK
    /\ balances \in [Holders -> [Denoms -> Nat]]
    /\ deposited \in [Denoms -> Nat]
    /\ withdrawn \in [Denoms -> Nat]
    /\ leaves \in Seq(Note) /\ Len(leaves) <= MaxLeaves
    /\ nullifiers \subseteq Note
    /\ scan \in Seq(Entry) /\ Len(scan) <= MaxSequence

Unspent(d) == {n \in Range(leaves) \ nullifiers : n.denom = d}

(* Per denom, what was deposited and not withdrawn is exactly the value of  *)
(* the unspent notes: no sequence of messages creates or destroys value.    *)
ValueConserved ==
    \A d \in Denoms : Liability(d) = MapThenSumSet(LAMBDA n : n.amount, Unspent(d))

(* The module account always covers what it owes, whatever other modules    *)
(* send to it (GetReserveSnapshot never reports a shortfall).               *)
ReserveBacked == \A d \in Denoms : balances[Module][d] >= Liability(d)

(* The wallet scan is the ledger: read in sequence order its outputs are    *)
(* the leaves at the indices it states, its inputs are the nullifiers, and  *)
(* every input was an output of an earlier entry.  So no note is spent or   *)
(* created twice, and a wallet that follows the scan misses nothing.        *)
ScanIsTheLedger ==
    /\ nullifiers = UNION {Range(scan[i].inputs) : i \in DOMAIN scan}
    /\ \A i \in DOMAIN scan :
         /\ scan[i].firstLeaf + Len(scan[i].outputs) =
              IF i = Len(scan) THEN Len(leaves) ELSE scan[i + 1].firstLeaf
         /\ \A j \in DOMAIN scan[i].outputs :
              leaves[scan[i].firstLeaf + j] = scan[i].outputs[j]
         /\ \A n \in Range(scan[i].inputs) : \E l \in 1 .. scan[i].firstLeaf : leaves[l] = n

(* A note enters the tree once and is consumed by at most one message: a    *)
(* replayed deposit (which has no nullifier) or spend has no effect.        *)
EffectOnce ==
    /\ IsInjective(leaves)
    /\ \A i, j \in DOMAIN scan : i # j => Range(scan[i].inputs) \cap Range(scan[j].inputs) = {}

(* Every message was executed under the key that governance had made due at *)
(* its height and had not cancelled, whatever was scheduled or cancelled    *)
(* afterwards: the auditor needs only the epoch history to read the chain.  *)
AuditedUnderDueKey ==
    \A i \in DOMAIN scan :
      LET due == {e \in DOMAIN auditKey \ cancelled :
                    auditKey[e].activationHeight <= scan[i].height}
      IN  /\ scan[i].epoch \in due
          /\ \A e \in due : e <= scan[i].epoch
          /\ scan[i].keyID = auditKey[scan[i].epoch].keyID

(* The message that withdraws note n to account `to`. *)
WithdrawMessage(n, root, to) ==
    [kind |-> "withdraw", creator |-> to, recipient |-> to, denom |-> n.denom,
     amount |-> n.amount, root |-> root, inputs |-> <<n>>, outputs |-> <<>>,
     epoch |-> active.epoch, keyID |-> auditKey[active.epoch].keyID, expiry |-> height + 1]

(* Unless privacy is halted, the holder of an unspent note can withdraw it  *)
(* at once, from any recorded root above it, even when the tree is full:    *)
(* neither reserve check of applyAuditPrincipal ever stands in the way.     *)
WithdrawAlwaysPossible ==
    (~halted /\ Delivering /\ SequenceLeft) =>
      \A i \in 1 .. Len(leaves) :
        (leaves[i] \notin nullifiers /\ leaves[i].amount > 0) =>
          \A root \in i .. Len(leaves), to \in Accounts :
            Accepts(WithdrawMessage(leaves[i], root, to), to)
=============================================================================
