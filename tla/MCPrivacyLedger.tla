-------------------------- MODULE MCPrivacyLedger --------------------------
(* Model checking of PrivacyLedger and LegacyLane.  The inputs offered to a *)
(* message are notes of the tree, spent ones included; its outputs are any  *)
(* notes, those already in the tree included; its root, epoch and key are   *)
(* any recorded ones.  The profile, chosen at the start, is the lane the    *)
(* chain runs and what is explored in it:                                   *)
(*   keys    the audit lane, several key epochs, notes of one asset;        *)
(*   value   the audit lane under the genesis key, larger notes;            *)
(*   legacy  the lane without an audit runtime.                             *)
EXTENDS LegacyLane, TLC

CONSTANTS Profiles, MaxSurplus

VARIABLE profile

mcVars == <<allVars, snapshot, profile>>

Audited == profile \in {"keys", "value"}

(* The bounds of each profile. *)
MaxHeight == CASE profile = "keys" -> 4 [] profile = "value" -> 2 [] OTHER -> 3

MessageCap == IF profile = "keys" THEN 3 ELSE MaxSequence

LeafCap == IF profile = "keys" THEN 2 ELSE MaxLeaves

InputCap == IF profile = "keys" THEN 1 ELSE MaxInputs

(* One account starts with coins; another one deposits with its funds, or   *)
(* with what it was paid.                                                   *)
Funded == CHOOSE a \in Accounts : TRUE

MCBalance == [h \in Holders |-> [d \in Denoms |-> IF h = Funded THEN MaxAmount ELSE 0]]

Users == IF profile = "value" THEN {Funded} ELSE Accounts

(* Transfers carry no public coin. *)
AnyDenom == CHOOSE d \in Denoms : TRUE

SmallNote == {n \in Note : n.denom = AnyDenom /\ n.amount <= 1}

Offer == IF profile = "value" THEN Note ELSE SmallNote

(* The output vectors, each with its total. *)
Tuples(S, n) == [1 .. n -> S]

VectorsOf(S) == UNION {{[out |-> out, total |-> Total(out)] : out \in Tuples(S, l)} : l \in 1 .. MaxOutputs}

AllVectors == VectorsOf(Note)

SmallVectors == VectorsOf(SmallNote)

Vectors == IF profile = "value" THEN AllVectors ELSE SmallVectors

Msg(kind, who, to, d, a, root, in, out, e, x) ==
    [kind |-> kind, creator |-> who, recipient |-> to, denom |-> d, amount |-> a, root |-> root,
     inputs |-> in, outputs |-> out, epoch |-> e, keyID |-> auditKey[e].keyID, expiry |-> x]

(* Conjuncts of Accepts that do not depend on the outputs, tried first. *)
Offered(in, root) ==
    /\ ~halted /\ height < MaxHeight
    /\ IsInjective(in) /\ \A i \in DOMAIN in : InTree(in[i], root) /\ ~HasNullifier(in[i])

MayExecute(outputs) == Len(scan) < MessageCap /\ Len(leaves) + outputs <= LeafCap

-----------------------------------------------------------------------------
MCDeposit ==
    /\ MayExecute(1)
    /\ \E who \in Users \cup {Module, Gov}, c \in Offer, e \in DOMAIN auditKey :
         LET m == Msg("deposit", who, who, c.denom, c.amount, 0, <<>>, <<c>>, e, MaxHeight)
         IN  IF Audited THEN Deposit(m) /\ UNCHANGED snapshot
                        ELSE who # Module /\ LegacyDeposit(m)

MCDepositWithFunder ==
    /\ MayExecute(1)
    /\ \E who, f \in Users \cup {Module, Gov}, c \in Offer, e \in DOMAIN auditKey :
         LET m == Msg("deposit", who, who, c.denom, c.amount, 0, <<>>, <<c>>, e, MaxHeight)
         IN  /\ who # f
             /\ IF Audited THEN DepositWithFunderV2(m, f) /\ UNCHANGED snapshot
                           ELSE who # Module /\ DepositWithFunder(m, f)

MCWithdraw ==
    /\ MayExecute(0)
    /\ \E who \in Users \cup {Gov}, to \in Users \cup {Module, Gov}, n \in Range(leaves),
          e \in DOMAIN auditKey, root \in 0 .. Len(leaves) :
         LET m == Msg("withdraw", who, to, n.denom, n.amount, root, <<n>>, <<>>, e, MaxHeight)
         IN  IF Audited THEN Withdraw(m) /\ UNCHANGED snapshot ELSE LegacyWithdraw(m)

MCTransfer ==
    /\ MayExecute(2)
    /\ \E who \in Users, e \in DOMAIN auditKey, root \in 0 .. Len(leaves), in \in Tuples(Range(leaves), 2) :
         /\ Offered(in, root)
         /\ \E total \in {Total(in)}, v \in Vectors :
              LET m == Msg("transfer", who, who, AnyDenom, 0, root, in, v.out, e, MaxHeight)
              IN  /\ v.total = total
                  /\ IF Audited THEN Transfer(m) /\ UNCHANGED snapshot ELSE LegacyTransfer(m)

MCBatchTransfer ==
    \E who \in Users, e \in DOMAIN auditKey, root \in 0 .. Len(leaves), k \in 1 .. InputCap :
      \E in \in Tuples(Range(leaves), k) :
        /\ Offered(in, root)
        /\ \E total \in {Total(in)}, v \in Vectors :
             LET m == Msg("batch", who, who, AnyDenom, 0, root, in, v.out, e, MaxHeight)
             IN  /\ v.total = total /\ MayExecute(Len(v.out))
                 /\ IF Audited THEN BatchTransfer(m) /\ UNCHANGED snapshot ELSE LegacyBatchTransfer(m)

MCBankSend ==
    \E from, to \in Users \cup {Module, Gov}, d \in {n.denom : n \in Offer} :
        /\ profile # "keys"
        /\ to = Module => balances[Module][d] - Liability(d) < MaxSurplus
        /\ Module \in {from, to}
        /\ LegacyBankSend(from, to, d, 1)

-----------------------------------------------------------------------------
MCBlock ==
    /\ height < MaxHeight
    /\ IF Audited THEN BeginAuditBlock /\ UNCHANGED <<ledgerVars, snapshot>> ELSE LegacyBlock

MCSchedule ==
    /\ profile = "keys"
    /\ \E e \in Epochs, k \in KeyIDs, h \in 0 .. MaxInt64 : ScheduleAuditKeyEpoch(e, k, h)
    /\ UNCHANGED <<ledgerVars, snapshot>>

MCCancel ==
    /\ profile = "keys"
    /\ \E e \in Epochs : CancelPendingAuditEpoch(e)
    /\ UNCHANGED <<ledgerVars, snapshot>>

MCHalt ==
    /\ Audited
    /\ \E b \in BOOLEAN : SetPrivacyHalt(b)
    /\ UNCHANGED <<ledgerVars, snapshot>>

(* The explored chain ends at MaxHeight, and only there. *)
Horizon == height = MaxHeight /\ UNCHANGED <<allVars, snapshot>>

MCInit == LegacyInit /\ profile \in Profiles

MCNext ==
    /\ \/ MCDeposit \/ MCDepositWithFunder \/ MCWithdraw \/ MCTransfer \/ MCBatchTransfer
       \/ MCBankSend
       \/ MCBlock \/ MCSchedule \/ MCCancel \/ MCHalt
       \/ Horizon
    /\ UNCHANGED profile

(* Consensus keeps producing blocks. *)
MCSpec == MCInit /\ [][MCNext]_mcVars /\ WF_mcVars(MCBlock /\ UNCHANGED profile)

-----------------------------------------------------------------------------
(* AuditedUnderDueKey on the audit lane; the other lane has no epochs.      *)
AuditLaneUnderDueKey == Audited => AuditedUnderDueKey

(* WithdrawAlwaysPossible on the audit lane, for its profiles' accounts.    *)
AuditLaneWithdraws == Audited => WithdrawAlwaysPossible
=============================================================================
