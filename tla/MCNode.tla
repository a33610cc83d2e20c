------------------------------- MODULE MCNode -------------------------------
(* Model checking of what a node keeps, moves and serves.  The profile,     *)
(* chosen at the start, is the part explored:                               *)
(*   tree     MerkleTree.  Leaves are numbers, 0 is the zero field element; *)
(*            a new commitment is the next number (the code only compares   *)
(*            commitments), the old ones and zero are offered again at      *)
(*            every step.  At most one loss, of a single node, of a level   *)
(*            or of the whole cache;                                        *)
(*   genesis  Genesis.  Commitments are numbered in the order they are      *)
(*            made; a message creates one or two;                           *)
(*   wire     ProtoWire, every message type;                                *)
(*   scan     WalletScan.  The wallet owns all outputs of an event or none. *)
(*   arith    SecretArithmetic, words of two bits and bytes of one; the     *)
(*            modulus fills the top word but for its highest bit, as the    *)
(*            BN254 modulus leaves spare bits in its own.                   *)
EXTENDS MerkleTree, Genesis, ProtoWire, WalletScan, SecretArithmetic

CONSTANTS Profiles,
          MaxTreeHeight, NewLeaves,             \* tree
          MaxHeight, MaxRestarts, MaxDeposits,  \* genesis
          MaxEvents, MaxTip                     \* scan

VARIABLES profile, losses

mcVars == <<treeVars, genesisVars, wireVars, scanVars, arithVars, profile, losses>>

Only(group) == profile = group /\ UNCHANGED profile

-----------------------------------------------------------------------------
TreeOnly == Only("tree") /\ UNCHANGED <<genesisVars, wireVars, scanVars, arithVars>>

MCCommitments == 0 .. NewLeaves

MCAppend ==
    /\ TreeOnly
    /\ \E c \in 0 .. Len(treeLeaves) + 1 : c \in Commitments /\ AppendCommitment(c)
    /\ UNCHANGED losses

MCNextBlock == TreeOnly /\ blockHeight < MaxTreeHeight /\ NextBlock /\ UNCHANGED losses

MCLoseNodes ==
    /\ TreeOnly
    /\ losses = 0
    /\ losses' = 1
    /\ \/ \E k \in DOMAIN nodes : LoseNodes({k})
       \/ \E level \in 0 .. Depth : LoseNodes({k \in DOMAIN nodes : k[1] >= level})

-----------------------------------------------------------------------------
GenesisOnly == Only("genesis") /\ UNCHANGED <<treeVars, wireVars, scanVars, arithVars, losses>>

MCLeafValues == 1 .. MaxLeaves

New(n) == [i \in 1 .. n |-> Len(leaves) + i]

MCDeposit == GenesisOnly /\ reserve.deposited < MaxDeposits /\ Commit({}, New(1), 1, 0)

MCTransfer == GenesisOnly /\ \E c \in Range(leaves) : Commit({c}, New(2), 0, 0)

MCWithdraw == GenesisOnly /\ \E c \in Range(leaves) : Commit({c}, <<>>, 0, 1)

MCBlock == GenesisOnly /\ height < MaxHeight /\ Block

MCKeyMessage ==
    /\ GenesisOnly
    /\ \E e \in Epochs, k \in KeyIDs, h \in 1 .. MaxHeight + 1 : KeyMessage(e, k, h)

MCRestart == GenesisOnly /\ restarts < MaxRestarts /\ Import(Exported)

(* Files put together from parts.  A tree of an earlier block, or in        *)
(* another order, or with leaves twice, has its own roots and snapshots and *)
(* any of the records (missing, under another number, at another leaf) and  *)
(* counters; a tree with roots and snapshots that are not its own, one      *)
(* missing or changed, has the rest as exported, as has one with the        *)
(* nullifiers lost or more withdrawn.                                       *)
SnapshotsOf(c) ==
    {[root |-> r, leafCount |-> Len(r), height |-> 0] : r \in PrefixesOf(c)}

Trees(g) ==
    {<<c, PrefixesOf(c), SnapshotsOf(c)>> :
       c \in Prefixes(g.commitments) \cup {Reverse(g.commitments), g.commitments \o g.commitments}}

MixedTrees(g) ==
    {<<c, g.roots, g.snapshots>> : c \in Prefixes(g.commitments)}
    \cup {<<g.commitments, g.roots \ {r}, g.snapshots>> : r \in g.roots}
    \cup {<<g.commitments, g.roots, (g.snapshots \ {s}) \cup {[s EXCEPT !.leafCount = 1]}>> :
            s \in g.snapshots}

RecordSets(g) ==
    {{}, g.records}
    \cup {g.records \ {r} : r \in g.records}
    \cup {(g.records \ {r}) \cup {[r EXCEPT !.sequence = 1]} : r \in g.records}
    \cup {(g.records \ {r}) \cup {[r EXCEPT !.outputs = Reverse(@)]} : r \in g.records}
    \cup {(g.records \ {r}) \cup {[r EXCEPT !.outputs[1].leaf = 1]} :
            r \in {s \in g.records : s.outputs # <<>>}}

WithTree(g, tree) ==
    [g EXCEPT !.commitments = tree[1], !.roots = tree[2], !.snapshots = tree[3]]

MCFiles(g) ==
    {[WithTree(g, tree) EXCEPT !.records = rs, !.sequence = n] :
       tree \in Trees(g), rs \in RecordSets(g), n \in {1, g.sequence}}
    \cup {WithTree(g, tree) : tree \in MixedTrees(g)}
    \cup {[g EXCEPT !.nullifiers = ns, !.reserve.withdrawn = @ + w] :
            ns \in {{}, g.nullifiers}, w \in 0 .. 1}

MCRestartAltered ==
    GenesisOnly /\ restarts = 0 /\ \E g \in MCFiles(Exported) : Import(g)

MCRefuse == GenesisOnly /\ Refuse(Exported)

MCRefuseAltered == GenesisOnly /\ restarts = 0 /\ \E g \in MCFiles(Exported) : Refuse(g)

-----------------------------------------------------------------------------
WireOnly == Only("wire") /\ UNCHANGED <<treeVars, genesisVars, scanVars, arithVars, losses>>

MCSendMessage == WireOnly /\ SendMessage

MCSendNewer == WireOnly /\ SendNewer

MCLoseTail == WireOnly /\ LoseTail

MCReceive == WireOnly /\ Receive

-----------------------------------------------------------------------------
ScanOnly == Only("scan") /\ UNCHANGED <<treeVars, genesisVars, wireVars, arithVars, losses>>

(* Outputs and encoded sizes: a batch event has one more output than a page *)
(* holds, and with its summary just fits the byte limit.                    *)
MCEventTypes ==
    [deposit  |-> [outputs |-> 1, summary |-> 1, output |-> 1],
     transfer |-> [outputs |-> 2, summary |-> 1, output |-> 1],
     batch    |-> [outputs |-> 3, summary |-> 1, output |-> 2],
     withdraw |-> [outputs |-> 0, summary |-> 1, output |-> 0]]

MCFilters == {{}, {"transfer"}, {"withdraw", "deposit"}}

MCCommitEvent ==
    /\ ScanOnly
    /\ Len(events) < MaxEvents
    /\ \E t \in DOMAIN EventTypes :
         \E owned \in {{}, 0 .. EventTypes[t].outputs - 1} : CommitEvent(t, owned)

MCCommitBlock == ScanOnly /\ tip < MaxTip /\ CommitBlock

MCStartSync == ScanOnly /\ \E force \in BOOLEAN : StartSync(force)

MCScanPage == ScanOnly /\ ScanPage

MCAbandonSync == ScanOnly /\ AbandonSync

-----------------------------------------------------------------------------
ArithOnly == Only("arith") /\ UNCHANGED <<treeVars, genesisVars, wireVars, scanVars, losses>>

(* A string is read into a register that holds zero; what it held before    *)
(* makes no difference.                                                     *)
Fresh == unit # "point" /\ ref.v = 0

MCElement ==
    /\ ArithOnly
    /\ \/ Fresh /\ \E n \in Strings : SetBytes(n) \/ Reduce(n)
       \/ \E v \in Residues(unit) : CombineElements(v) \/ CombineScalars(v)
       \/ Neg \/ SquareElement \/ InvertElement \/ Sqrt

MCScalar ==
    /\ ArithOnly
    /\ \/ /\ Fresh
          /\ \E n \in Strings :
               Parse(n) \/ Derive(n) \/ \E nonzero \in BOOLEAN : SampleScalar(n, nonzero)
       \/ \E k \in Residues("scalar"), n \in 0 .. 4 * Order : Respond(k, n)

MCPoint ==
    /\ ArithOnly
    /\ \/ \E c \in Subgroup : PlusPoint(c)
       \/ TwicePoint
       \/ \E k \in Residues("scalar") : ScalarMult(k)

-----------------------------------------------------------------------------
MCInit ==
    /\ profile \in Profiles
    /\ TreeInit /\ losses = 0
    /\ GenesisInit
    /\ ScanInit /\ (profile # "scan" => filter = {})
    /\ WireInit /\ (profile # "wire" => mtype = "MsgDeposit")
    /\ IF profile = "arith" THEN ArithInit ELSE unit = "none" /\ reg = <<>> /\ ref = <<>>

MCNext ==
    \/ MCAppend \/ MCNextBlock \/ MCLoseNodes
    \/ MCDeposit \/ MCTransfer \/ MCWithdraw \/ MCBlock
    \/ MCRestart \/ MCRestartAltered \/ MCRefuseAltered
    \/ MCSendMessage \/ MCSendNewer \/ MCLoseTail \/ MCReceive
    \/ MCCommitEvent \/ MCCommitBlock \/ MCStartSync \/ MCScanPage \/ MCAbandonSync
    \/ MCElement \/ MCScalar \/ MCPoint

MCSpec == MCInit /\ [][MCNext]_mcVars

(* The restarts of unaltered exports, with the key messages of the audit    *)
(* lane.                                                                    *)
MCExportNext ==
    \/ MCDeposit \/ MCTransfer \/ MCWithdraw \/ MCBlock \/ MCKeyMessage
    \/ MCRestart \/ MCRefuse

MCExportSpec == MCInit /\ [][MCExportNext]_mcVars
=============================================================================
