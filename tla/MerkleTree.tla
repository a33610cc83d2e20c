----------------------------- MODULE MerkleTree -----------------------------
(***************************************************************************)
(* The append-only commitment tree of keeper/tree.go with its cached       *)
(* nodes, and the root snapshots and path queries of                       *)
(* keeper/path_snapshot.go.                                                *)
(*                                                                         *)
(* Leaf and node indices start at 0 as in the store; a leaf sequence is a  *)
(* TLA+ sequence, so leaf i is treeLeaves[i + 1].  The MiMC parent hash is *)
(* the free term <<level, left, right>>.                                   *)
(***************************************************************************)
EXTENDS Integers, Sequences, FiniteSets, Functions

CONSTANTS Depth,             \* MerkleDepth
          MaxRebuildLeaves,  \* MaxMerkleRebuildLeaves
          AuditRuntime,      \* k.audit # nil
          Commitments,       \* field elements offered as leaves
          Zero               \* the zero field element

ASSUME TreeAssumption ==
    /\ Depth \in Nat /\ MaxRebuildLeaves \in Nat
    /\ AuditRuntime \in BOOLEAN
    /\ Zero \in Commitments

VARIABLES treeLeaves,       \* Leaf/<index> for index < LeafCount
          nodes,            \* MerkleNode/<level>/<index>
          commitmentIndex,  \* CommitmentIndex/<commitment>
          historicalRoot,   \* HistoricalRoot/<root>: the height it was stored at
          snapshots,        \* MerkleRootSnapshot/<root>: its leaf count and height
          blockHeight

treeVars == <<treeLeaves, nodes, commitmentIndex, historicalRoot, snapshots, blockHeight>>

(* 1 << n *)
Pow2[n \in 0 .. Depth] == IF n = 0 THEN 1 ELSE 2 * Pow2[n - 1]

MaxMerkleLeaves == Pow2[Depth]

TreeInit ==
    /\ treeLeaves = <<>>
    /\ nodes = << >>
    /\ commitmentIndex = << >>
    /\ historicalRoot = << >>
    /\ snapshots = << >>
    /\ blockHeight = 0

(* store.Set of one key. *)
With(f, key, value) == [k \in DOMAIN f \cup {key} |-> IF k = key THEN value ELSE f[k]]

-----------------------------------------------------------------------------
HashNodes(level, left, right) == <<level, left, right>>

EmptyNode[level \in 0 .. Depth] ==
    IF level = 0 THEN Zero ELSE HashNodes(level - 1, EmptyNode[level - 1], EmptyNode[level - 1])

(* populatedNodeCountAtLevel: the leaf count halved, rounding up. *)
PopulatedRoundingDown(count, level) == count \div Pow2[level]

PopulatedNodeCountAtLevel(count, level) == (count + Pow2[level] - 1) \div Pow2[level]

(* getMerkleNodeOrEmpty: the empty root of the level outside the populated  *)
(* part; inside it the stored node, whose absence is an error (every use of *)
(* NodeOrEmpty is behind a NodeReadable).                                   *)
NodeReadable(n, level, index, count) ==
    index < PopulatedNodeCountAtLevel(count, level) => <<level, index>> \in DOMAIN n

NodeOrEmpty(n, level, index, count) ==
    IF index < PopulatedNodeCountAtLevel(count, level) /\ <<level, index>> \in DOMAIN n
    THEN n[level, index] ELSE EmptyNode[level]

(* currentIndex after `level` halvings. *)
At(index, level) == index \div Pow2[level]

(* The nodes from a leaf up to the root, given the sibling at each level. *)
Parent(index, level, node, sibling) ==
    IF At(index, level) % 2 = 0
    THEN HashNodes(level, node, sibling) ELSE HashNodes(level, sibling, node)

Climb(c, index, sibling) ==
    LET up[level \in 0 .. Depth] ==
          IF level = 0 THEN c ELSE Parent(index, level - 1, up[level - 1], sibling[level - 1])
    IN  up

(* The nodes written on the way from leaf `index` to the root, given the    *)
(* nodes stored before: the left sibling is read, the right one is empty.   *)
PathUp(n, c, index, count) ==
    Climb(c, index, [level \in 0 .. Depth - 1 |->
                       IF At(index, level) % 2 = 0 THEN EmptyNode[level]
                       ELSE NodeOrEmpty(n, level, At(index, level) - 1, count)])

WritePath(n, c, index, count) ==
    LET up == PathUp(n, c, index, count)
        written == {<<level, At(index, level)>> : level \in 0 .. Depth}
    IN  [k \in DOMAIN n \cup written |-> IF k \in written THEN up[k[1]] ELSE n[k]]

(* validateAppendPath: every left sibling that the append will read. *)
AppendPathUnchecked(n, index) == TRUE

AppendPathReadable(n, index) ==
    \A level \in 0 .. Depth - 1 :
        At(index, level) % 2 = 1 => NodeReadable(n, level, At(index, level) - 1, index)

(* ensureIncrementalTreeState: nothing when the tree is empty or its root   *)
(* is cached; otherwise the legacy lane rewrites every path from the        *)
(* leaves, within the rebuild bound, and the audit lane refuses.            *)
RootCached == <<Depth, 0>> \in DOMAIN nodes

TreeStateUsable ==
    treeLeaves = <<>> \/ RootCached \/ (~AuditRuntime /\ Len(treeLeaves) <= MaxRebuildLeaves)

Rebuilt(n, s) ==
    LET rebuilt[i \in 0 .. Len(s)] ==
          IF i = 0 THEN n ELSE WritePath(rebuilt[i - 1], s[i], i - 1, Len(s))
    IN  rebuilt

RebuiltNodes == Rebuilt(nodes, treeLeaves)[Len(treeLeaves)]

EnsuredNodes == IF treeLeaves = <<>> \/ RootCached THEN nodes ELSE RebuiltNodes

EnsuredIndex ==
    IF treeLeaves = <<>> \/ RootCached THEN commitmentIndex
    ELSE [c \in DOMAIN commitmentIndex \cup Range(treeLeaves) |->
            IF c \in Range(treeLeaves) THEN (CHOOSE i \in DOMAIN treeLeaves : treeLeaves[i] = c) - 1
            ELSE commitmentIndex[c]]

-----------------------------------------------------------------------------
(* EnsureCanAppendCommitments *)
EnsureCanAppendCommitments(appendCount) ==
    Len(treeLeaves) + appendCount <= MaxMerkleLeaves /\ TreeStateUsable

AnyNew(c) == c \notin DOMAIN commitmentIndex

Appendable(c) == c # Zero /\ c \notin DOMAIN commitmentIndex

(* setMerkleRootSnapshot accepts a root it knows only with equal metadata.  *)
SnapshotAccepted(root, snapshot) == root \in DOMAIN snapshots => snapshots[root] = snapshot

(* appendCommitment: leaf, index, nodes up to the root, historical root,    *)
(* leaf count and snapshot, or nothing.                                     *)
AppendCommitment(c) ==
    /\ Appendable(c)
    /\ EnsureCanAppendCommitments(1)
    /\ LET index == Len(treeLeaves)
           root == PathUp(EnsuredNodes, c, index, index)[Depth]
           snapshot == [leafCount |-> index + 1, height |-> blockHeight]
       IN  /\ AppendPathReadable(EnsuredNodes, index)
           /\ SnapshotAccepted(root, snapshot)
           /\ treeLeaves' = Append(treeLeaves, c)
           /\ commitmentIndex' = With(EnsuredIndex, c, index)
           /\ nodes' = WritePath(EnsuredNodes, c, index, index)
           /\ historicalRoot' = With(historicalRoot, root, blockHeight)
           /\ snapshots' = With(snapshots, root, snapshot)
    /\ UNCHANGED blockHeight

NextBlock ==
    /\ blockHeight' = blockHeight + 1
    /\ UNCHANGED <<treeLeaves, nodes, commitmentIndex, historicalRoot, snapshots>>

(* A restore or migration that brings back the leaves and their metadata    *)
(* but not all cached nodes (operations guide, Merkle restore checks).      *)
LoseNodes(lost) ==
    /\ nodes' = [k \in DOMAIN nodes \ lost |-> nodes[k]]
    /\ UNCHANGED <<treeLeaves, commitmentIndex, historicalRoot, snapshots, blockHeight>>

TreeNext ==
    \/ \E c \in Commitments : AppendCommitment(c)
    \/ NextBlock
    \/ \E lost \in SUBSET (DOMAIN nodes) : LoseNodes(lost)

TreeSpec == TreeInit /\ [][TreeNext]_treeVars

-----------------------------------------------------------------------------
(* RecalculateRoot and the historical rebuild: one layer at a time. *)
NextLayer(level, below) ==
    [j \in 1 .. (Len(below) + 1) \div 2 |->
       HashNodes(level, below[2 * j - 1], IF 2 * j <= Len(below) THEN below[2 * j] ELSE EmptyNode[level])]

Layers(s) ==
    LET layer[level \in 0 .. Depth] ==
          IF level = 0 THEN s ELSE NextLayer(level - 1, layer[level - 1])
    IN  layer

RecalculateRoot(s) == IF s = <<>> THEN EmptyNode[Depth] ELSE Layers(s)[Depth][1]

(* computeCommitmentPrefixRootsV1: the frontier after each leaf, and with   *)
(* it the root of each prefix (genesis export, offline snapshot rebuild).   *)
FrontierStep(frontier, leaf, index) ==
    LET up == Climb(leaf, index, [level \in 0 .. Depth - 1 |->
                                    IF At(index, level) % 2 = 0 THEN EmptyNode[level] ELSE frontier[level]])
    IN  [root |-> up[Depth],
         frontier |-> [level \in 0 .. Depth - 1 |->
                         IF At(index, level) % 2 = 0 THEN up[level] ELSE frontier[level]]]

FrontierSteps(s) ==
    LET step[n \in 0 .. Len(s)] ==
          IF n = 0 THEN [root |-> EmptyNode[Depth], frontier |-> [level \in 0 .. Depth - 1 |-> Zero]]
          ELSE FrontierStep(step[n - 1].frontier, s[n], n - 1)
    IN  step

PrefixRoots(s) == [n \in 1 .. Len(s) |-> FrontierSteps(s)[n].root]

(* currentIndex ^ 1 *)
Sibling(index) == IF index % 2 = 0 THEN index + 1 ELSE index - 1

(* GetPath and getStoredIncrementalPathV1: siblings from the node cache.    *)
StoredPathReadable(n, index, count) ==
    \A level \in 0 .. Depth - 1 : NodeReadable(n, level, Sibling(At(index, level)), count)

StoredPath(n, index, count) ==
    [level \in 0 .. Depth - 1 |-> NodeOrEmpty(n, level, Sibling(At(index, level)), count)]

(* GetCommitmentPathsAtRootV1 for a root of the past: siblings from the     *)
(* layers rebuilt over the snapshot's prefix.                               *)
HistoricalPath(s, index) ==
    [level \in 0 .. Depth - 1 |->
       LET layer == Layers(s)[level]
           sibling == Sibling(At(index, level))
       IN  IF sibling < Len(layer) THEN layer[sibling + 1] ELSE EmptyNode[level]]

(* The relation of the circuits: the root a path and its helper bits give.  *)
PathRoot(c, index, path) == Climb(c, index, path)[Depth]

-----------------------------------------------------------------------------
Prefix(n) == SubSeq(treeLeaves, 1, n)

(* The full binary tree over the leaves padded with zeros: what every       *)
(* algorithm above has to agree with.                                       *)
PaddedLeaves(s) == [i \in Nat |-> IF i < Len(s) THEN s[i + 1] ELSE Zero]

Parents(level, row) == [i \in Nat |-> HashNodes(level, row[2 * i], row[2 * i + 1])]

ReferenceNodes(s) ==
    LET node[level \in 0 .. Depth] ==
          IF level = 0 THEN PaddedLeaves(s) ELSE Parents(level - 1, node[level - 1])
    IN  node

ReferenceRoot(s) == ReferenceNodes(s)[Depth][0]

(* The type invariant of the tree. *)
TreeTypeOK ==
    /\ treeLeaves \in Seq(Commitments) /\ Len(treeLeaves) <= MaxMerkleLeaves
    /\ DOMAIN nodes \subseteq (0 .. Depth) \X Nat
    /\ DOMAIN commitmentIndex = Range(treeLeaves)
    /\ DOMAIN snapshots = DOMAIN historicalRoot
    /\ blockHeight \in Nat

(* The cached root is the root of the leaves whatever nodes a restore lost  *)
(* before: an append reads a right value or refuses, and RecalculateRoot    *)
(* gives the same root.                                                     *)
CachedRootIsTheRoot ==
    /\ RootCached => nodes[Depth, 0] = ReferenceRoot(treeLeaves)
    /\ RecalculateRoot(treeLeaves) = ReferenceRoot(treeLeaves)

(* The recorded roots are exactly the roots of the non-empty prefixes, each *)
(* with its own leaf count and one height, so a root names one tree and     *)
(* none names the empty one; the frontier algorithm of the export derives   *)
(* the same list.                                                           *)
RootsArePrefixes ==
    /\ Cardinality(DOMAIN snapshots) = Len(treeLeaves)
    /\ EmptyNode[Depth] \notin DOMAIN snapshots
    /\ \A n \in 1 .. Len(treeLeaves) :
         LET root == ReferenceRoot(Prefix(n))
         IN  /\ root \in DOMAIN snapshots
             /\ snapshots[root].leafCount = n
             /\ snapshots[root].height = historicalRoot[root]
             /\ PrefixRoots(treeLeaves)[n] = root

(* Every path a node serves is accepted by the circuits: from the node      *)
(* cache for the current root (also after a partial loss, unless it is      *)
(* refused), and from a rebuild for each root of the past.                  *)
PathsVerify ==
    \A i \in 0 .. Len(treeLeaves) - 1 :
        LET c == treeLeaves[i + 1]
        IN  /\ commitmentIndex[c] = i
            /\ (TreeStateUsable /\ StoredPathReadable(EnsuredNodes, i, Len(treeLeaves))) =>
                 PathRoot(c, i, StoredPath(EnsuredNodes, i, Len(treeLeaves))) = ReferenceRoot(treeLeaves)
            /\ \A n \in i + 1 .. Len(treeLeaves) :
                 PathRoot(c, i, HistoricalPath(Prefix(n), i)) = ReferenceRoot(Prefix(n))
=============================================================================
