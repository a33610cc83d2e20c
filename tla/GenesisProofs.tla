--------------------------- MODULE GenesisProofs ---------------------------
(***************************************************************************)
(* Proofs about Genesis: whatever file a restart accepts, exported or not, *)
(* the store it leaves agrees with itself; the export itself is accepted   *)
(* when the audit runtime is not configured, and gives the state back.     *)
(***************************************************************************)
EXTENDS Genesis, FiniteSetTheorems, FunctionTheorems, TLAPS

(* The provers tried on a leaf that names none, and their time limits. *)
USE ZenonT(120), SMTT(120)

-----------------------------------------------------------------------------
(* Prefixes of a sequence of leaves.                                        *)

(* The prefix of length n is the sequence restricted to 1 .. n. *)
LEMMA PrefixShape ==
  ASSUME NEW V, NEW s \in Seq(V), NEW n \in 0 .. Len(s)
  PROVE  /\ SubSeq(s, 1, n) \in Seq(V) /\ Len(SubSeq(s, 1, n)) = n
         /\ \A i \in 1 .. n : SubSeq(s, 1, n)[i] = s[i]
  BY SMTT(120)

(* The sequence without elements. *)
LEMMA EmptySequence ==
  ASSUME NEW V, NEW s \in Seq(V), Len(s) = 0
  PROVE  s = << >>
  BY SMTT(120)

(* A sequence is its own longest prefix. *)
LEMMA PrefixWhole ==
  ASSUME NEW V, NEW s \in Seq(V)
  PROVE  SubSeq(s, 1, Len(s)) = s
  BY SMTT(120)

(* There are as many prefixes, and roots, as leaves. *)
LEMMA PrefixCount ==
  ASSUME NEW V, NEW s \in Seq(V)
  PROVE  IsFiniteSet(PrefixesOf(s)) /\ Cardinality(PrefixesOf(s)) = Len(s)
  <1> DEFINE f == [n \in 1 .. Len(s) |-> SubSeq(s, 1, n)]
  <1>1. Len(s) \in Nat
    BY SMTT(120)
  <1>2. \A n \in 1 .. Len(s) : n \in 0 .. Len(s) /\ Len(SubSeq(s, 1, n)) = n
    BY SMTT(120), <1>1, PrefixShape
  <1>3. f \in Bijection(1 .. Len(s), PrefixesOf(s))
    <2>1. f \in [1 .. Len(s) -> PrefixesOf(s)]
      BY DEF PrefixesOf
    <2>2. \A a, b \in 1 .. Len(s) : f[a] = f[b] => a = b
      BY <1>2
    <2>3. \A r \in PrefixesOf(s) : \E n \in 1 .. Len(s) : f[n] = r
      BY DEF PrefixesOf
    <2> QED
      BY <2>1, <2>2, <2>3 DEF Bijection, Injection, Surjection, IsInjective
  <1>4. IsFiniteSet(1 .. Len(s)) /\ Cardinality(1 .. Len(s)) = Len(s)
    BY SMTT(120), <1>1, FS_Interval
  <1>5. ExistsBijection(1 .. Len(s), PrefixesOf(s))
    BY <1>3 DEF ExistsBijection
  <1> QED
    BY <1>4, <1>5, FS_Bijection

(* Appending leaves adds prefixes and keeps the old ones. *)
LEMMA PrefixesGrow ==
  ASSUME NEW V, NEW s \in Seq(V), NEW t \in Seq(V)
  PROVE  PrefixesOf(s) \subseteq PrefixesOf(s \o t)
  <1> SUFFICES ASSUME NEW n \in 1 .. Len(s)
               PROVE  SubSeq(s, 1, n) \in PrefixesOf(s \o t)
    BY DEF PrefixesOf
  <1>1. s \o t \in Seq(V) /\ n \in 1 .. Len(s \o t) /\ n \in 0 .. Len(s) /\ n \in 0 .. Len(s \o t)
    BY SMTT(120)
  <1>2. \A i \in 1 .. n : (s \o t)[i] = s[i]
    BY SMTT(120)
  <1>3. SubSeq(s \o t, 1, n) = SubSeq(s, 1, n)
    <2> DEFINE a == SubSeq(s \o t, 1, n)
               b == SubSeq(s, 1, n)
    <2>1. /\ a \in Seq(V) /\ b \in Seq(V) /\ Len(a) = n /\ Len(b) = n
          /\ \A i \in 1 .. n : a[i] = (s \o t)[i]
          /\ \A i \in 1 .. n : b[i] = s[i]
      BY <1>1, PrefixShape
    <2> HIDE DEF a, b
    <2> QED
      BY <1>2, <2>1, SMTT(120) DEF a, b
  <1> QED
    BY <1>1, <1>3 DEF PrefixesOf

-----------------------------------------------------------------------------
(* A record of the privacy index names leaves that are there, under a       *)
(* sequence number already given out.                                       *)
RecordIndexed(r, s, top) ==
    /\ r \in ScanRecord /\ r.sequence \in 1 .. top
    /\ \A i \in DOMAIN r.outputs :
         r.outputs[i].leaf \in 1 .. Len(s) /\ s[r.outputs[i].leaf] = r.outputs[i].commitment

(* The inductive invariant: StoreConsistent with the types of the store,    *)
(* the height, and no record under the number zero.                         *)
GenesisInv ==
    /\ height \in Nat
    /\ leaves \in Seq(LeafValues) /\ IsInjective(leaves) /\ Len(leaves) <= MaxLeaves
    /\ reserve \in [deposited : Nat, withdrawn : Nat] /\ reserve.withdrawn <= reserve.deposited
    /\ rootHeight \in [PrefixesOf(leaves) -> Nat]
    /\ sequence \in Nat
    /\ \A r \in records : RecordIndexed(r, leaves, sequence)
    /\ \A r, s \in records : r.sequence = s.sequence => r = s

(* The invariant gives StoreConsistent. *)
LEMMA InvIsConsistent ==
  ASSUME GenesisInv PROVE StoreConsistent
  <1>1. DOMAIN rootHeight = PrefixesOf(leaves) /\ \A r \in DOMAIN rootHeight : rootHeight[r] \in Nat
    BY DEF GenesisInv
  <1>2. DOMAIN leaves = 1 .. Len(leaves)
    BY SMTT(120) DEF GenesisInv
  <1>3. \A r \in records : r.sequence <= sequence
    BY SMTT(120) DEF GenesisInv, RecordIndexed
  <1>4. ASSUME NEW r \in records, NEW i \in DOMAIN r.outputs
        PROVE  r.outputs[i].leaf \in DOMAIN leaves /\ leaves[r.outputs[i].leaf] = r.outputs[i].commitment
    BY <1>2 DEF GenesisInv, RecordIndexed
  <1> QED
    BY <1>1, <1>3, <1>4, ZenonT(120) DEF GenesisInv, StoreConsistent

-----------------------------------------------------------------------------
(* The empty store is consistent. *)
LEMMA InitInv ==
  ASSUME GenesisInit PROVE GenesisInv
  <1>1. Len(leaves) = 0 /\ leaves \in Seq(LeafValues) /\ IsInjective(leaves) /\ Len(leaves) <= MaxLeaves
    BY SMTT(120), GenesisAssumption DEF GenesisInit, IsInjective
  <1>2. PrefixesOf(leaves) = {}
    BY <1>1, SMTT(120) DEF PrefixesOf
  <1>3. rootHeight \in [PrefixesOf(leaves) -> Nat]
    <2>1. rootHeight = << >>
      BY DEF GenesisInit
    <2> QED
      BY <1>2, <2>1, SMTT(120)
  <1>4. height \in Nat
    BY SMTT(120), KeyAssumption DEF GenesisInit, KeyInit
  <1> QED
    BY <1>1, <1>3, <1>4, SMTT(120) DEF GenesisInit, GenesisInv

(* A message appends distinct new leaves, so no leaf is there twice, and    *)
(* every record still finds its outputs.                                    *)
LEMMA CommitKeepsInv ==
  ASSUME GenesisInv,
         NEW spent \in SUBSET LeafValues, NEW outputs \in Seq(LeafValues),
         NEW deposit \in Nat, NEW withdraw \in Nat,
         Commit(spent, outputs, deposit, withdraw)
  PROVE  GenesisInv'
  <1> DEFINE new == leaves \o outputs
             out == [i \in DOMAIN outputs |-> [leaf |-> Len(leaves) + i, commitment |-> outputs[i]]]
             rec == [sequence |-> sequence + 1, height |-> height, outputs |-> out]
  <1>1. /\ leaves \in Seq(LeafValues) /\ IsInjective(leaves) /\ IsInjective(outputs)
        /\ Range(outputs) \cap Range(leaves) = {} /\ Len(leaves) + Len(outputs) <= MaxLeaves
        /\ leaves' = new
    BY DEF GenesisInv, Commit
  <1>2. /\ new \in Seq(LeafValues) /\ Len(new) = Len(leaves) + Len(outputs)
        /\ Len(leaves) \in Nat /\ Len(outputs) \in Nat
        /\ DOMAIN leaves = 1 .. Len(leaves) /\ DOMAIN outputs = 1 .. Len(outputs)
        /\ DOMAIN new = 1 .. Len(new)
        /\ \A i \in 1 .. Len(leaves) : new[i] = leaves[i]
        /\ \A i \in 1 .. Len(outputs) : new[Len(leaves) + i] = outputs[i]
    BY <1>1, SMTT(120)
  <1>3. PrefixesOf(leaves) \subseteq PrefixesOf(new)
    BY <1>1, PrefixesGrow
  <1> HIDE DEF new
  <1>4. \A i \in 1 .. Len(new) : \/ i \in 1 .. Len(leaves)
                                  \/ \E j \in 1 .. Len(outputs) : i = Len(leaves) + j
    <2> SUFFICES ASSUME NEW i \in 1 .. Len(new), i \notin 1 .. Len(leaves)
                 PROVE  \E j \in 1 .. Len(outputs) : i = Len(leaves) + j
      OBVIOUS
    <2>1. i - Len(leaves) \in 1 .. Len(outputs) /\ i = Len(leaves) + (i - Len(leaves))
      BY <1>2, SMTT(120)
    <2> QED
      BY <2>1
  <1>5. IsInjective(new)
    <2> SUFFICES ASSUME NEW a \in 1 .. Len(new), NEW b \in 1 .. Len(new), new[a] = new[b]
                 PROVE  a = b
      BY <1>2 DEF IsInjective
    <2>1. CASE a \in 1 .. Len(leaves) /\ b \in 1 .. Len(leaves)
      BY <1>1, <1>2, <2>1 DEF IsInjective
    <2>2. \A i \in 1 .. Len(leaves), j \in 1 .. Len(outputs) : new[i] # new[Len(leaves) + j]
      BY <1>1, <1>2 DEF Range
    <2>3. \A i, j \in 1 .. Len(outputs) : new[Len(leaves) + i] = new[Len(leaves) + j] => i = j
      <3>1. \A i, j \in 1 .. Len(outputs) : outputs[i] = outputs[j] => i = j
        BY <1>1, <1>2 DEF IsInjective
      <3> QED
        BY SMTT(120), <1>2, <3>1
    <2> QED
      BY <1>4, <2>1, <2>2, <2>3
  <1>8. /\ reserve' \in [deposited : Nat, withdrawn : Nat]
        /\ reserve'.withdrawn <= reserve'.deposited
    BY SMTT(120) DEF GenesisInv, Commit
  <1>9. rootHeight' \in [PrefixesOf(new) -> Nat]
    <2>1. DOMAIN rootHeight \cup PrefixesOf(new) = PrefixesOf(new)
      BY <1>3 DEF GenesisInv
    <2>2. rootHeight' = [r \in DOMAIN rootHeight \cup PrefixesOf(new) |->
                            IF r \in DOMAIN rootHeight THEN rootHeight[r] ELSE height]
      BY DEF Commit, new
    <2>3. height \in Nat /\ \A r \in DOMAIN rootHeight : rootHeight[r] \in Nat
      BY DEF GenesisInv
    <2> QED
      BY <2>1, <2>2, <2>3
  <1>10. sequence' \in Nat /\ sequence' = sequence + 1 /\ sequence \in Nat
    BY SMTT(120) DEF GenesisInv, Commit
  <1>11. records' = records \cup {rec}
    BY DEF Commit
  <1>12. ASSUME NEW r \in records PROVE RecordIndexed(r, new, sequence')
    <2>1. /\ r \in ScanRecord /\ r.sequence \in 1 .. sequence
          /\ \A i \in DOMAIN r.outputs :
               r.outputs[i].leaf \in 1 .. Len(leaves) /\ leaves[r.outputs[i].leaf] = r.outputs[i].commitment
      BY DEF GenesisInv, RecordIndexed
    <2>2. 1 .. Len(leaves) \subseteq 1 .. Len(new) /\ 1 .. sequence \subseteq 1 .. sequence'
      BY <1>2, <1>10, SMTT(120)
    <2> QED
      BY <1>2, <2>1, <2>2, ZenonT(120) DEF RecordIndexed
  <1>13. RecordIndexed(rec, new, sequence') /\ rec.sequence = sequence + 1
    <2>1. DOMAIN out = 1 .. Len(outputs)
      BY <1>2
    <2>2. ASSUME NEW i \in 1 .. Len(outputs)
          PROVE  /\ Len(leaves) + i \in 1 .. Len(new) /\ Len(leaves) + i \in Nat \ {0}
                 /\ outputs[i] \in LeafValues
      BY <1>2, SMTT(120)
    <2>3. out \in [1 .. Len(outputs) -> ScanOutput]
      BY <1>2, <2>2 DEF ScanOutput
    <2>4. out \in Seq(ScanOutput)
      BY <1>2, <2>3, SMTT(120)
    <2>5. \A i \in DOMAIN out : out[i].leaf \in 1 .. Len(new) /\ new[out[i].leaf] = out[i].commitment
      BY <1>2, <2>1, <2>2
    <2>6. height \in Nat /\ sequence + 1 \in Nat /\ sequence + 1 \in 1 .. sequence'
      BY <1>10, SMTT(120) DEF GenesisInv
    <2> HIDE DEF out
    <2>7. rec \in ScanRecord
      BY <2>4, <2>6 DEF ScanRecord
    <2> QED
      BY <2>5, <2>6, <2>7 DEF RecordIndexed
  <1> HIDE DEF rec
  <1>14. \A r \in records : r.sequence # rec.sequence
    <2>1. \A r \in records : r.sequence \in 1 .. sequence
      BY DEF GenesisInv, RecordIndexed
    <2> QED
      BY <1>10, <1>13, <2>1, SMTT(120)
  <1>15. \A r, s \in records' : r.sequence = s.sequence => r = s
    BY <1>11, <1>14 DEF GenesisInv
  <1>16. \A r \in records' : RecordIndexed(r, new, sequence')
    BY <1>11, <1>12, <1>13
  <1>17. Len(new) <= MaxLeaves
    BY <1>1, <1>2
  <1>18. height' \in Nat
    BY DEF GenesisInv, Commit, keyVars
  <1> QED
    BY <1>1, <1>2, <1>5, <1>8, <1>9, <1>10, <1>15, <1>16, <1>17, <1>18, ZenonT(120) DEF GenesisInv

-----------------------------------------------------------------------------
(* A file passes when each of the seven stages accepts it. *)
LEMMA AllStages ==
  ASSUME NEW g
  PROVE  (\A i \in DOMAIN Stages : Accepts(g, Stages[i]))
           <=> /\ Validated(g) /\ (AuditLane => MetadataAccepted(g.keys))
               /\ CommitmentsAccepted(g) /\ RootsAccepted(g) /\ SnapshotsAccepted(g)
               /\ ReserveAccepted(g) /\ IndexAccepted(g)
  <1>1. DOMAIN Stages = 1 .. 7
    BY SMTT(120) DEF Stages
  <1>2. /\ Stages[1] = "validate" /\ Stages[2] = "metadata" /\ Stages[3] = "commitments"
        /\ Stages[4] = "roots" /\ Stages[5] = "snapshots" /\ Stages[6] = "reserve"
        /\ Stages[7] = "index"
    BY SMTT(120) DEF Stages
  <1>3. /\ Accepts(g, Stages[1]) <=> Validated(g)
        /\ Accepts(g, Stages[2]) <=> (AuditLane => MetadataAccepted(g.keys))
        /\ Accepts(g, Stages[3]) <=> CommitmentsAccepted(g)
        /\ Accepts(g, Stages[4]) <=> RootsAccepted(g)
        /\ Accepts(g, Stages[5]) <=> SnapshotsAccepted(g)
        /\ Accepts(g, Stages[6]) <=> ReserveAccepted(g)
        /\ Accepts(g, Stages[7]) <=> IndexAccepted(g)
    BY <1>2 DEF Accepts
  <1>4. \A i \in 1 .. 7 : i = 1 \/ i = 2 \/ i = 3 \/ i = 4 \/ i = 5 \/ i = 6 \/ i = 7
    BY SMTT(120)
  <1>5. /\ 1 \in 1 .. 7 /\ 2 \in 1 .. 7 /\ 3 \in 1 .. 7 /\ 4 \in 1 .. 7
        /\ 5 \in 1 .. 7 /\ 6 \in 1 .. 7 /\ 7 \in 1 .. 7
    BY SMTT(120)
  <1> QED
    BY ZenonT(120), <1>1, <1>3, <1>4, <1>5

(* The fields of the export. *)
LEMMA ExportedFields ==
  ASSUME GenesisInv
  PROVE  /\ Exported.commitments = leaves /\ Exported.roots = PrefixesOf(leaves)
         /\ Exported.nullifiers = nullifiers /\ Exported.reserve = reserve
         /\ Exported.sequence = sequence /\ Exported.records = records
         /\ Exported.snapshots = {[root |-> r, leafCount |-> Len(r), height |-> rootHeight[r]] : r \in PrefixesOf(leaves)}
         /\ DOMAIN rootHeight = PrefixesOf(leaves)
  BY DEF GenesisInv, Exported

(* InitGenesisMerkleRootSnapshotsV1 asks for as many snapshots as leaves,   *)
(* each of a prefix and no two of one: then every prefix has its snapshot,  *)
(* and the height the import looks up for a root is there.                  *)
LEMMA SnapshotsCover ==
  ASSUME NEW g \in GenesisFile, SnapshotsAccepted(g), NEW r \in PrefixesOf(g.commitments)
  PROVE  \E x \in g.snapshots : x.root = r
  <1> DEFINE P == PrefixesOf(g.commitments)
             S == g.snapshots
             f == [x \in S |-> x.root]
             R == {x.root : x \in S}
  <1>1. g.commitments \in Seq(LeafValues)
    BY DEF GenesisFile
  <1>2. IsFiniteSet(P) /\ Cardinality(P) = Len(g.commitments)
    BY <1>1, PrefixCount
  <1>3. /\ \A x \in S : x.root \in P
        /\ \A x, y \in S : x.root = y.root => x = y
        /\ Cardinality(S) = Len(g.commitments)
    BY DEF SnapshotsAccepted, AppendedRoots
  <1>4. R \in SUBSET P
    BY <1>3
  <1>5. f \in Bijection(S, R)
    <2>1. f \in [S -> R]
      OBVIOUS
    <2>2. \A x, y \in S : f[x] = f[y] => x = y
      BY <1>3
    <2>3. \A q \in R : \E x \in S : f[x] = q
      OBVIOUS
    <2> HIDE DEF f, R, S
    <2> QED
      BY <2>1, <2>2, <2>3 DEF Bijection, Injection, Surjection, IsInjective
  <1> HIDE DEF R, S, P, f
  <1>6. IsFiniteSet(R) /\ (Cardinality(P) = Cardinality(R) => P = R)
    BY <1>2, <1>4, FS_Subset
  <1>7. ExistsBijection(R, S)
    <2>1. ExistsBijection(S, R)
      BY <1>5 DEF ExistsBijection
    <2> QED
      BY <2>1, Fun_ExistsBijSymmetric
  <1>8. Cardinality(R) = Cardinality(S)
    BY <1>6, <1>7, FS_Bijection
  <1>9. r \in R
    BY <1>2, <1>3, <1>6, <1>8 DEF P
  <1> QED
    BY <1>9 DEF R, S

(* A restart leaves a store that satisfies the invariant, whatever was      *)
(* there before.                                                            *)
LEMMA ImportKeepsInv ==
  ASSUME GenesisInv, NEW g \in GenesisFile, Import(g)
  PROVE  GenesisInv'
  <1>1. CommitmentsAccepted(g) /\ SnapshotsAccepted(g) /\ ReserveAccepted(g) /\ IndexAccepted(g)
    BY AllStages DEF Import
  <1>2. /\ g.commitments \in Seq(LeafValues) /\ g.sequence \in Nat
        /\ g.reserve \in [deposited : Nat, withdrawn : Nat]
        /\ \A x \in g.snapshots : x.height \in Nat
        /\ \A r \in g.records : r \in ScanRecord
    BY DEF GenesisFile, RootSnapshot
  <1>3. /\ leaves' = g.commitments /\ records' = g.records /\ reserve' = g.reserve
        /\ sequence' = g.sequence /\ rootHeight' = HeightsImported(g) /\ height' = height
    BY DEF Import, SequenceImported, keyVars
  <1>4. rootHeight' \in [PrefixesOf(leaves') -> Nat]
    <2> DEFINE h(r) == (CHOOSE x \in g.snapshots : x.root = r).height
    <2>1. ASSUME NEW r \in PrefixesOf(g.commitments) PROVE h(r) \in Nat
      <3> DEFINE c == CHOOSE x \in g.snapshots : x.root = r
      <3>1. \E x \in g.snapshots : x.root = r
        BY <1>1, SnapshotsCover
      <3>2. c \in g.snapshots
        BY <3>1, ZenonT(120)
      <3> QED
        BY <1>2, <3>2
    <2>2. HeightsImported(g) = [r \in PrefixesOf(g.commitments) |-> h(r)]
      BY ZenonT(120) DEF HeightsImported, AppendedRoots
    <2> HIDE DEF h
    <2> QED
      BY <1>3, <2>1, <2>2
  <1>5. ASSUME NEW r \in g.records PROVE RecordIndexed(r, g.commitments, g.sequence)
    <2>1. r \in ScanRecord /\ r.sequence \in Nat /\ r.outputs \in Seq(ScanOutput)
      BY <1>2 DEF ScanRecord
    <2>2. r.sequence # 0 /\ g.sequence >= r.sequence
      BY <1>1 DEF IndexAccepted, SequenceNotBehind
    <2>3. r.sequence \in 1 .. g.sequence
      BY <1>2, <2>1, <2>2, SMTT(120)
    <2>4. ASSUME NEW i \in DOMAIN r.outputs
          PROVE  /\ r.outputs[i].leaf \in 1 .. Len(g.commitments)
                 /\ g.commitments[r.outputs[i].leaf] = r.outputs[i].commitment
      <3> DEFINE o == r.outputs[i]
                 n == o.leaf
                 m == Len(g.commitments)
      <3>1. o \in ScanOutput
        BY <2>1, SMTT(120)
      <3>2. n \in Nat \ {0}
        BY <3>1 DEF ScanOutput
      <3>3. n <= m /\ g.commitments[n] = o.commitment
        BY <1>1 DEF IndexAccepted
      <3>4. m \in Nat
        BY <1>2, SMTT(120)
      <3> HIDE DEF n, m, o
      <3>5. n \in 1 .. m
        BY <3>2, <3>3, <3>4, SMTT(120)
      <3> QED
        BY <3>3, <3>5 DEF n, m, o
    <2> QED
      BY <2>1, <2>3, <2>4, ZenonT(120) DEF RecordIndexed
  <1>6. \A r, s \in g.records : r.sequence = s.sequence => r = s
    BY <1>1 DEF IndexAccepted
  <1>7. /\ IsInjective(g.commitments) /\ Len(g.commitments) <= MaxLeaves
        /\ g.reserve.withdrawn <= g.reserve.deposited
    BY <1>1 DEF CommitmentsAccepted, ReserveAccepted
  <1>8. height \in Nat
    BY DEF GenesisInv
  <1> QED
    BY ZenonT(120), <1>2, <1>3, <1>4, <1>5, <1>6, <1>7, <1>8 DEF GenesisInv

(* Every step keeps the invariant. *)
LEMMA StepKeepsInv ==
  ASSUME GenesisInv, [GenesisNext]_genesisVars
  PROVE  GenesisInv'
  <1>1. CASE UNCHANGED storeVars /\ height' \in Nat
    BY <1>1 DEF GenesisInv, storeVars
  <1>2. CASE \E spent \in SUBSET LeafValues, outputs \in Seq(LeafValues), deposit, withdraw \in Nat :
               Commit(spent, outputs, deposit, withdraw)
    BY <1>2, CommitKeepsInv
  <1>3. CASE Block
    <2>1. height' = height + 1
      BY <1>3 DEF Block, BeginAuditBlock
    <2>2. height' \in Nat
      BY <2>1, SMTT(120) DEF GenesisInv
    <2> QED
      BY <1>1, <1>3, <2>2 DEF Block
  <1>4. CASE \E e \in Epochs, k \in KeyIDs, h \in 0 .. MaxInt64 : KeyMessage(e, k, h)
    <2>1. height' = height
      BY <1>4 DEF KeyMessage, ScheduleAuditKeyEpoch, CancelPendingAuditEpoch
    <2> QED
      BY <1>1, <1>4, <2>1 DEF KeyMessage, GenesisInv
  <1>5. CASE \E g \in GenesisFile : Import(g)
    BY <1>5, ImportKeepsInv
  <1>6. CASE \E g \in GenesisFile : Refuse(g)
    BY <1>1, <1>6 DEF Refuse, keyVars, GenesisInv
  <1>7. CASE UNCHANGED genesisVars
    BY <1>1, <1>7 DEF genesisVars, keyVars, GenesisInv
  <1> QED
    BY ZenonT(120), <1>2, <1>3, <1>4, <1>5, <1>6, <1>7 DEF GenesisNext

-----------------------------------------------------------------------------
(* The snapshots of an export: one per root, under the root's height. *)
LEMMA ExportedSnapshots ==
  ASSUME GenesisInv
  PROVE  /\ Cardinality(Exported.snapshots) = Len(leaves)
         /\ \A x \in Exported.snapshots :
              x.root \in PrefixesOf(leaves) /\ x.leafCount = Len(x.root) /\ x.height = rootHeight[x.root]
         /\ \A x, y \in Exported.snapshots : x.root = y.root => x = y
         /\ \A r \in PrefixesOf(leaves) : \E x \in Exported.snapshots : x.root = r
  <1> DEFINE snap(r) == [root |-> r, leafCount |-> Len(r), height |-> rootHeight[r]]
             T == {snap(r) : r \in PrefixesOf(leaves)}
             f == [r \in PrefixesOf(leaves) |-> snap(r)]
  <1>1. Exported.snapshots = T
    BY ExportedFields
  <1>2. \A r \in PrefixesOf(leaves) : snap(r).root = r
    OBVIOUS
  <1>3. f \in Bijection(PrefixesOf(leaves), T)
    <2>1. f \in [PrefixesOf(leaves) -> T]
      OBVIOUS
    <2>2. \A a, b \in PrefixesOf(leaves) : f[a] = f[b] => a = b
      BY <1>2
    <2>3. \A x \in T : \E r \in PrefixesOf(leaves) : f[r] = x
      OBVIOUS
    <2> HIDE DEF f, T
    <2> QED
      BY <2>1, <2>2, <2>3 DEF Bijection, Injection, Surjection, IsInjective
  <1>4. ExistsBijection(PrefixesOf(leaves), T)
    BY <1>3 DEF ExistsBijection
  <1>5. IsFiniteSet(PrefixesOf(leaves)) /\ Cardinality(PrefixesOf(leaves)) = Len(leaves)
    BY PrefixCount DEF GenesisInv
  <1>6. Cardinality(T) = Len(leaves)
    <2> HIDE DEF T
    <2> QED
      BY <1>4, <1>5, FS_Bijection
  <1>7. \A x \in T : /\ x.root \in PrefixesOf(leaves) /\ x.leafCount = Len(x.root)
                     /\ x.height = rootHeight[x.root] /\ x = snap(x.root)
    BY SMTT(120)
  <1>8. \A r \in PrefixesOf(leaves) : \E x \in T : x.root = r
    BY <1>2
  <1> HIDE DEF snap, T
  <1> QED
    BY <1>1, <1>6, <1>7, <1>8

(* The import of an unaltered export changes no part of the store. *)
LEMMA ImportExported ==
  ASSUME GenesisInv, Import(Exported)
  PROVE  UNCHANGED storeVars
  <1>1. HeightsImported(Exported) = [r \in PrefixesOf(leaves) |-> rootHeight[r]]
    <2>1. ASSUME NEW r \in PrefixesOf(leaves)
          PROVE  (CHOOSE x \in Exported.snapshots : x.root = r).height = rootHeight[r]
      <3> DEFINE c == CHOOSE x \in Exported.snapshots : x.root = r
      <3>1. c \in Exported.snapshots /\ c.root = r
        BY ExportedSnapshots, ZenonT(120)
      <3> QED
        BY <3>1, ExportedSnapshots
    <2>2. AppendedRoots(Exported) = PrefixesOf(leaves)
      BY ExportedFields DEF AppendedRoots
    <2> DEFINE h(r) == (CHOOSE x \in Exported.snapshots : x.root = r).height
    <2>3. HeightsImported(Exported) = [r \in PrefixesOf(leaves) |-> h(r)]
      BY <2>2, ZenonT(120) DEF HeightsImported
    <2>4. \A r \in PrefixesOf(leaves) : h(r) = rootHeight[r]
      BY <2>1
    <2> HIDE DEF h
    <2> QED
      BY <2>3, <2>4
  <1>2. rootHeight' = rootHeight
    BY <1>1 DEF Import, GenesisInv
  <1> QED
    BY <1>2, ExportedFields DEF Import, SequenceImported, storeVars

(* Every stage of the import accepts an unaltered export. *)
LEMMA ExportPasses ==
  ASSUME GenesisInv, ~AuditLane
  PROVE  \A i \in DOMAIN Stages : Accepts(Exported, Stages[i])
  <1>1. CommitmentsAccepted(Exported)
    BY ExportedFields DEF GenesisInv, CommitmentsAccepted
  <1>2. RootsAccepted(Exported)
    BY ExportedFields DEF RootsAccepted, AppendedRoots
  <1>3. SnapshotsAccepted(Exported)
    BY ExportedFields, ExportedSnapshots DEF SnapshotsAccepted, AppendedRoots
  <1>4. ReserveAccepted(Exported)
    BY ExportedFields DEF GenesisInv, ReserveAccepted
  <1>5. IndexAccepted(Exported)
    <2>1. ASSUME NEW r \in records
          PROVE  /\ r.sequence # 0 /\ sequence >= r.sequence
                 /\ \A i \in DOMAIN r.outputs :
                      /\ r.outputs[i].leaf \in 1 .. Len(leaves)
                      /\ leaves[r.outputs[i].leaf] = r.outputs[i].commitment
      <3>1. sequence \in Nat /\ RecordIndexed(r, leaves, sequence)
        BY DEF GenesisInv
      <3>2. r.sequence \in 1 .. sequence
        BY <3>1 DEF RecordIndexed
      <3>3. r.sequence # 0 /\ sequence >= r.sequence
        BY <3>1, <3>2, SMTT(120)
      <3> QED
        BY <3>1, <3>3 DEF RecordIndexed
    <2>2. \A n \in 1 .. Len(leaves) : n <= Len(leaves)
      BY SMTT(120) DEF GenesisInv
    <2>3. \A r \in Exported.records : r.sequence # 0 /\ Exported.sequence >= r.sequence
      BY <2>1, ExportedFields
    <2>4. ASSUME NEW r \in Exported.records, NEW i \in DOMAIN r.outputs
          PROVE  /\ r.outputs[i].leaf <= Len(Exported.commitments)
                 /\ Exported.commitments[r.outputs[i].leaf] = r.outputs[i].commitment
      BY <2>1, <2>2, ExportedFields
    <2>5. \A r, s \in records : r.sequence = s.sequence => r = s
      BY DEF GenesisInv
    <2>6. Exported.records = records
      BY ExportedFields
    <2> QED
      BY <2>3, <2>4, <2>5, <2>6 DEF IndexAccepted, SequenceNotBehind
  <1>6. Validated(Exported)
    <2>1. \A q \in PrefixesOf(leaves) : Len(q) \in 1 .. Len(leaves) /\ q = SubSeq(leaves, 1, Len(q))
      <3> SUFFICES ASSUME NEW n \in 1 .. Len(leaves)
                   PROVE  Len(SubSeq(leaves, 1, n)) = n
        BY DEF PrefixesOf
      <3>1. n \in 0 .. Len(leaves)
        BY SMTT(120) DEF GenesisInv
      <3> QED
        BY <3>1, PrefixShape DEF GenesisInv
    <2>2. \A x \in Exported.snapshots : x.root \in PrefixesOf(leaves) /\ x.leafCount = Len(x.root)
      BY ExportedSnapshots
    <2>3. \A x, y \in Exported.snapshots : x.leafCount = y.leafCount => x.root = y.root
      BY <2>1, <2>2
    <2>4. \A x \in Exported.snapshots : x.leafCount \in 1 .. Len(leaves)
      BY <2>1, <2>2
    <2>5. \A x, y \in Exported.snapshots : x.root = y.root \/ x.leafCount = y.leafCount => x = y
      BY <2>3, ExportedSnapshots
    <2>6. IsInjective(Exported.commitments)
      BY ExportedFields DEF GenesisInv
    <2> QED
      BY ZenonT(120), <1>4, <1>5, <2>4, <2>5, <2>6, ExportedFields, ExportedSnapshots DEF Validated, SnapshotsListed
  <1> QED
    BY ZenonT(120), <1>1, <1>2, <1>3, <1>4, <1>5, <1>6, AllStages

-----------------------------------------------------------------------------
(* The invariant holds in every reachable state of the chain and its       *)
(* restarts.                                                                *)
THEOREM GenesisSafety == GenesisSpec => []GenesisInv
  <1>1. GenesisInit => GenesisInv
    BY InitInv
  <1>2. GenesisInv /\ [GenesisNext]_genesisVars => GenesisInv'
    BY StepKeepsInv
  <1> QED
    BY <1>1, <1>2, PTL DEF GenesisSpec

(* InitGenesis accepts no file, exported by this chain or not, that leaves  *)
(* a store at odds with itself.                                             *)
THEOREM StoreConsistentSafe == GenesisSpec => []StoreConsistent
  <1>1. GenesisInv => StoreConsistent
    BY InvIsConsistent
  <1> QED
    BY <1>1, GenesisSafety, PTL

(* ExportGenesis followed by InitGenesis is the identity on the store:      *)
(* leaves, roots with their heights, nullifiers, reserve, sequence and      *)
(* records.                                                                 *)
THEOREM RestartSafe == GenesisSpec => RestartKeepsState
  <1>1. GenesisInv => [Import(Exported) => UNCHANGED storeVars]_genesisVars
    BY ImportExported
  <1> QED
    BY <1>1, GenesisSafety, PTL DEF RestartKeepsState

(* Without the audit runtime every stage of InitGenesis accepts what        *)
(* ExportGenesis wrote, after any history of messages and restarts.         *)
THEOREM ExportAcceptedSafe == ~AuditLane => (GenesisSpec => []ExportAccepted)
  <1> SUFFICES ASSUME ~AuditLane PROVE GenesisSpec => []ExportAccepted
    OBVIOUS
  <1>1. GenesisInv => ExportAccepted
    BY ExportPasses DEF ExportAccepted
  <1> QED
    BY <1>1, GenesisSafety, PTL
=============================================================================
