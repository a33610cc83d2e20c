------------------------------ MODULE Genesis ------------------------------
(***************************************************************************)
(* Genesis export and import of x/privacy: the chain commits messages,     *)
(* stops after some block, exports, and restarts from a genesis file at    *)
(* the next height (genesis.go, types/genesis.go,                          *)
(* keeper/genesis_helpers.go, keeper/path_snapshot.go,                     *)
(* keeper/privacy_scan.go, app/audit_init.go).                             *)
(*                                                                         *)
(* A root is the sequence of leaves it commits to.  The import runs in a   *)
(* cache that is published only at the end, so a refused file leaves the   *)
(* chain stopped: `restart` names the stage that refused it.               *)
(***************************************************************************)
EXTENDS AuditKeys, Sequences, FiniteSets, SequencesExt

CONSTANTS AuditLane,   \* k.audit # nil: the app's own configuration
          MaxLeaves,   \* MaxMerkleLeaves
          LeafValues   \* commitments

ASSUME GenesisAssumption == AuditLane \in BOOLEAN /\ MaxLeaves \in Nat

VARIABLES leaves,      \* Leaf/<index>
          rootHeight,  \* HistoricalRoot/<root>: height, with its root snapshot
          nullifiers,  \* Nullifier/<nullifier>
          reserve,     \* ReserveDeposit and ReserveWithdraw of the one denom
          sequence,    \* PrivacyGlobalSequence
          records,     \* privacy events with their scan summary and outputs
          restart,     \* "running", or the import stage that refused the file
          restarts     \* accepted imports so far

storeVars == <<leaves, rootHeight, nullifiers, reserve, sequence, records>>
genesisVars == <<keyVars, storeVars, restart, restarts>>

PrefixesOf(s) == {SubSeq(s, 1, n) : n \in 1 .. Len(s)}

(* A scan output names its leaf; a record has the outputs of one message.   *)
ScanOutput == [leaf : Nat \ {0}, commitment : LeafValues]

ScanRecord == [sequence : Nat, height : Nat, outputs : Seq(ScanOutput)]

RootSnapshot == [root : Seq(LeafValues), leafCount : Nat, height : Nat]

(* The files a restart may be given, exported by this chain or not.         *)
GenesisFile ==
    [commitments : Seq(LeafValues),
     roots       : SUBSET Seq(LeafValues),
     snapshots   : SUBSET RootSnapshot,
     nullifiers  : SUBSET LeafValues,
     reserve     : [deposited : Nat, withdrawn : Nat],
     sequence    : Nat,
     records     : SUBSET ScanRecord,
     keys        : KeyFile]

GenesisInit ==
    /\ KeyInit
    /\ leaves = <<>>
    /\ rootHeight = << >>
    /\ nullifiers = {}
    /\ reserve = [deposited |-> 0, withdrawn |-> 0]
    /\ sequence = 0
    /\ records = {}
    /\ restart = "running"
    /\ restarts = 0

-----------------------------------------------------------------------------
(* What an accepted message of either lane writes: nullifiers, leaves with  *)
(* a root after each, reserve counters, and one record under the next       *)
(* global sequence.                                                         *)
Commit(spent, outputs, deposit, withdraw) ==
    /\ restart = "running" /\ Delivering
    /\ spent \subseteq Range(leaves) \ nullifiers
    /\ IsInjective(outputs) /\ Range(outputs) \cap Range(leaves) = {}
    /\ Len(leaves) + Len(outputs) <= MaxLeaves
    /\ reserve.withdrawn + withdraw <= reserve.deposited + deposit
    /\ nullifiers' = nullifiers \cup spent
    /\ leaves' = leaves \o outputs
    /\ rootHeight' = [r \in DOMAIN rootHeight \cup PrefixesOf(leaves \o outputs) |->
                        IF r \in DOMAIN rootHeight THEN rootHeight[r] ELSE height]
    /\ reserve' = [deposited |-> reserve.deposited + deposit, withdrawn |-> reserve.withdrawn + withdraw]
    /\ sequence' = sequence + 1
    /\ records' = records \cup
         {[sequence |-> sequence + 1, height |-> height,
           outputs |-> [i \in DOMAIN outputs |-> [leaf |-> Len(leaves) + i, commitment |-> outputs[i]]]]}
    /\ UNCHANGED <<keyVars, restart, restarts>>

(* The next block; key messages exist only in the audit lane. *)
Block == restart = "running" /\ BeginAuditBlock /\ UNCHANGED <<storeVars, restart, restarts>>

KeyMessage(e, k, h) ==
    /\ restart = "running" /\ AuditLane
    /\ ScheduleAuditKeyEpoch(e, k, h) \/ CancelPendingAuditEpoch(e)
    /\ UNCHANGED <<storeVars, restart, restarts>>

-----------------------------------------------------------------------------
(* ExportGenesis with ExportAuditGenesisMetadata: snapshots are listed per  *)
(* root, with the height kept under the historical root.                    *)
Exported ==
    [commitments |-> leaves,
     roots       |-> DOMAIN rootHeight,
     snapshots   |-> {[root |-> r, leafCount |-> Len(r), height |-> rootHeight[r]] : r \in PrefixesOf(leaves)},
     nullifiers  |-> nullifiers,
     reserve     |-> reserve,
     sequence    |-> sequence,
     records     |-> records,
     keys        |-> ExportedKeys]

(* The store after InitGenesisCommitments appended g's commitments. *)
AppendedRoots(g) == PrefixesOf(g.commitments)

(* InitGenesisCommitments: room for all of them, no two the same. *)
CommitmentsAccepted(g) ==
    /\ Len(g.commitments) <= MaxLeaves
    /\ IsInjective(g.commitments)

(* InitGenesisHistoricalRoots: as many roots as prefixes, each of a prefix. *)
RootsAccepted(g) ==
    /\ Cardinality(g.roots) = Cardinality(AppendedRoots(g))
    /\ g.roots \subseteq AppendedRoots(g)

(* InitGenesisMerkleRootSnapshotsV1 refuses whenever the audit runtime is   *)
(* configured; otherwise one snapshot per prefix with its leaf count.       *)
SnapshotsAccepted(g) ==
    /\ ~AuditLane
    /\ Cardinality(g.snapshots) = Len(g.commitments)
    /\ \A s \in g.snapshots : s.root \in AppendedRoots(g) /\ s.leafCount = Len(s.root)
    /\ \A s, t \in g.snapshots : s.root = t.root => s = t

(* InitGenesisReserveBalancesV1: no negative liability. *)
ReserveAccepted(g) == g.reserve.withdrawn <= g.reserve.deposited

(* validateGenesisPrivacyIndexV2, and again InitGenesisPrivacyIndexV2 while *)
(* it writes: every output at the leaf it names, no sequence number zero or *)
(* used twice, and the counter not behind them.                             *)
SequenceAhead(g) == \A r \in g.records : g.sequence > r.sequence

SequenceNotBehind(g) == \A r \in g.records : g.sequence >= r.sequence

IndexAccepted(g) ==
    /\ \A r \in g.records : r.sequence # 0
    /\ \A r \in g.records : \A i \in DOMAIN r.outputs :
         /\ r.outputs[i].leaf <= Len(g.commitments)
         /\ g.commitments[r.outputs[i].leaf] = r.outputs[i].commitment
    /\ \A r, s \in g.records : r.sequence = s.sequence => r = s
    /\ SequenceNotBehind(g)

(* validateGenesisRootSnapshotsV1: one snapshot for each leaf count, the    *)
(* roots not looked at but for being distinct.                              *)
SnapshotsListed(g) ==
    /\ Cardinality(g.snapshots) = Len(g.commitments)
    /\ \A s \in g.snapshots : s.leafCount \in 1 .. Len(g.commitments)
    /\ \A s, t \in g.snapshots : s.root = t.root \/ s.leafCount = t.leafCount => s = t

(* GenesisState.Validate: the file against itself, before anything is       *)
(* written.                                                                 *)
Validated(g) ==
    /\ IsInjective(g.commitments)
    /\ IndexAccepted(g) /\ SnapshotsListed(g) /\ ReserveAccepted(g)

(* initPrivacyChain and InitGenesis: the stages in their order. *)
Stages == <<"validate", "metadata", "commitments", "roots", "snapshots", "reserve", "index">>

Accepts(g, stage) ==
    CASE stage = "validate"    -> Validated(g)
      [] stage = "metadata"    -> AuditLane => MetadataAccepted(g.keys)
      [] stage = "commitments" -> CommitmentsAccepted(g)
      [] stage = "roots"       -> RootsAccepted(g)
      [] stage = "snapshots"   -> SnapshotsAccepted(g)
      [] stage = "reserve"     -> ReserveAccepted(g)
      [] stage = "index"       -> IndexAccepted(g)

(* The import replaces the height of each appended root by the exported one. *)
HeightsOfAppend(g) == [r \in AppendedRoots(g) |-> RestartHeight]

HeightsImported(g) == [r \in AppendedRoots(g) |-> (CHOOSE s \in g.snapshots : s.root = r).height]

SequenceRestarted(g) == 0

SequenceImported(g) == g.sequence

(* With the audit runtime no file passes the snapshot stage, so an accepted *)
(* file has no key store to install.                                        *)
Import(g) ==
    /\ restart = "running" /\ Delivering
    /\ \A i \in DOMAIN Stages : Accepts(g, Stages[i])
    /\ leaves' = g.commitments
    /\ rootHeight' = HeightsImported(g)
    /\ nullifiers' = g.nullifiers
    /\ reserve' = g.reserve
    /\ sequence' = SequenceImported(g)
    /\ records' = g.records
    /\ restarts' = restarts + 1
    /\ UNCHANGED <<keyVars, restart>>

Refuse(g) ==
    /\ restart = "running" /\ Delivering
    /\ \E i \in DOMAIN Stages :
         /\ ~Accepts(g, Stages[i])
         /\ \A j \in 1 .. i - 1 : Accepts(g, Stages[j])
         /\ restart' = Stages[i]
    /\ UNCHANGED <<keyVars, storeVars, restarts>>

GenesisNext ==
    \/ \E spent \in SUBSET LeafValues, outputs \in Seq(LeafValues), deposit, withdraw \in Nat :
         Commit(spent, outputs, deposit, withdraw)
    \/ Block
    \/ \E e \in Epochs, k \in KeyIDs, h \in 0 .. MaxInt64 : KeyMessage(e, k, h)
    \/ \E g \in GenesisFile : Import(g) \/ Refuse(g)

GenesisSpec == GenesisInit /\ [][GenesisNext]_genesisVars

-----------------------------------------------------------------------------
(* Whatever file a restart accepts, exported by this chain, altered or made *)
(* up of parts of several exports, the store it leaves agrees with itself:  *)
(* a historical root with a height for each prefix and no other, no leaf    *)
(* twice, every scan output at the leaf it names, no sequence number used   *)
(* by two records, none above the counter, and no more withdrawn than       *)
(* deposited.  Nullifiers are taken as they are.                            *)
StoreConsistent ==
    /\ IsInjective(leaves) /\ Len(leaves) <= MaxLeaves
    /\ reserve.withdrawn <= reserve.deposited
    /\ DOMAIN rootHeight = PrefixesOf(leaves)
    /\ \A r \in DOMAIN rootHeight : rootHeight[r] \in Nat
    /\ \A r \in records :
         /\ r.sequence <= sequence
         /\ \A i \in DOMAIN r.outputs :
              /\ r.outputs[i].leaf \in DOMAIN leaves
              /\ leaves[r.outputs[i].leaf] = r.outputs[i].commitment
    /\ \A r, s \in records : r.sequence = s.sequence => r = s

(* An export imported unaltered gives back every part of the state: leaves  *)
(* in their order, each root with the height it was first stored at,        *)
(* nullifiers, counters, sequence and records.                              *)
RestartKeepsState == [][Import(Exported) => UNCHANGED storeVars]_genesisVars

(* An unaltered export passes every stage of the import at the restart      *)
(* height, after whatever history of messages, blocks and restarts          *)
(* (InitGenesis, initPrivacyChain).                                         *)
ExportAccepted ==
    (restart = "running" /\ Delivering) => \A i \in DOMAIN Stages : Accepts(Exported, Stages[i])
=============================================================================
