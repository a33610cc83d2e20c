---------------------------- MODULE DurableStore ----------------------------
(***************************************************************************)
(* The two backends that keep the reservation store beyond a process:      *)
(* DurableFileStore, a JSON snapshot rewritten under an advisory file      *)
(* lock, and SQLStore, the same content in tables rewritten in one         *)
(* transaction.  Both run the methods of MemoryStore (Apply) on a copy of  *)
(* the content they loaded.                                                *)
(*                                                                         *)
(* A DurableFileStore call takes the lock twice: once to read the snapshot *)
(* and once to compare it with the file and replace it.  Several processes *)
(* share the file.  A rename is seen by every reader at once but survives  *)
(* a crash of the machine only once the directory entry is written back:   *)
(* `pending` holds the snapshots renamed into place since the stable one.  *)
(***************************************************************************)
EXTENDS Sequences

CONSTANTS Processes,     \* store handles; each runs one call at a time (s.mu)
          Calls,         \* the mutating calls made, each made once
          Contents,      \* what the store can hold
          Empty,         \* the content of a new store
          Apply(_, _),   \* MemoryStore: the content a call leaves, {} when it is refused
          None

ASSUME ContentsAssumption ==
    /\ Empty \in Contents
    /\ \A c \in Calls, s \in Contents : Apply(c, s) \subseteq Contents
    /\ None \notin Processes \cup Calls

VARIABLES stable,     \* the content that survives a crash of the machine
          applied,    \* the calls whose change is in it
          answer,     \* for each call: "new", "open", or what its caller was told
          backend,    \* "file" or "sql"
          pending,    \* renamed, not yet written back: <<[call, content], ...>>
          lock,       \* the process that holds the file lock or the lock row, or None
          proc        \* per process: pc, the call it runs, and s.memory before the call

durableVars == <<stable, applied, answer, backend, pending, lock, proc>>

Idle == [pc |-> "idle", call |-> None, before |-> Empty]

DurableInit ==
    /\ stable = Empty
    /\ applied = {}
    /\ answer = [c \in Calls |-> "new"]
    /\ backend \in {"file", "sql"}
    /\ pending = <<>>
    /\ lock = None
    /\ proc = [p \in Processes |-> Idle]

Stands(p, kind, pc) == backend = kind /\ proc[p].pc = pc

Continue(p, pc) == proc' = [proc EXCEPT ![p].pc = pc]

(* The call returns: the caller gets its answer and the handle is free. *)
Return(p, told) ==
    /\ answer' = [answer EXCEPT ![proc[p].call] = told]
    /\ proc' = [proc EXCEPT ![p] = Idle]

Begin(p, c) ==
    /\ proc[p] = Idle
    /\ answer[c] = "new"
    /\ answer' = [answer EXCEPT ![c] = "open"]
    /\ proc' = [proc EXCEPT ![p] = [pc |-> "begin", call |-> c, before |-> Empty]]
    /\ UNCHANGED <<stable, applied, backend, pending, lock>>

(* readDurableFileStoreSnapshot: the file every process sees. *)
OnDisk == IF pending = <<>> THEN stable ELSE pending[Len(pending)].content

(* refreshLocked and the method of MemoryStore: the copy is read under the  *)
(* file lock, which is given back before the method runs on it.             *)
Refresh(p) ==
    /\ Stands(p, "file", "begin")
    /\ lock = None
    /\ \/ /\ Apply(proc[p].call, OnDisk) # {}
          /\ proc' = [proc EXCEPT ![p].pc = "mutated", ![p].before = OnDisk]
          /\ UNCHANGED answer
       \/ /\ Apply(proc[p].call, OnDisk) = {}
          /\ Return(p, "refused")
    /\ UNCHANGED <<stable, applied, backend, pending, lock>>

(* Any step before the rename fails: the context is done, the lock cannot   *)
(* be opened, the snapshot does not parse, the temporary file cannot be     *)
(* written.  Memory is put back and the lock, if held, is released.         *)
FileErrorKeepingLock(p) ==
    /\ \E pc \in {"begin", "mutated", "writing"} : Stands(p, "file", pc)
    /\ Return(p, "error")
    /\ UNCHANGED <<stable, applied, backend, pending, lock>>

FileError(p) ==
    /\ \E pc \in {"begin", "mutated", "writing"} : Stands(p, "file", pc)
    /\ Return(p, "error")
    /\ lock' = IF lock = p THEN None ELSE lock
    /\ UNCHANGED <<stable, applied, backend, pending>>

(* ensureOnDiskSnapshotMatchesLocked under the lock of persistMutationLocked. *)
AlwaysMatches(p) == TRUE

OnDiskSnapshotMatches(p) == proc[p].before = OnDisk

PersistMutation(p) ==
    /\ Stands(p, "file", "mutated")
    /\ lock = None
    /\ \/ /\ OnDiskSnapshotMatches(p)
          /\ lock' = p
          /\ Continue(p, "writing")
          /\ UNCHANGED answer
       \/ /\ ~OnDiskSnapshotMatches(p)
          /\ Return(p, "conflict")
          /\ UNCHANGED lock
    /\ UNCHANGED <<stable, applied, backend, pending>>

(* os.Rename of the synced temporary file. *)
Rename(p) ==
    /\ Stands(p, "file", "writing")
    /\ \E new \in Apply(proc[p].call, proc[p].before) :
         pending' = Append(pending, [call |-> proc[p].call, content |-> new])
    /\ Continue(p, "renamed")
    /\ UNCHANGED <<stable, applied, answer, backend, lock>>

(* directory.Sync() and unlock(): the sync waits until every earlier rename *)
(* is written back as well.  An error there reaches the caller although the *)
(* snapshot is already in place.                                            *)
DirectorySynced == pending = <<>>

SyncDirectory(p) ==
    /\ Stands(p, "file", "renamed")
    /\ \/ DirectorySynced /\ Return(p, "ok")
       \/ Return(p, "error")
    /\ lock' = None
    /\ UNCHANGED <<stable, applied, backend, pending>>

(* The file system writes the oldest rename back, on its own or for a sync. *)
WriteBack ==
    /\ pending # <<>>
    /\ stable' = Head(pending).content
    /\ applied' = applied \cup {Head(pending).call}
    /\ pending' = Tail(pending)
    /\ UNCHANGED <<answer, backend, lock, proc>>

-----------------------------------------------------------------------------
(* withMemoryWrite: begin the transaction and take the lock row, ... *)
LockRowFree(p) == lock = None

LockStoreTx(p) ==
    /\ Stands(p, "sql", "begin")
    /\ LockRowFree(p)
    /\ lock' = p
    /\ Continue(p, "locked")
    /\ UNCHANGED <<stable, applied, answer, backend, pending>>

(* ... load every table and run the method, ... *)
LoadMemoryTx(p) ==
    /\ Stands(p, "sql", "locked")
    /\ \/ /\ Apply(proc[p].call, stable) # {}
          /\ proc' = [proc EXCEPT ![p].pc = "mutated", ![p].before = stable]
          /\ UNCHANGED <<answer, lock>>
       \/ /\ Apply(proc[p].call, stable) = {}
          /\ Return(p, "refused")
          /\ lock' = None
    /\ UNCHANGED <<stable, applied, backend, pending>>

(* ... rewrite the tables (persistMemoryTx, private to the transaction) and *)
(* commit.  When Commit fails the server may have committed or not.         *)
Commit(p) ==
    /\ Stands(p, "sql", "mutated")
    /\ \/ \E new \in Apply(proc[p].call, proc[p].before), told \in {"ok", "error"} :
            /\ stable' = new
            /\ applied' = applied \cup {proc[p].call}
            /\ Return(p, told)
       \/ /\ Return(p, "error")
          /\ UNCHANGED <<stable, applied>>
    /\ lock' = None
    /\ UNCHANGED <<backend, pending>>

(* A statement fails and the transaction is rolled back. *)
Rollback(p) ==
    /\ \E pc \in {"begin", "locked", "mutated"} : Stands(p, "sql", pc)
    /\ Return(p, "error")
    /\ lock' = IF lock = p THEN None ELSE lock
    /\ UNCHANGED <<stable, applied, backend, pending>>

-----------------------------------------------------------------------------
(* A process dies: its caller never learns the outcome, the kernel drops    *)
(* the file lock, the database rolls the transaction back.                  *)
Crash(p) ==
    /\ proc[p] # Idle
    /\ Return(p, "lost")
    /\ lock' = IF lock = p THEN None ELSE lock
    /\ UNCHANGED <<stable, applied, backend, pending>>

(* The machine stops: every process dies and the renames not yet written    *)
(* back are gone.                                                           *)
MachineCrash ==
    /\ \E p \in Processes : proc[p] # Idle
    /\ answer' = [c \in Calls |-> IF answer[c] = "open" THEN "lost" ELSE answer[c]]
    /\ proc' = [p \in Processes |-> Idle]
    /\ lock' = None
    /\ pending' = <<>>
    /\ UNCHANGED <<stable, applied, backend>>

Step(p) ==
    \/ Refresh(p) \/ PersistMutation(p) \/ Rename(p) \/ SyncDirectory(p)
    \/ LockStoreTx(p) \/ LoadMemoryTx(p) \/ Commit(p)

DurableNext ==
    \/ \E p \in Processes :
         \/ \E c \in Calls : Begin(p, c)
         \/ Step(p) \/ FileError(p) \/ Rollback(p) \/ Crash(p)
    \/ WriteBack
    \/ MachineCrash

(* A process that runs goes on with its call; Flock and the row lock are    *)
(* granted to a waiting process sooner or later.                            *)
DurableFairness == \A p \in Processes : SF_durableVars(Step(p))

DurableSpec == DurableInit /\ [][DurableNext]_durableVars /\ DurableFairness

-----------------------------------------------------------------------------
(* Both backends are an AtomicStore: whatever the interleaving of processes *)
(* and wherever one of them, or the machine, stops, a call takes effect     *)
(* whole and once, on the content left by the others (no lost update), an   *)
(* answer "ok" means the change survives, and an answer "conflict" means    *)
(* it never happens.                                                        *)
Store == INSTANCE AtomicStore WITH content <- stable

ImplementsAtomicStore == Store!AtomicSpec

(* No call waits for ever: the lock taken twice by a file call and once by  *)
(* a transaction is given back on every path, the failing ones included.    *)
EveryCallAnswered == \A c \in Calls : answer[c] = "open" ~> answer[c] # "open"
=============================================================================
