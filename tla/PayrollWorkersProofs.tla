----------------------- MODULE PayrollWorkersProofs ------------------------
(***************************************************************************)
(* Proofs about PayrollWorkers, for any number of proof workers,           *)
(* broadcasters, daemons and sweepers, any notes and operations, any       *)
(* number of faults and any lag of the callers' clocks.                    *)
(*                                                                         *)
(* The first part follows the jobs of the processes: what a job remembers  *)
(* is still so in the stores.  The second follows the leases: whose        *)
(* message is sent under a token.                                          *)
(***************************************************************************)
EXTENDS PayrollWorkers, TLAPS

(* The provers tried on a leaf that names none, and their time limits. *)
USE ZenonT(120), SMTT(120)

(* The statuses from which no process takes a note back. *)
Advanced(rs) == {r \in DOMAIN rs : rs[r].status \in {"ProofReady", "Submitted", "Unknown"}}

IsFunction(f) == f = [x \in DOMAIN f |-> f[x]]

IsReservation(rec) ==
    IsFunction(rec) /\ DOMAIN rec = {"status", "key", "op", "token", "until", "tx"}

IsOperation(rec) == IsFunction(rec) /\ DOMAIN rec = {"status", "tx", "expected"}

IsResult(rec) == IsFunction(rec) /\ DOMAIN rec = {"msg", "refs"}

IsJob(j) ==
    /\ IsFunction(j)
    /\ DOMAIN j = {"pc", "op", "notes", "refs", "done", "taken", "cancelled", "msg", "outcome"}

(* The job that a process without work has. *)
LEMMA NoJobShape ==
  /\ IsJob(NoJob) /\ NoJob.pc = "idle" /\ NoJob.notes = {} /\ NoJob.done = {}
  /\ IsFunction(NoJob.refs) /\ DOMAIN NoJob.refs = {}
<1>1. IsJob(NoJob)
  BY DEF IsJob, IsFunction, NoJob
<1>2. NoJob.pc = "idle" /\ NoJob.notes = {} /\ NoJob.done = {} /\ NoJob.refs = NoRefs
  BY DEF NoJob
<1> QED BY <1>1, <1>2 DEF IsFunction, NoRefs

ProofPC == {"lease", "move", "prove", "save", "mark"}

SendPC == {"hold", "check", "send", "returned"}

(* What a job remembers is still so in the store rs, with results saved for *)
(* the operations saved: its notes belong to its operation, once it is past *)
(* saving or broadcasts a result is there, and the notes it checked for the *)
(* broadcast are ProofReady or beyond.                                      *)
JobOK(j, rs, saved) ==
    /\ IsJob(j) /\ IsFunction(j.refs)
    /\ j.notes \subseteq DOMAIN rs
    /\ j.pc \notin {"idle", "release"} => DOMAIN j.refs \subseteq j.notes
    /\ j.pc \in ProofPC \cup SendPC => \A r \in j.notes : rs[r].op = j.op
    /\ j.pc \in SendPC \cup {"mark", "links"} => j.op \in saved
    /\ j.pc \in {"links", "hold"} => DOMAIN j.refs = j.notes
    /\ j.pc = "links" => j.done = {}
    /\ j.pc = "hold" => j.done \subseteq Advanced(rs)
    /\ j.pc \in SendPC \ {"hold"} => j.notes \subseteq Advanced(rs)

RecordsOK(rs, ops) ==
    /\ IsFunction(rs) /\ \A r \in DOMAIN rs : IsReservation(rs[r])
    /\ IsFunction(ops) /\ \A o \in DOMAIN ops : IsOperation(ops[o])

ResultsOK(res, rs) ==
    /\ IsFunction(res)
    /\ \A o \in DOMAIN res :
         /\ IsResult(res[o]) /\ IsFunction(res[o].refs)
         /\ \A r \in DOMAIN res[o].refs : r \in DOMAIN rs /\ rs[r].op = o

(* The inductive invariant of the workers. *)
WorkInv ==
    /\ RecordsOK(reservations, operations)
    /\ ResultsOK(results, reservations)
    /\ IsFunction(job) /\ DOMAIN job = Actors
    /\ \A a \in Actors : JobOK(job[a], reservations, DOMAIN results)
    /\ handed \subseteq Advanced(reservations)
    /\ ArtifactBeforeStatus

(* What every call of a worker leaves of the store: the same reservations,  *)
(* of the same operations, and none taken back.                             *)
Grown(rs, rt) ==
    /\ DOMAIN rt = DOMAIN rs
    /\ \A r \in DOMAIN rs : rt[r].op = rs[r].op
    /\ Advanced(rs) \subseteq Advanced(rt)

-----------------------------------------------------------------------------
(* A job stays right when the store only grows. *)
LEMMA JobKept ==
    ASSUME NEW j, NEW rs, NEW rt, NEW saved, NEW more,
           JobOK(j, rs, saved), Grown(rs, rt), saved \subseteq more
    PROVE  JobOK(j, rt, more)
BY DEF JobOK, Grown

(* One process goes on to the job j, and the store only grows. *)
LEMMA OneJob ==
    ASSUME WorkInv, NEW a \in Actors, NEW j, Do(a, j), Grown(reservations, reservations'),
           DOMAIN results \subseteq DOMAIN results', JobOK(j, reservations', DOMAIN results')
    PROVE  /\ IsFunction(job') /\ DOMAIN job' = Actors
           /\ \A x \in Actors : JobOK(job'[x], reservations', DOMAIN results')
<1>1. job' = [job EXCEPT ![a] = j] /\ DOMAIN job = Actors
  BY DEF Do, WorkInv
<1>2. IsFunction(job') /\ DOMAIN job' = Actors
  BY <1>1 DEF IsFunction
<1>3. ASSUME NEW x \in Actors PROVE JobOK(job'[x], reservations', DOMAIN results')
  <2>1. CASE x = a
    BY <1>1, <2>1
  <2>2. CASE x # a
    <3>1. job'[x] = job[x]
      BY <1>1, <2>2
    <3>2. JobOK(job[x], reservations, DOMAIN results)
      BY DEF WorkInv
    <3>3. JobOK(job[x], reservations', DOMAIN results')
      BY <3>2, JobKept
    <3> QED BY <3>1, <3>3
  <2> QED BY <2>1, <2>2
<1> QED BY <1>2, <1>3

(* All jobs stay right when the store only grows. *)
LEMMA SameJobs ==
    ASSUME WorkInv, job' = job, Grown(reservations, reservations'), results' = results
    PROVE  /\ IsFunction(job') /\ DOMAIN job' = Actors
           /\ \A x \in Actors : JobOK(job'[x], reservations', DOMAIN results')
BY JobKept DEF WorkInv

(* Saved results stay right, too. *)
LEMMA ResultsKept ==
    ASSUME NEW res, NEW rs, NEW rt, ResultsOK(res, rs), Grown(rs, rt)
    PROVE  ResultsOK(res, rt)
BY DEF ResultsOK, Grown

(* Writing records of reservations that exist changes those and no other.   *)
LEMMA Written ==
    ASSUME NEW upd, WorkInv, StoreReservations(upd), DOMAIN upd \subseteq DOMAIN reservations
    PROVE  /\ IsFunction(reservations') /\ DOMAIN reservations' = DOMAIN reservations
           /\ \A r \in DOMAIN upd : reservations'[r] = upd[r]
           /\ \A r \in DOMAIN reservations \ DOMAIN upd : reservations'[r] = reservations[r]
<1>1. reservations' = Updated(reservations, upd)
  BY DEF StoreReservations
<1> QED BY <1>1 DEF Updated, IsFunction

(* Every call writes records of reservations that exist, of the same        *)
(* operation, and takes none back.                                          *)
LEMMA WrittenGrows ==
    ASSUME NEW upd, WorkInv, StoreReservations(upd), DOMAIN upd \subseteq DOMAIN reservations,
           \A r \in DOMAIN upd :
              /\ IsReservation(upd[r]) /\ upd[r].op = reservations[r].op
              /\ r \in Advanced(reservations) => upd[r].status \in {"ProofReady", "Submitted", "Unknown"}
    PROVE  /\ Grown(reservations, reservations')
           /\ IsFunction(reservations') /\ \A r \in DOMAIN reservations' : IsReservation(reservations'[r])
<1>1. /\ IsFunction(reservations') /\ DOMAIN reservations' = DOMAIN reservations
      /\ \A r \in DOMAIN upd : reservations'[r] = upd[r]
      /\ \A r \in DOMAIN reservations \ DOMAIN upd : reservations'[r] = reservations[r]
  BY Written
<1>2. \A r \in DOMAIN reservations : IsReservation(reservations[r])
  BY DEF WorkInv, RecordsOK
<1>3. \A r \in DOMAIN reservations' : IsReservation(reservations'[r])
  BY <1>1, <1>2
<1>4. \A r \in DOMAIN reservations : reservations'[r].op = reservations[r].op
  BY <1>1
<1>5. Advanced(reservations) \subseteq Advanced(reservations')
  BY <1>1 DEF Advanced
<1> QED BY <1>1, <1>3, <1>4, <1>5 DEF Grown

(* A call of the store that keeps what the workers rely on. *)
StoreOK ==
    /\ Grown(reservations, reservations')
    /\ RecordsOK(reservations', operations')
    /\ \A o \in DOMAIN operations' : operations'[o].status # "Planned" => o \in DOMAIN results

(* A call that writes one record. *)
LEMMA OneRecord ==
    ASSUME WorkInv, NEW r \in DOMAIN reservations, NEW rec, StoreReservations([x \in {r} |-> rec]),
           IsReservation(rec), rec.op = reservations[r].op,
           r \in Advanced(reservations) => rec.status \in {"ProofReady", "Submitted", "Unknown"},
           UNCHANGED operations
    PROVE  StoreOK
<1> DEFINE upd == [x \in {r} |-> rec]
<1>1. /\ Grown(reservations, reservations')
      /\ IsFunction(reservations') /\ \A x \in DOMAIN reservations' : IsReservation(reservations'[x])
  BY WrittenGrows
<1> QED BY <1>1 DEF StoreOK, RecordsOK, WorkInv, ArtifactBeforeStatus

(* The store as it is. *)
LEMMA NoCall ==
    ASSUME WorkInv, StoreUnchanged
    PROVE  StoreOK /\ operations' = operations
BY DEF StoreUnchanged, storeVars, StoreOK, WorkInv, Grown, ArtifactBeforeStatus

(* AcquireLeaseForStatus *)
LEMMA TakeLeaseOK ==
    ASSUME WorkInv, NEW a, NEW now, NEW r \in DOMAIN reservations, TakeLease(a, r, now)
    PROVE  StoreOK /\ operations' = operations
<1> DEFINE rec == [reservations[r] EXCEPT !.token = FreshToken(a, r), !.until = now + TTL]
<1>1. StoreReservations([x \in {r} |-> rec]) /\ operations' = operations
  BY DEF TakeLease
<1>2. IsReservation(reservations[r])
  BY DEF WorkInv, RecordsOK
<1>3. IsReservation(rec) /\ rec.op = reservations[r].op /\ rec.status = reservations[r].status
  BY <1>2 DEF IsReservation, IsFunction
<1> HIDE DEF rec
<1> QED BY <1>1, <1>3, OneRecord DEF Advanced

(* HeartbeatLeaseForStatus *)
LEMMA HeartbeatOK ==
    ASSUME WorkInv, NEW r, NEW token, NEW now, HeartbeatLease(r, token, now, TTL)
    PROVE  StoreOK /\ operations' = operations
<1> DEFINE rec == [reservations[r] EXCEPT !.until = now + TTL]
<1>1. /\ r \in DOMAIN reservations
      /\ StoreReservations([x \in {r} |-> rec]) /\ operations' = operations
  BY DEF HeartbeatLease
<1>2. IsReservation(reservations[r])
  BY <1>1 DEF WorkInv, RecordsOK
<1>3. IsReservation(rec) /\ rec.op = reservations[r].op /\ rec.status = reservations[r].status
  BY <1>2 DEF IsReservation, IsFunction
<1> HIDE DEF rec
<1> QED BY <1>1, <1>3, OneRecord DEF Advanced

(* ClearReservationLease *)
LEMMA ClearLeaseOK ==
    ASSUME WorkInv, NEW r, NEW token, NEW now, ClearReservationLease(r, token, now)
    PROVE  StoreOK /\ operations' = operations
<1> DEFINE rec == ClearLease(reservations[r])
<1>1. /\ r \in DOMAIN reservations
      /\ StoreReservations([x \in {r} |-> rec]) /\ operations' = operations
  BY DEF ClearReservationLease
<1>2. IsReservation(reservations[r])
  BY <1>1 DEF WorkInv, RecordsOK
<1>3. IsReservation(rec) /\ rec.op = reservations[r].op /\ rec.status = reservations[r].status
  BY <1>2 DEF IsReservation, IsFunction, ClearLease
<1> HIDE DEF rec
<1> QED BY <1>1, <1>3, OneRecord DEF Advanced

(* A note that is still before ProofReady is moved. *)
LEMMA MoveOK ==
    ASSUME WorkInv, NEW r, NEW from \in {"Reserved", "Proving"}, NEW to, CanMove(r, from, to),
           StoreReservations([x \in {r} |-> Moved(reservations[r], to)]), UNCHANGED operations
    PROVE  StoreOK /\ operations' = operations
<1> DEFINE rec == Moved(reservations[r], to)
<1>1. r \in DOMAIN reservations /\ r \notin Advanced(reservations)
  BY DEF CanMove, Advanced
<1>2. IsReservation(reservations[r])
  BY <1>1 DEF WorkInv, RecordsOK
<1>3. IsReservation(rec) /\ rec.op = reservations[r].op
  BY <1>2 DEF IsReservation, IsFunction, Moved, ClearLease
<1> HIDE DEF rec
<1> QED BY <1>1, <1>3, OneRecord DEF rec

-----------------------------------------------------------------------------
(* The invariant after a step of one process that records nothing outside   *)
(* the store.                                                               *)
LEMMA JobStep ==
    ASSUME WorkInv, NEW a \in Actors, NEW j, Do(a, j), StoreOK,
           results' = results, handed' = handed, JobOK(j, reservations', DOMAIN results)
    PROVE  WorkInv'
<1>1. Grown(reservations, reservations') /\ RecordsOK(reservations', operations')
  BY DEF StoreOK
<1>2. /\ IsFunction(job') /\ DOMAIN job' = Actors
      /\ \A x \in Actors : JobOK(job'[x], reservations', DOMAIN results')
  BY <1>1, OneJob
<1>3. ResultsOK(results', reservations')
  BY <1>1, ResultsKept DEF WorkInv
<1>4. handed' \subseteq Advanced(reservations')
  BY <1>1 DEF WorkInv, Grown
<1>5. ArtifactBeforeStatus'
  BY DEF StoreOK, ArtifactBeforeStatus
<1> QED BY <1>1, <1>2, <1>3, <1>4, <1>5 DEF WorkInv

(* A process that has no job left. *)
LEMMA NoJobOK == \A rs, saved : JobOK(NoJob, rs, saved)
BY DEF JobOK, NoJob, IsJob, IsFunction, NoRefs, ProofPC, SendPC

(* A process ends its job. *)
LEMMA IdleStep ==
    ASSUME WorkInv, NEW a \in Actors, Idle(a), StoreOK,
           results' = results, handed' = handed
    PROVE  WorkInv'
BY NoJobOK, JobStep DEF Idle

(* A process goes on to a label at which it may forget what it checked. *)
LEMMA GotoStep ==
    ASSUME WorkInv, NEW a \in Actors, NEW pc \in {"undo", "clear"}, Goto(a, pc),
           job[a].pc \notin {"idle", "release"}, StoreOK, results' = results, handed' = handed
    PROVE  WorkInv'
<1> DEFINE j == [job[a] EXCEPT !.pc = pc]
<1>1. JobOK(job[a], reservations, DOMAIN results)
  BY DEF WorkInv
<1>2. JobOK(job[a], reservations', DOMAIN results)
  BY <1>1, JobKept DEF StoreOK
<1>3. /\ IsJob(j) /\ j.pc = pc /\ j.notes = job[a].notes /\ j.refs = job[a].refs
  BY <1>2 DEF JobOK, IsJob, IsFunction
<1> HIDE DEF j
<1>4. JobOK(j, reservations', DOMAIN results)
  BY <1>2, <1>3 DEF JobOK, ProofPC, SendPC
<1> QED BY <1>4, JobStep DEF Goto, j

-----------------------------------------------------------------------------
(* The proof worker's steps. *)
LEMMA StartProofInv ==
    ASSUME WorkInv, NEW a \in Actors, NEW o \in OperationIDs, StartProof(a, o)
    PROVE  WorkInv'
<1> DEFINE group == NotesOf(o, IF a \in Daemons THEN {"Reserved"} ELSE ReservationStatus)
           j == [NoJob EXCEPT !.pc = "lease", !.op = o, !.notes = group]
<1>1. Do(a, j) /\ StoreUnchanged /\ results' = results /\ handed' = handed
  BY DEF StartProof, jobVars
<1>2. \A r \in group : r \in DOMAIN reservations /\ reservations[r].op = o
  BY DEF NotesOf
<1> HIDE DEF group
<1>3. /\ IsJob(j) /\ IsFunction(j.refs) /\ j.pc = "lease" /\ j.op = o /\ j.notes = group
      /\ DOMAIN j.refs = {}
  BY NoJobShape DEF IsJob, IsFunction
<1> HIDE DEF j
<1>4. StoreOK /\ operations' = operations /\ reservations' = reservations
  BY <1>1, NoCall DEF StoreUnchanged, storeVars
<1>5. JobOK(j, reservations', DOMAIN results)
  BY <1>2, <1>3, <1>4 DEF JobOK, ProofPC, SendPC
<1> QED BY <1>1, <1>4, <1>5, JobStep

(* The proof worker takes the lease of one more note. *)
LEMMA LeaseForProofInv ==
    ASSUME WorkInv, NEW a \in Actors, NEW now, LeaseForProof(a, now)
    PROVE  WorkInv'
<1>1. job[a].pc = "lease" /\ results' = results /\ handed' = handed
  BY DEF LeaseForProof, At, jobVars
<1>2. JobOK(job[a], reservations, DOMAIN results)
  BY DEF WorkInv
<1>3. PICK r \in job[a].notes \ DOMAIN job[a].refs :
         \/ /\ TakeLease(a, r, now)
            /\ Do(a, [job[a] EXCEPT !.pc = "move", !.refs = Updated(@, [x \in {r} |-> FreshToken(a, r)])])
         \/ Goto(a, "undo") /\ StoreUnchanged
  BY DEF LeaseForProof
<1>4. CASE Goto(a, "undo") /\ StoreUnchanged
  BY <1>1, <1>4, NoCall, GotoStep
<1>5. CASE /\ TakeLease(a, r, now)
           /\ Do(a, [job[a] EXCEPT !.pc = "move", !.refs = Updated(@, [x \in {r} |-> FreshToken(a, r)])])
  <2> DEFINE refs == Updated(job[a].refs, [x \in {r} |-> FreshToken(a, r)])
             j == [job[a] EXCEPT !.pc = "move", !.refs = refs]
  <2>1. StoreOK /\ operations' = operations
    BY <1>2, <1>5, TakeLeaseOK DEF JobOK
  <2>2. IsFunction(refs) /\ DOMAIN refs = DOMAIN job[a].refs \cup {r}
    BY DEF IsFunction, Updated
  <2> HIDE DEF refs
  <2>3. JobOK(job[a], reservations', DOMAIN results)
    BY <1>2, <2>1, JobKept DEF StoreOK
  <2>4. IsJob(j) /\ j.pc = "move" /\ j.op = job[a].op /\ j.notes = job[a].notes /\ j.refs = refs
    BY <1>2 DEF JobOK, IsJob, IsFunction
  <2>5. Do(a, j)
    BY <1>5 DEF refs
  <2> HIDE DEF j
  <2>6. JobOK(j, reservations', DOMAIN results)
    BY <1>1, <2>2, <2>3, <2>4 DEF JobOK, ProofPC, SendPC
  <2> QED BY <1>1, <2>1, <2>5, <2>6, JobStep
<1> QED BY <1>3, <1>4, <1>5

(* The proof worker moves one more leased note to Proving. *)
LEMMA MoveToProvingInv ==
    ASSUME WorkInv, NEW a \in Actors, NEW now, MoveToProving(a, now)
    PROVE  WorkInv'
<1>1. job[a].pc = "move" /\ results' = results /\ handed' = handed
  BY DEF MoveToProving, At
<1>2. JobOK(job[a], reservations, DOMAIN results)
  BY DEF WorkInv
<1>3. PICK r \in DOMAIN job[a].refs \ job[a].done :
         \/ /\ TransitionWithLease(r, job[a].refs[r], "Reserved", "Proving", now)
            /\ \/ \E pc \in {"prove", "lease"} : Do(a, [job[a] EXCEPT !.done = @ \cup {r}, !.pc = pc])
               \/ Goto(a, "undo")
         \/ Goto(a, "undo") /\ StoreUnchanged
  BY DEF MoveToProving
<1>4. StoreOK /\ operations' = operations
  <2>1. CASE TransitionWithLease(r, job[a].refs[r], "Reserved", "Proving", now)
    BY <2>1, MoveOK DEF TransitionWithLease
  <2> QED BY <1>3, <2>1, NoCall
<1>5. CASE Goto(a, "undo")
  BY <1>1, <1>4, <1>5, GotoStep
<1>6. ASSUME NEW pc \in {"prove", "lease"}, Do(a, [job[a] EXCEPT !.done = @ \cup {r}, !.pc = pc])
      PROVE  WorkInv'
  <2> DEFINE j == [job[a] EXCEPT !.done = @ \cup {r}, !.pc = pc]
  <2>1. JobOK(job[a], reservations', DOMAIN results)
    BY <1>2, <1>4, JobKept DEF StoreOK
  <2>2. /\ IsJob(j) /\ j.pc = pc /\ j.op = job[a].op /\ j.notes = job[a].notes
        /\ j.refs = job[a].refs
    BY <1>2 DEF JobOK, IsJob, IsFunction
  <2> HIDE DEF j
  <2>3. JobOK(j, reservations', DOMAIN results)
    BY <1>1, <2>1, <2>2 DEF JobOK, ProofPC, SendPC
  <2> QED BY <1>1, <1>4, <1>6, <2>3, JobStep DEF j
<1> QED BY <1>3, <1>5, <1>6

(* The prover answers, or the worker turns to undoing. *)
LEMMA ProveInv ==
    ASSUME WorkInv, NEW a \in Actors, Prove(a)
    PROVE  WorkInv'
<1>1. job[a].pc = "prove" /\ results' = results /\ handed' = handed /\ StoreUnchanged
  BY DEF Prove, At, jobVars
<1>2. JobOK(job[a], reservations, DOMAIN results)
  BY DEF WorkInv
<1>3. StoreOK /\ operations' = operations /\ reservations' = reservations
  BY <1>1, NoCall DEF StoreUnchanged, storeVars
<1>4. CASE Goto(a, "undo")
  BY <1>1, <1>3, <1>4, GotoStep
<1>5. CASE Do(a, [job[a] EXCEPT !.pc = "save", !.msg = FreshDigest(a)])
  <2> DEFINE j == [job[a] EXCEPT !.pc = "save", !.msg = FreshDigest(a)]
  <2>1. /\ IsJob(j) /\ j.pc = "save" /\ j.op = job[a].op /\ j.notes = job[a].notes
        /\ j.refs = job[a].refs
    BY <1>2 DEF JobOK, IsJob, IsFunction
  <2> HIDE DEF j
  <2>2. JobOK(j, reservations', DOMAIN results)
    BY <1>1, <1>2, <1>3, <2>1 DEF JobOK, ProofPC, SendPC
  <2> QED BY <1>1, <1>3, <1>5, <2>2, JobStep DEF j
<1> QED BY <1>4, <1>5 DEF Prove

(* SaveProofResult comes before the job may mark its notes ProofReady. *)
LEMMA SaveProofResultInv ==
    ASSUME WorkInv, NEW a \in Actors, SaveProofResult(a)
    PROVE  WorkInv'
<1>1. job[a].pc = "save" /\ handed' = handed /\ StoreUnchanged
  BY DEF SaveProofResult, At
<1>2. JobOK(job[a], reservations, DOMAIN results)
  BY DEF WorkInv
<1>3. /\ StoreOK /\ operations' = operations /\ reservations' = reservations
      /\ Grown(reservations, reservations')
  BY <1>1, NoCall DEF StoreUnchanged, storeVars, StoreOK
<1>4. CASE Goto(a, "undo") /\ results' = results
  BY <1>1, <1>3, <1>4, GotoStep
<1>5. CASE /\ results' = Updated(results,
                [o \in {job[a].op} |-> [msg |-> job[a].msg, refs |-> job[a].refs]])
           /\ Goto(a, "mark")
  <2> DEFINE j == [job[a] EXCEPT !.pc = "mark"]
             rec == [msg |-> job[a].msg, refs |-> job[a].refs]
  <2>1. /\ IsFunction(results') /\ DOMAIN results' = DOMAIN results \cup {job[a].op}
        /\ results'[job[a].op] = rec
        /\ \A o \in DOMAIN results : o # job[a].op => results'[o] = results[o]
    BY <1>5 DEF Updated, IsFunction
  <2>2. IsResult(rec) /\ rec.refs = job[a].refs
    BY DEF IsResult, IsFunction
  <2> HIDE DEF rec
  <2>3. /\ IsJob(j) /\ j.pc = "mark" /\ j.op = job[a].op /\ j.notes = job[a].notes
        /\ j.refs = job[a].refs
    BY <1>2 DEF JobOK, IsJob, IsFunction
  <2>4. Do(a, j)
    BY <1>5 DEF Goto
  <2> HIDE DEF j
  <2>5. JobOK(j, reservations', DOMAIN results')
    BY <1>1, <1>2, <1>3, <2>1, <2>3 DEF JobOK, ProofPC, SendPC
  <2>6. /\ IsFunction(job') /\ DOMAIN job' = Actors
        /\ \A x \in Actors : JobOK(job'[x], reservations', DOMAIN results')
    BY <1>3, <2>1, <2>4, <2>5, OneJob
  <2>7. ResultsOK(results', reservations')
    <3> SUFFICES ASSUME NEW o \in DOMAIN results'
                 PROVE  /\ IsResult(results'[o]) /\ IsFunction(results'[o].refs)
                        /\ \A r \in DOMAIN results'[o].refs :
                              r \in DOMAIN reservations' /\ reservations'[r].op = o
      BY <2>1 DEF ResultsOK
    <3>1. CASE o = job[a].op
      <4>1. \A r \in job[a].notes : reservations[r].op = o
        BY <1>1, <1>2, <3>1 DEF JobOK, ProofPC
      <4>2. IsFunction(job[a].refs) /\ DOMAIN job[a].refs \subseteq job[a].notes
                /\ job[a].notes \subseteq DOMAIN reservations
        BY <1>1, <1>2 DEF JobOK
      <4> QED BY <1>3, <2>1, <2>2, <3>1, <4>1, <4>2
    <3>2. CASE o # job[a].op
      BY <1>3, <2>1, <3>2 DEF WorkInv, ResultsOK
    <3> QED BY <3>1, <3>2
  <2>8. handed' \subseteq Advanced(reservations')
    BY <1>1, <1>3 DEF WorkInv
  <2>9. ArtifactBeforeStatus'
    BY <1>3, <2>1 DEF WorkInv, ArtifactBeforeStatus
  <2> QED BY <1>3, <2>6, <2>7, <2>8, <2>9 DEF WorkInv, StoreOK
<1> QED BY <1>4, <1>5 DEF SaveProofResult

(* A call that records one status for the notes of a job and for their      *)
(* operation, which has a result.                                           *)
LEMMA RecordStep ==
    ASSUME WorkInv, NEW upd, NEW ops, NEW new, StoreReservations(upd), DOMAIN upd \subseteq DOMAIN reservations,
           \A r \in DOMAIN upd :
              /\ IsReservation(upd[r]) /\ upd[r].op = reservations[r].op
              /\ upd[r].status \in {"ProofReady", "Submitted", "Unknown"},
           operations' = Updated(operations, new), DOMAIN new \subseteq DOMAIN results,
           \A o \in DOMAIN new : IsOperation(new[o])
    PROVE  StoreOK
<1>1. /\ Grown(reservations, reservations')
      /\ IsFunction(reservations') /\ \A r \in DOMAIN reservations' : IsReservation(reservations'[r])
  BY WrittenGrows
<1>2. /\ IsFunction(operations') /\ DOMAIN operations' = DOMAIN operations \cup DOMAIN new
      /\ \A o \in DOMAIN new : operations'[o] = new[o]
      /\ \A o \in DOMAIN operations \ DOMAIN new : operations'[o] = operations[o]
  BY DEF Updated, IsFunction
<1>3. \A o \in DOMAIN operations' : IsOperation(operations'[o])
  BY <1>2 DEF WorkInv, RecordsOK
<1>4. \A o \in DOMAIN operations' : operations'[o].status # "Planned" => o \in DOMAIN results
  BY <1>2 DEF WorkInv, ArtifactBeforeStatus
<1> QED BY <1>1, <1>2, <1>3, <1>4 DEF StoreOK, RecordsOK

(* MarkProofReadyBatch *)
LEMMA MarkProofReadyOK ==
    ASSUME WorkInv, NEW refs, NEW digest, NEW now, MarkProofReady(refs, digest, now),
           LinkedOps(refs) \subseteq DOMAIN results
    PROVE  StoreOK
<1> DEFINE merged(o) == CHOOSE d \in Merged(operations[o].expected, digest) : TRUE
           upd == [r \in DOMAIN refs |-> [reservations[r] EXCEPT !.status = "ProofReady"]]
           new == [o \in LinkedOps(refs) |->
                     [operations[o] EXCEPT !.status = "ProofReady", !.expected = merged(o)]]
<1>1. /\ StoreReservations(upd) /\ operations' = Updated(operations, new)
      /\ DOMAIN refs \subseteq DOMAIN reservations /\ LinkedOps(refs) \subseteq DOMAIN operations
  BY DEF MarkProofReady, LeasedAt
<1> HIDE DEF merged
<1>2. ASSUME NEW r \in DOMAIN upd
      PROVE  /\ IsReservation(upd[r]) /\ upd[r].op = reservations[r].op
             /\ upd[r].status \in {"ProofReady", "Submitted", "Unknown"}
  <2>1. IsReservation(reservations[r])
    BY <1>1 DEF WorkInv, RecordsOK
  <2> QED BY <2>1 DEF IsReservation, IsFunction
<1>3. ASSUME NEW o \in DOMAIN new PROVE IsOperation(new[o])
  <2>1. IsOperation(operations[o])
    BY <1>1 DEF WorkInv, RecordsOK
  <2> QED BY <2>1 DEF IsOperation, IsFunction
<1>4. DOMAIN upd \subseteq DOMAIN reservations /\ DOMAIN new \subseteq DOMAIN results
  BY <1>1
<1> HIDE DEF upd, new
<1> QED BY <1>1, <1>2, <1>3, <1>4, RecordStep

(* MarkReservationsSubmitted and MarkReservationsBroadcastUnknown *)
LEMMA MarkBroadcastOK ==
    ASSUME WorkInv, NEW status \in {"Submitted", "Unknown"}, NEW refs, NEW tx, NEW now,
           MarkBroadcast(status, refs, tx, now), LinkedOps(refs) \subseteq DOMAIN results
    PROVE  StoreOK
<1> DEFINE upd == [r \in DOMAIN refs |->
                     ClearLease([reservations[r] EXCEPT !.status = status, !.tx = tx])]
           new == [o \in LinkedOps(refs) |-> [operations[o] EXCEPT !.status = status, !.tx = tx]]
<1>1. /\ StoreReservations(upd) /\ operations' = Updated(operations, new)
      /\ DOMAIN refs \subseteq DOMAIN reservations /\ LinkedOps(refs) \subseteq DOMAIN operations
  BY DEF MarkBroadcast, LeasedAt
<1>2. ASSUME NEW r \in DOMAIN upd
      PROVE  /\ IsReservation(upd[r]) /\ upd[r].op = reservations[r].op
             /\ upd[r].status \in {"ProofReady", "Submitted", "Unknown"}
  <2>1. IsReservation(reservations[r])
    BY <1>1 DEF WorkInv, RecordsOK
  <2> QED BY <2>1 DEF IsReservation, IsFunction, ClearLease
<1>3. ASSUME NEW o \in DOMAIN new PROVE IsOperation(new[o])
  <2>1. IsOperation(operations[o])
    BY <1>1 DEF WorkInv, RecordsOK
  <2> QED BY <2>1 DEF IsOperation, IsFunction
<1>4. DOMAIN upd \subseteq DOMAIN reservations /\ DOMAIN new \subseteq DOMAIN results
  BY <1>1
<1> HIDE DEF upd, new
<1> QED BY <1>1, <1>2, <1>3, <1>4, RecordStep

(* A job past saving, or one that broadcasts, touches only operations with  *)
(* a result.                                                                *)
LEMMA OperationHasResult ==
    ASSUME NEW a \in Actors, WorkInv, job[a].pc \in {"mark", "returned"}
    PROVE  LinkedOps(job[a].refs) \subseteq DOMAIN results
<1>1. JobOK(job[a], reservations, DOMAIN results)
  BY DEF WorkInv
<1>2. \A r \in DOMAIN job[a].refs : reservations[r].op = job[a].op
  BY <1>1 DEF JobOK, ProofPC, SendPC
<1>3. job[a].op \in DOMAIN results
  BY <1>1 DEF JobOK, SendPC
<1> QED BY <1>2, <1>3 DEF LinkedOps

(* MarkProofReady comes after the result was saved, so the operation leaves *)
(* Planned with its artifact.                                               *)
LEMMA MarkReadyInv ==
    ASSUME WorkInv, NEW a \in Actors, NEW now, MarkReady(a, now)
    PROVE  WorkInv'
<1>1. job[a].pc = "mark" /\ results' = results /\ handed' = handed
  BY DEF MarkReady, At
<1>2. MarkProofReady(job[a].refs, job[a].msg, now) \/ StoreUnchanged
  BY DEF MarkReady
<1>3. StoreOK
  BY <1>1, <1>2, NoCall, MarkProofReadyOK, OperationHasResult
<1>4. Do(a, [NoJob EXCEPT !.refs = job[a].refs]) \/ Idle(a) \/ Goto(a, "undo")
  BY DEF MarkReady
<1>5. CASE Do(a, [NoJob EXCEPT !.refs = job[a].refs])
  <2> DEFINE j == [NoJob EXCEPT !.refs = job[a].refs]
  <2>1. IsFunction(job[a].refs)
    BY DEF WorkInv, JobOK
  <2>2. IsJob(j) /\ j.pc = "idle" /\ j.notes = {} /\ j.refs = job[a].refs
    BY NoJobShape DEF IsJob, IsFunction
  <2> HIDE DEF j
  <2>3. JobOK(j, reservations', DOMAIN results)
    BY <2>1, <2>2 DEF JobOK, ProofPC, SendPC
  <2> QED BY <1>1, <1>3, <1>5, <2>3, JobStep DEF j
<1> QED BY <1>1, <1>3, <1>4, <1>5, IdleStep, GotoStep

(* The worker gives back a note it moved to Proving, never one further on. *)
LEMMA UndoInv ==
    ASSUME WorkInv, NEW a \in Actors, NEW now, Undo(a, now)
    PROVE  WorkInv'
<1>1. job[a].pc = "undo" /\ results' = results /\ handed' = handed
  BY DEF Undo, At, jobVars
<1>2. JobOK(job[a], reservations, DOMAIN results)
  BY DEF WorkInv
<1>3. CASE Idle(a) /\ StoreUnchanged
  BY <1>1, <1>3, NoCall, IdleStep
<1>4. ASSUME NEW r \in DOMAIN job[a].refs,
             Do(a, [job[a] EXCEPT !.refs = [x \in DOMAIN @ \ {r} |-> @[x]]]),
             \/ TransitionWithLease(r, job[a].refs[r], "Proving", "Reserved", now)
             \/ ClearReservationLease(r, job[a].refs[r], now)
             \/ StoreUnchanged
      PROVE  WorkInv'
  <2> DEFINE refs == [x \in DOMAIN job[a].refs \ {r} |-> job[a].refs[x]]
             j == [job[a] EXCEPT !.refs = refs]
  <2>1. StoreOK
    <3>1. CASE TransitionWithLease(r, job[a].refs[r], "Proving", "Reserved", now)
      BY <3>1, MoveOK DEF TransitionWithLease
    <3> QED BY <1>4, <3>1, ClearLeaseOK, NoCall
  <2>2. IsFunction(refs) /\ DOMAIN refs \subseteq DOMAIN job[a].refs
    BY DEF IsFunction
  <2>3. Do(a, j)
    BY <1>4
  <2> HIDE DEF refs
  <2>4. IsJob(j) /\ j.pc = "undo" /\ j.notes = job[a].notes /\ j.refs = refs
    BY <1>1, <1>2 DEF JobOK, IsJob, IsFunction
  <2> HIDE DEF j
  <2>5. JobOK(job[a], reservations', DOMAIN results)
    BY <1>2, <2>1, JobKept DEF StoreOK
  <2>6. JobOK(j, reservations', DOMAIN results)
    BY <1>1, <2>2, <2>4, <2>5 DEF JobOK, ProofPC, SendPC
  <2> QED BY <1>1, <2>1, <2>3, <2>6, JobStep
<1> QED BY <1>3, <1>4 DEF Undo

(* A job that changes only what JobOK does not look at. *)
LEMMA SameWork ==
    ASSUME WorkInv, NEW a \in Actors, NEW j, Do(a, j), StoreOK, results' = results, handed' = handed,
           IsJob(j), j.pc = job[a].pc, j.op = job[a].op, j.notes = job[a].notes,
           j.refs = job[a].refs, j.done = job[a].done
    PROVE  WorkInv'
<1>1. JobOK(job[a], reservations', DOMAIN results)
  BY JobKept DEF WorkInv, StoreOK
<1>2. JobOK(j, reservations', DOMAIN results)
  BY <1>1 DEF JobOK
<1> QED BY <1>2, JobStep

(* A heartbeat renews a lease and changes no status. *)
LEMMA HeartbeatInv ==
    ASSUME WorkInv, NEW a \in Actors, NEW now, Heartbeat(a, now)
    PROVE  WorkInv'
<1>1. results' = results /\ handed' = handed
  BY DEF Heartbeat, jobVars
<1>2. IsJob(job[a])
  BY DEF WorkInv, JobOK
<1>3. PICK r \in DOMAIN job[a].refs :
         \/ HeartbeatLease(r, job[a].refs[r], now, TTL) /\ job' = job
         \/ Do(a, [job[a] EXCEPT !.cancelled = TRUE]) /\ StoreUnchanged
  BY DEF Heartbeat
<1>4. CASE HeartbeatLease(r, job[a].refs[r], now, TTL) /\ job' = job
  <2>1. StoreOK
    BY <1>4, HeartbeatOK
  <2>2. Do(a, job[a])
    BY <1>4 DEF Do, WorkInv, IsFunction
  <2> QED BY <1>1, <1>2, <2>1, <2>2, SameWork
<1>5. CASE Do(a, [job[a] EXCEPT !.cancelled = TRUE]) /\ StoreUnchanged
  <2> DEFINE j == [job[a] EXCEPT !.cancelled = TRUE]
  <2>1. /\ IsJob(j) /\ j.pc = job[a].pc /\ j.op = job[a].op /\ j.notes = job[a].notes
        /\ j.refs = job[a].refs /\ j.done = job[a].done
    BY <1>2 DEF IsJob, IsFunction
  <2> HIDE DEF j
  <2> QED BY <1>1, <1>5, <2>1, NoCall, SameWork DEF j
<1> QED BY <1>3, <1>4, <1>5

-----------------------------------------------------------------------------
(* The broadcaster's steps. *)
LEMMA StartBroadcastInv ==
    ASSUME WorkInv, NEW a \in Actors, NEW o \in OperationIDs, StartBroadcast(a, o)
    PROVE  WorkInv'
<1> DEFINE refs == results[o].refs
           msg == results[o].msg
           j == [NoJob EXCEPT !.pc = "links", !.op = o, !.notes = DOMAIN refs, !.refs = refs, !.msg = msg]
<1>1. /\ Do(a, j) /\ StoreUnchanged /\ results' = results /\ handed' = handed
      /\ o \in DOMAIN results
  BY DEF StartBroadcast, jobVars
<1>2. IsFunction(refs) /\ DOMAIN refs \subseteq DOMAIN reservations
  BY <1>1 DEF WorkInv, ResultsOK
<1> HIDE DEF refs, msg
<1>3. /\ IsJob(j) /\ j.pc = "links" /\ j.op = o /\ j.notes = DOMAIN refs /\ j.refs = refs
      /\ j.done = {}
  BY NoJobShape DEF IsJob, IsFunction
<1> HIDE DEF j
<1>4. StoreOK /\ reservations' = reservations
  BY <1>1, NoCall DEF StoreUnchanged, storeVars
<1>5. JobOK(j, reservations', DOMAIN results)
  BY <1>1, <1>2, <1>3, <1>4 DEF JobOK, ProofPC, SendPC
<1> QED BY <1>1, <1>4, <1>5, JobStep

(* validateSubmissionLinks leaves only notes of the operation. *)
LEMMA CheckLinksInv ==
    ASSUME WorkInv, NEW a \in Actors, CheckLinks(a)
    PROVE  WorkInv'
<1>1. job[a].pc = "links" /\ StoreUnchanged /\ results' = results /\ handed' = handed
  BY DEF CheckLinks, At, jobVars
<1>2. JobOK(job[a], reservations, DOMAIN results)
  BY DEF WorkInv
<1>3. StoreOK /\ reservations' = reservations
  BY <1>1, NoCall DEF StoreUnchanged, storeVars
<1>4. \/ Idle(a)
      \/ Goto(a, "hold") /\ \A r \in job[a].notes : reservations[r].op = job[a].op
  BY DEF CheckLinks
<1>5. CASE Goto(a, "hold") /\ \A r \in job[a].notes : reservations[r].op = job[a].op
  <2> DEFINE j == [job[a] EXCEPT !.pc = "hold"]
  <2>1. /\ IsJob(j) /\ j.pc = "hold" /\ j.op = job[a].op /\ j.notes = job[a].notes
        /\ j.refs = job[a].refs /\ j.done = {}
    BY <1>1, <1>2 DEF JobOK, IsJob, IsFunction
  <2> HIDE DEF j
  <2>2. JobOK(j, reservations', DOMAIN results)
    BY <1>1, <1>2, <1>3, <1>5, <2>1 DEF JobOK, ProofPC, SendPC
  <2> QED BY <1>1, <1>3, <1>5, <2>2, JobStep DEF Goto, j
<1> QED BY <1>1, <1>3, <1>4, <1>5, IdleStep

(* The daemon starts on ProofReady notes whose result is saved. *)
LEMMA StartDaemonBroadcastInv ==
    ASSUME WorkInv, NEW a \in Actors, NEW o \in OperationIDs, StartDaemonBroadcast(a, o)
    PROVE  WorkInv'
<1> DEFINE group == NotesOf(o, {"ProofReady"})
           owned(r) == r \in DOMAIN job[a].refs /\ job[a].refs[r] = reservations[r].token
           refs == [r \in group |-> IF owned(r) THEN job[a].refs[r] ELSE 0]
           msg == results[o].msg
           j == [NoJob EXCEPT !.pc = "hold", !.op = o, !.notes = group, !.msg = msg, !.refs = refs]
<1>1. /\ Do(a, j) /\ StoreUnchanged /\ results' = results /\ handed' = handed
      /\ o \in DOMAIN results
  BY DEF StartDaemonBroadcast, jobVars
<1>2. IsFunction(refs) /\ DOMAIN refs = group
  BY DEF IsFunction
<1>3. \A r \in group : r \in DOMAIN reservations /\ reservations[r].op = o
  BY DEF NotesOf
<1> HIDE DEF group, owned, refs, msg
<1>4. /\ IsJob(j) /\ j.pc = "hold" /\ j.op = o /\ j.notes = group /\ j.refs = refs
      /\ j.done = {}
  BY NoJobShape DEF IsJob, IsFunction
<1> HIDE DEF j
<1>5. StoreOK /\ reservations' = reservations
  BY <1>1, NoCall DEF StoreUnchanged, storeVars
<1>6. JobOK(j, reservations', DOMAIN results)
  BY <1>1, <1>2, <1>3, <1>4, <1>5 DEF JobOK, ProofPC, SendPC
<1> QED BY <1>1, <1>5, <1>6, JobStep

(* A note whose lease the process keeps or takes over is ProofReady. *)
LEMMA HoldLeaseInv ==
    ASSUME WorkInv, NEW a \in Actors, NEW now, HoldLease(a, now)
    PROVE  WorkInv'
<1>1. job[a].pc = "hold" /\ results' = results /\ handed' = handed
  BY DEF HoldLease, At, jobVars
<1>2. JobOK(job[a], reservations, DOMAIN results)
  BY DEF WorkInv
<1> DEFINE next == IF a \in Daemons THEN "send" ELSE "check"
           pc(r) == IF job[a].done \cup {r} = job[a].notes THEN next ELSE "hold"
           kept(r) == [job[a] EXCEPT !.done = @ \cup {r}, !.pc = pc(r),
                                     !.taken = IF a \in Daemons THEN @ \cup {r} ELSE @]
           over(r) == [job[a] EXCEPT !.refs[r] = FreshToken(a, r), !.taken = @ \cup {r},
                                     !.done = @ \cup {r}, !.pc = pc(r)]
<1>3. PICK r \in job[a].notes \ job[a].done :
         \/ /\ MayHeartbeat(r, job[a].refs[r], "ProofReady", now)
            /\ HeartbeatLease(r, job[a].refs[r], now, TTL) /\ Do(a, kept(r))
         \/ MayTake(r, "ProofReady", now) /\ TakeLease(a, r, now) /\ Do(a, over(r))
         \/ Goto(a, "clear") /\ StoreUnchanged
  BY DEF HoldLease
<1>4. CASE Goto(a, "clear") /\ StoreUnchanged
  BY <1>1, <1>4, NoCall, GotoStep
<1>5. ASSUME NEW j, Do(a, j), StoreOK, reservations[r].status = "ProofReady", IsJob(j), j.pc = pc(r),
             j.op = job[a].op, j.notes = job[a].notes, j.done = job[a].done \cup {r},
             IsFunction(j.refs), DOMAIN j.refs = DOMAIN job[a].refs
      PROVE  WorkInv'
  <2>1. JobOK(job[a], reservations', DOMAIN results)
    BY <1>2, <1>5, JobKept DEF StoreOK
  <2>2. r \in Advanced(reservations')
    <3>1. r \in Advanced(reservations)
      BY <1>2, <1>5 DEF JobOK, Advanced
    <3> QED BY <1>5, <3>1 DEF StoreOK, Grown
  <2>3. j.done \subseteq Advanced(reservations')
    BY <1>1, <1>5, <2>1, <2>2 DEF JobOK
  <2>4. j.pc \in {"hold", "send", "check"} /\ (j.pc # "hold" => j.notes = j.done)
    BY <1>5
  <2>5. JobOK(j, reservations', DOMAIN results)
    BY <1>1, <1>5, <2>1, <2>3, <2>4 DEF JobOK, ProofPC, SendPC
  <2> QED BY <1>1, <1>5, <2>5, JobStep
<1>6. CASE /\ MayHeartbeat(r, job[a].refs[r], "ProofReady", now)
           /\ HeartbeatLease(r, job[a].refs[r], now, TTL) /\ Do(a, kept(r))
  <2> DEFINE j == kept(r)
  <2>1. StoreOK /\ reservations[r].status = "ProofReady"
    BY <1>6, HeartbeatOK DEF MayHeartbeat
  <2> HIDE DEF pc
  <2>2. /\ IsJob(j) /\ j.pc = pc(r) /\ j.op = job[a].op /\ j.notes = job[a].notes
        /\ j.done = job[a].done \cup {r} /\ j.refs = job[a].refs
    BY <1>2 DEF JobOK, IsJob, IsFunction
  <2> HIDE DEF j
  <2> QED BY <1>2, <1>5, <1>6, <2>1, <2>2 DEF JobOK, j
<1>7. CASE MayTake(r, "ProofReady", now) /\ TakeLease(a, r, now) /\ Do(a, over(r))
  <2> DEFINE j == over(r)
  <2>1. StoreOK /\ reservations[r].status = "ProofReady"
    BY <1>2, <1>7, TakeLeaseOK DEF MayTake, JobOK
  <2> HIDE DEF pc
  <2>2. /\ IsJob(j) /\ j.pc = pc(r) /\ j.op = job[a].op /\ j.notes = job[a].notes
        /\ j.done = job[a].done \cup {r} /\ j.refs = [job[a].refs EXCEPT ![r] = FreshToken(a, r)]
    BY <1>2 DEF JobOK, IsJob, IsFunction
  <2>3. IsFunction(j.refs) /\ DOMAIN j.refs = DOMAIN job[a].refs
    BY <2>2 DEF IsFunction
  <2> HIDE DEF j
  <2> QED BY <1>5, <1>7, <2>1, <2>2, <2>3 DEF j
<1> QED BY <1>3, <1>4, <1>6, <1>7

(* The broadcaster asks the node whether a note is spent, and may stop. *)
LEMMA CheckNullifiersInv ==
    ASSUME WorkInv, NEW a \in Actors, CheckNullifiers(a)
    PROVE  WorkInv'
<1>1. job[a].pc = "check" /\ StoreUnchanged /\ results' = results /\ handed' = handed
  BY DEF CheckNullifiers, At, jobVars
<1>2. JobOK(job[a], reservations, DOMAIN results)
  BY DEF WorkInv
<1>3. StoreOK /\ reservations' = reservations
  BY <1>1, NoCall DEF StoreUnchanged, storeVars
<1>4. CASE Goto(a, "clear")
  BY <1>1, <1>3, <1>4, GotoStep
<1>5. CASE Goto(a, "send")
  <2> DEFINE j == [job[a] EXCEPT !.pc = "send"]
  <2>1. /\ IsJob(j) /\ j.pc = "send" /\ j.op = job[a].op /\ j.notes = job[a].notes
        /\ j.refs = job[a].refs
    BY <1>2 DEF JobOK, IsJob, IsFunction
  <2> HIDE DEF j
  <2>2. JobOK(j, reservations', DOMAIN results)
    BY <1>1, <1>2, <1>3, <2>1 DEF JobOK, ProofPC, SendPC
  <2> QED BY <1>1, <1>3, <1>5, <2>2, JobStep DEF Goto, j
<1> QED BY <1>4, <1>5 DEF CheckNullifiers

(* The message is handed over while its notes are ProofReady or beyond. *)
LEMMA SendInv ==
    ASSUME WorkInv, NEW a \in Actors, NEW got, NEW outcome, Send(a, got, outcome)
    PROVE  WorkInv'
<1> DEFINE j == [job[a] EXCEPT !.pc = "returned", !.outcome = outcome]
<1>1. /\ job[a].pc = "send" /\ StoreUnchanged /\ results' = results /\ Do(a, j)
      /\ handed' \subseteq handed \cup job[a].notes
  BY DEF Send, At
<1>2. JobOK(job[a], reservations, DOMAIN results)
  BY DEF WorkInv
<1>3. StoreOK /\ reservations' = reservations /\ operations' = operations
  BY <1>1, NoCall DEF StoreUnchanged, storeVars
<1>4. /\ IsJob(j) /\ j.pc = "returned" /\ j.op = job[a].op /\ j.notes = job[a].notes
      /\ j.refs = job[a].refs
  BY <1>2 DEF JobOK, IsJob, IsFunction
<1> HIDE DEF j
<1>5. JobOK(j, reservations', DOMAIN results')
  BY <1>1, <1>2, <1>3, <1>4 DEF JobOK, ProofPC, SendPC
<1>6. /\ IsFunction(job') /\ DOMAIN job' = Actors
      /\ \A x \in Actors : JobOK(job'[x], reservations', DOMAIN results')
  BY <1>1, <1>3, <1>5, OneJob DEF StoreOK
<1>7. handed' \subseteq Advanced(reservations')
  <2>1. job[a].notes \subseteq Advanced(reservations)
    BY <1>1, <1>2 DEF JobOK, SendPC
  <2> QED BY <1>1, <1>3, <2>1 DEF WorkInv
<1> QED BY <1>1, <1>3, <1>6, <1>7 DEF WorkInv, StoreOK, ArtifactBeforeStatus

(* MarkSubmitted or MarkBroadcastUnknown moves notes that are ProofReady    *)
(* forward.                                                                 *)
LEMMA RecordBroadcastInv ==
    ASSUME WorkInv, NEW a \in Actors, NEW now, RecordBroadcast(a, now)
    PROVE  WorkInv'
<1>1. job[a].pc = "returned" /\ results' = results /\ handed' = handed /\ Idle(a)
  BY DEF RecordBroadcast, At, jobVars
<1>2. \/ StoreUnchanged
      \/ \E tx \in TxIDs, status \in {"Submitted", "Unknown"} :
            MarkBroadcast(status, job[a].refs, tx, now)
  BY DEF RecordBroadcast, MarkSubmitted, MarkBroadcastUnknown
<1>3. LinkedOps(job[a].refs) \subseteq DOMAIN results
  BY <1>1, OperationHasResult
<1>4. StoreOK
  BY <1>2, <1>3, NoCall, MarkBroadcastOK
<1> QED BY <1>1, <1>4, IdleStep

(* A broadcaster that gives up returns the leases it took. *)
LEMMA ClearTakenInv ==
    ASSUME WorkInv, NEW a \in Actors, NEW now, ClearTaken(a, now)
    PROVE  WorkInv'
<1>1. job[a].pc = "clear" /\ results' = results /\ handed' = handed
  BY DEF ClearTaken, At, jobVars
<1>2. IsJob(job[a])
  BY DEF WorkInv, JobOK
<1>3. \/ Idle(a) /\ StoreUnchanged
      \/ \E r \in job[a].taken :
            /\ Do(a, [job[a] EXCEPT !.taken = @ \ {r}])
            /\ ClearReservationLease(r, job[a].refs[r], now) \/ StoreUnchanged
  BY DEF ClearTaken
<1>4. ASSUME NEW r \in job[a].taken, Do(a, [job[a] EXCEPT !.taken = @ \ {r}]),
             ClearReservationLease(r, job[a].refs[r], now) \/ StoreUnchanged
      PROVE  WorkInv'
  <2> DEFINE j == [job[a] EXCEPT !.taken = @ \ {r}]
  <2>1. /\ IsJob(j) /\ j.pc = job[a].pc /\ j.op = job[a].op /\ j.notes = job[a].notes
        /\ j.refs = job[a].refs /\ j.done = job[a].done
    BY <1>2 DEF IsJob, IsFunction
  <2> HIDE DEF j
  <2>2. StoreOK
    BY <1>4, ClearLeaseOK, NoCall
  <2> QED BY <1>1, <1>4, <2>1, <2>2, SameWork DEF j
<1> QED BY <1>1, <1>3, <1>4, NoCall, IdleStep

-----------------------------------------------------------------------------
(* Rollback, sweep, the chain and time. *)
LEMMA StartOtherInv ==
    ASSUME WorkInv, NEW a \in Actors, NEW pc \in {"reclaim", "release"}, NEW o,
           NEW notes \in SUBSET DOMAIN reservations,
           Do(a, [NoJob EXCEPT !.pc = pc, !.op = o, !.notes = notes]),
           StoreUnchanged, results' = results, handed' = handed
    PROVE  WorkInv'
<1> DEFINE j == [NoJob EXCEPT !.pc = pc, !.op = o, !.notes = notes]
<1>1. IsJob(j) /\ IsFunction(j.refs) /\ j.pc = pc /\ j.notes = notes /\ DOMAIN j.refs = {}
  BY NoJobShape DEF IsJob, IsFunction
<1> HIDE DEF j
<1>2. StoreOK /\ reservations' = reservations
  BY NoCall DEF StoreUnchanged, storeVars
<1>3. JobOK(j, reservations', DOMAIN results)
  BY <1>1, <1>2 DEF JobOK, ProofPC, SendPC
<1> QED BY <1>2, <1>3, JobStep DEF j

(* A rollback lists the Proving notes of an operation. *)
LEMMA StartRollbackInv ==
    ASSUME WorkInv, NEW a \in Actors, NEW o \in OperationIDs, StartRollback(a, o)
    PROVE  WorkInv'
<1>1. NotesOf(o, {"Proving"}) \in SUBSET DOMAIN reservations
  BY DEF NotesOf
<1> QED BY <1>1, StartOtherInv DEF StartRollback, jobVars

(* The sweep lists Reserved notes whose binding is stale. *)
LEMMA StartSweepInv ==
    ASSUME WorkInv, NEW a \in Actors, StartSweep(a)
    PROVE  WorkInv'
<1>1. PICK stale \in SUBSET DOMAIN reservations :
         Do(a, [NoJob EXCEPT !.pc = "release", !.notes = stale])
  BY DEF StartSweep
<1> DEFINE j == [NoJob EXCEPT !.pc = "release", !.notes = stale]
<1>2. IsJob(j) /\ IsFunction(j.refs) /\ j.pc = "release" /\ j.notes = stale /\ DOMAIN j.refs = {}
  BY NoJobShape DEF IsJob, IsFunction
<1> HIDE DEF j
<1>3. StoreOK /\ reservations' = reservations /\ results' = results /\ handed' = handed
  BY NoCall DEF StartSweep, StoreUnchanged, storeVars, jobVars
<1>4. JobOK(j, reservations', DOMAIN results)
  BY <1>2, <1>3 DEF JobOK, ProofPC, SendPC
<1> QED BY <1>1, <1>3, <1>4, JobStep DEF j

(* A rollback takes the expired lease of a note. *)
LEMMA ReclaimInv ==
    ASSUME WorkInv, NEW a \in Actors, NEW now, Reclaim(a, now)
    PROVE  WorkInv'
<1>1. job[a].pc = "reclaim" /\ results' = results /\ handed' = handed
  BY DEF Reclaim, At, jobVars
<1>2. JobOK(job[a], reservations, DOMAIN results)
  BY DEF WorkInv
<1> DEFINE refs(r) == Updated(job[a].refs, [x \in {r} |-> FreshToken(a, r)])
           pc(r) == IF DOMAIN job[a].refs \cup {r} = job[a].notes THEN "return" ELSE "reclaim"
           new(r) == [job[a] EXCEPT !.refs = refs(r), !.taken = @ \cup {r}, !.pc = pc(r)]
<1>3. PICK r \in job[a].notes \ DOMAIN job[a].refs :
         \/ TakeLease(a, r, now) /\ Do(a, new(r))
         \/ Goto(a, "clear") /\ StoreUnchanged
  BY DEF Reclaim
<1>4. CASE Goto(a, "clear") /\ StoreUnchanged
  BY <1>1, <1>4, NoCall, GotoStep
<1>5. CASE TakeLease(a, r, now) /\ Do(a, new(r))
  <2> DEFINE j == new(r)
  <2>1. StoreOK
    BY <1>2, <1>5, TakeLeaseOK DEF JobOK
  <2>2. IsFunction(refs(r)) /\ DOMAIN refs(r) = DOMAIN job[a].refs \cup {r}
    BY DEF IsFunction, Updated
  <2>3. pc(r) \in {"return", "reclaim"}
    OBVIOUS
  <2> HIDE DEF refs, pc
  <2>4. JobOK(job[a], reservations', DOMAIN results)
    BY <1>2, <2>1, JobKept DEF StoreOK
  <2>5. IsJob(j) /\ j.pc = pc(r) /\ j.notes = job[a].notes /\ j.refs = refs(r)
    BY <1>2 DEF JobOK, IsJob, IsFunction
  <2> HIDE DEF j
  <2>6. JobOK(j, reservations', DOMAIN results)
    BY <1>1, <2>2, <2>3, <2>4, <2>5 DEF JobOK, ProofPC, SendPC
  <2> QED BY <1>1, <1>5, <2>1, <2>6, JobStep DEF j
<1> QED BY <1>3, <1>4, <1>5

(* A rollback gives a note back to Reserved only from Proving. *)
LEMMA ReturnToReservedInv ==
    ASSUME WorkInv, NEW a \in Actors, NEW now, ReturnToReserved(a, now)
    PROVE  WorkInv'
<1>1. job[a].pc = "return" /\ results' = results /\ handed' = handed
  BY DEF ReturnToReserved, At, jobVars
<1>2. JobOK(job[a], reservations, DOMAIN results)
  BY DEF WorkInv
<1>3. PICK r \in job[a].notes \ job[a].done :
         \/ /\ TransitionWithLease(r, job[a].refs[r], "Proving", "Reserved", now)
            /\ Idle(a) \/ Do(a, [job[a] EXCEPT !.done = @ \cup {r}])
         \/ Idle(a) /\ StoreUnchanged
  BY DEF ReturnToReserved
<1>4. StoreOK
  <2>1. CASE TransitionWithLease(r, job[a].refs[r], "Proving", "Reserved", now)
    BY <2>1, MoveOK DEF TransitionWithLease
  <2> QED BY <1>3, <2>1, NoCall
<1>5. CASE Do(a, [job[a] EXCEPT !.done = @ \cup {r}])
  <2> DEFINE j == [job[a] EXCEPT !.done = @ \cup {r}]
  <2>1. JobOK(job[a], reservations', DOMAIN results)
    BY <1>2, <1>4, JobKept DEF StoreOK
  <2>2. IsJob(j) /\ j.pc = "return" /\ j.notes = job[a].notes /\ j.refs = job[a].refs
    BY <1>1, <1>2 DEF JobOK, IsJob, IsFunction
  <2> HIDE DEF j
  <2>3. JobOK(j, reservations', DOMAIN results)
    BY <1>1, <2>1, <2>2 DEF JobOK, ProofPC, SendPC
  <2> QED BY <1>1, <1>4, <1>5, <2>3, JobStep DEF j
<1> QED BY <1>1, <1>3, <1>4, <1>5, IdleStep

(* The sweep releases a note only from Reserved. *)
LEMMA ReleaseStaleInv ==
    ASSUME WorkInv, NEW a \in Actors, ReleaseStale(a)
    PROVE  WorkInv'
<1>1. job[a].pc = "release" /\ results' = results /\ handed' = handed
  BY DEF ReleaseStale, At, jobVars
<1>2. JobOK(job[a], reservations, DOMAIN results)
  BY DEF WorkInv
<1>3. PICK r \in job[a].notes :
         \/ /\ Transition(r, "Reserved", "Released")
            /\ Idle(a) \/ (job[a].notes # {r} /\ Do(a, [job[a] EXCEPT !.notes = @ \ {r}]))
         \/ Idle(a) /\ StoreUnchanged
  BY DEF ReleaseStale
<1>4. StoreOK
  <2>1. CASE Transition(r, "Reserved", "Released")
    BY <2>1, MoveOK DEF Transition
  <2> QED BY <1>3, <2>1, NoCall
<1>5. CASE Do(a, [job[a] EXCEPT !.notes = @ \ {r}])
  <2> DEFINE j == [job[a] EXCEPT !.notes = @ \ {r}]
  <2>1. JobOK(job[a], reservations', DOMAIN results)
    BY <1>2, <1>4, JobKept DEF StoreOK
  <2>2. IsJob(j) /\ j.pc = "release" /\ j.notes = job[a].notes \ {r} /\ j.refs = job[a].refs
    BY <1>1, <1>2 DEF JobOK, IsJob, IsFunction
  <2> HIDE DEF j
  <2>3. JobOK(j, reservations', DOMAIN results)
    BY <1>1, <2>1, <2>2 DEF JobOK, ProofPC, SendPC
  <2> QED BY <1>1, <1>4, <1>5, <2>3, JobStep DEF j
<1> QED BY <1>1, <1>3, <1>4, <1>5, IdleStep

(* Time and the chain leave jobs, results and what was handed over alone. *)
LEMMA OthersInv ==
    ASSUME WorkInv, job' = job, results' = results, handed' = handed, StoreOK
    PROVE  WorkInv'
<1>1. Grown(reservations, reservations') /\ RecordsOK(reservations', operations')
  BY DEF StoreOK
<1>2. /\ IsFunction(job') /\ DOMAIN job' = Actors
      /\ \A x \in Actors : JobOK(job'[x], reservations', DOMAIN results')
  BY <1>1, SameJobs
<1>3. ResultsOK(results', reservations')
  BY <1>1, ResultsKept DEF WorkInv
<1>4. handed' \subseteq Advanced(reservations')
  BY <1>1 DEF WorkInv, Grown
<1>5. ArtifactBeforeStatus'
  BY DEF StoreOK, ArtifactBeforeStatus
<1> QED BY <1>1, <1>2, <1>3, <1>4, <1>5 DEF WorkInv

(* Time brings leases closer to their end and changes nothing else. *)
LEMMA ElapseTimeInv == WorkInv /\ ElapseTime => WorkInv'
<1> SUFFICES ASSUME WorkInv, ElapseTime PROVE WorkInv'
  OBVIOUS
<1>1. /\ reservations' = [r \in DOMAIN reservations |-> Nearer(reservations[r])]
      /\ operations' = operations /\ job' = job /\ results' = results /\ handed' = handed
  BY DEF ElapseTime, jobVars
<1>2. ASSUME NEW r \in DOMAIN reservations
      PROVE  /\ IsReservation(reservations'[r]) /\ reservations'[r].op = reservations[r].op
             /\ reservations'[r].status = reservations[r].status
  <2>1. IsReservation(reservations[r])
    BY DEF WorkInv, RecordsOK
  <2> QED BY <1>1, <2>1 DEF Nearer, IsReservation, IsFunction
<1>3. IsFunction(reservations') /\ DOMAIN reservations' = DOMAIN reservations
  BY <1>1 DEF IsFunction
<1>4. StoreOK
  BY <1>1, <1>2, <1>3 DEF StoreOK, Grown, RecordsOK, Advanced, WorkInv, ArtifactBeforeStatus
<1> QED BY <1>1, <1>4, OthersInv

(* The workers start with every note Reserved and nothing done. *)
LEMMA WorkInitInv == WorkersInit => WorkInv
<1> SUFFICES ASSUME WorkersInit PROVE WorkInv
  OBVIOUS
<1> DEFINE key == CHOOSE f \in [ReservationIDs -> Keys] : \A r, s \in ReservationIDs : f[r] = f[s] => r = s
<1>1. PICK o \in OperationIDs :
        /\ reservations = [r \in ReservationIDs |->
               [status |-> "Reserved", key |-> key[r], op |-> o, token |-> 0, until |-> 0, tx |-> None]]
        /\ operations = [x \in {o} |-> [status |-> "Planned", tx |-> None, expected |-> None]]
  BY DEF WorkersInit, WorkersInitFor
<1>2. job = [a \in Actors |-> NoJob] /\ results = [x \in {} |-> None] /\ handed = {}
  BY DEF WorkersInit, WorkersInitFor
<1> HIDE DEF key
<1>3. RecordsOK(reservations, operations)
  BY <1>1 DEF RecordsOK, IsFunction, IsReservation, IsOperation
<1>4. ResultsOK(results, reservations)
  BY <1>2 DEF ResultsOK, IsFunction
<1>5. /\ IsFunction(job) /\ DOMAIN job = Actors
      /\ \A a \in Actors : JobOK(job[a], reservations, DOMAIN results)
  BY <1>2, NoJobOK DEF IsFunction
<1>6. ArtifactBeforeStatus
  BY <1>1 DEF ArtifactBeforeStatus
<1> QED BY <1>2, <1>3, <1>4, <1>5, <1>6 DEF WorkInv

(* Every step of every process keeps the invariant. *)
LEMMA WorkStepInv == WorkInv /\ [WorkersNext]_workerVars => WorkInv'
<1> SUFFICES ASSUME WorkInv, [WorkersNext]_workerVars PROVE WorkInv'
  OBVIOUS
<1>1. ASSUME NEW a \in Actors, NEW o \in OperationIDs,
             StartProof(a, o) \/ StartBroadcast(a, o) \/ StartDaemonBroadcast(a, o) \/ StartRollback(a, o)
      PROVE  WorkInv'
  BY <1>1, StartProofInv, StartBroadcastInv, StartDaemonBroadcastInv, StartRollbackInv
<1>2. ASSUME NEW a \in Actors, Crash(a) PROVE WorkInv'
  BY <1>2, NoCall, IdleStep DEF Crash
<1>3. ASSUME NEW a \in Actors, SkipSend(a) PROVE WorkInv'
  BY <1>3, NoCall, GotoStep DEF SkipSend, At, jobVars
<1>4. ASSUME NEW a \in Actors, Step(a) PROVE WorkInv'
  BY <1>3, <1>4, LeaseForProofInv, MoveToProvingInv, MarkReadyInv, UndoInv, HoldLeaseInv,
     RecordBroadcastInv, ClearTakenInv, ReclaimInv, ReturnToReservedInv, SendInv, ProveInv,
     SaveProofResultInv, CheckLinksInv, CheckNullifiersInv, ReleaseStaleInv DEF Step
<1>5. ASSUME NEW a \in Actors, StartSweep(a) \/ \E now \in Now : Heartbeat(a, now) PROVE WorkInv'
  BY <1>5, StartSweepInv, HeartbeatInv
<1>6. CASE Include
  BY <1>6, NoCall, OthersInv DEF Include
<1>7. CASE ElapseTime
  BY <1>7, ElapseTimeInv
<1>8. CASE UNCHANGED workerVars
  BY <1>8, NoCall, OthersInv DEF workerVars, StoreUnchanged
<1> QED BY <1>1, <1>2, <1>4, <1>5, <1>6, <1>7, <1>8 DEF WorkersNext

(* The invariant of the workers. *)
THEOREM WorkersSafety == WorkersSpec => []WorkInv
BY WorkInitInv, WorkStepInv, PTL DEF WorkersSpec

(* For every number of workers and faults: a note whose message was given   *)
(* to a node is never Reserved, Proving or Released again.                  *)
THEOREM HandedSafe == WorkersSpec => []HandedStaysHeld
<1>1. WorkInv => HandedStaysHeld
  BY DEF WorkInv, HandedStaysHeld, Advanced
<1> QED BY <1>1, WorkersSafety, PTL

(* For every number of workers and faults: an operation leaves Planned only *)
(* when its proof result has been saved.                                    *)
THEOREM ArtifactSafe == WorkersSpec => []ArtifactBeforeStatus
<1>1. WorkInv => ArtifactBeforeStatus
  BY DEF WorkInv
<1> QED BY <1>1, WorkersSafety, PTL

-----------------------------------------------------------------------------
(* Whose message is sent under a lease.  A saved result, or a broadcaster   *)
(* that still goes by the leases of one, claims that token t of note r      *)
(* stands for the message m; a proof worker holds the token until it has    *)
(* marked its notes.                                                        *)
CopyPC == {"links", "hold", "check", "send"}

Claimed(r, t, m) ==
    \/ \E o \in DOMAIN results :
         r \in DOMAIN results[o].refs /\ results[o].refs[r] = t /\ results[o].msg = m
    \/ \E b \in Broadcasters :
         /\ job[b].pc \in CopyPC /\ r \in DOMAIN job[b].refs \ job[b].taken
         /\ job[b].refs[r] = t /\ job[b].msg = m

Holds(a, r, t) == job[a].pc \in ProofPC /\ r \in DOMAIN job[a].refs /\ job[a].refs[r] = t

Ready(r, t) == reservations[r].status = "ProofReady" /\ reservations[r].token = t

Past(j) == (j.pc \in {"check", "send"} \/ (j.pc = "hold" /\ j.done # {})) /\ j.taken = {}

Expects(o, m) == o \in DOMAIN operations /\ operations[o].expected = m

(* A claimed token under which a note is ProofReady stands for the message  *)
(* the operation expects; a token is held by one proof worker, which is the *)
(* one that saved what is claimed, and its note is not ProofReady yet.      *)
LeaseInv ==
    /\ \A r \in DOMAIN reservations : reservations[r].op \in DOMAIN operations \ {None}
    /\ \A r, t, m : Claimed(r, t, m) =>
         /\ t # 0 /\ m \in Digests
         /\ Ready(r, t) => Expects(reservations[r].op, m)
         /\ \A a \in Actors : Holds(a, r, t) => job[a].pc = "mark" /\ job[a].msg = m
    /\ \A a \in Actors : \A r, t : Holds(a, r, t) =>
         /\ t # 0 /\ ~Ready(r, t)
         /\ \A c \in Actors : Holds(c, r, t) => c = a
    /\ \A a \in Actors : job[a].pc \in {"save", "mark"} => job[a].msg \in Digests
    /\ \A b \in Broadcasters : Past(job[b]) => Expects(job[b].op, job[b].msg) /\ job[b].msg \in Digests

(* randomToken and the prover's randomness never repeat a value in use. *)
DrawsFresh ==
    /\ \A a \in Actors, r \in DOMAIN reservations : FreshToken(a, r) \notin TokensInUse \cup {0}
    /\ \A a \in Actors : FreshDigest(a) \in Digests

Fresh(t) == t \notin TokensInUse \cup {0}

(* A call that marks no note ProofReady and changes no expected message; a  *)
(* lease is kept, cleared, or taken with a fresh token.                     *)
QuietStore ==
    /\ Grown(reservations, reservations')
    /\ \A r \in DOMAIN reservations :
         /\ reservations'[r].status = "ProofReady" => reservations[r].status = "ProofReady"
         /\ reservations'[r].token \in {reservations[r].token, 0} \/ Fresh(reservations'[r].token)
    /\ DOMAIN operations \subseteq DOMAIN operations'
    /\ \A o \in DOMAIN operations : operations'[o].expected = operations[o].expected

(* What the next job j of process a claims was claimed, and what it holds   *)
(* it held or has just drawn.                                               *)
NextJobOK(a, j) ==
    /\ a \in Broadcasters /\ j.pc \in CopyPC =>
         \A r \in DOMAIN j.refs \ j.taken : Claimed(r, j.refs[r], j.msg)
    /\ a \in Broadcasters /\ Past(j) => Expects(j.op, j.msg) /\ j.msg \in Digests
    /\ j.pc \in ProofPC =>
         \A r \in DOMAIN j.refs :
            \/ Holds(a, r, j.refs[r])
            \/ Fresh(j.refs[r]) /\ reservations'[r].status # "ProofReady"
    /\ j.pc \in {"save", "mark"} => j.msg \in Digests
    /\ job[a].pc = "mark" /\ j.pc \in ProofPC => j.pc = "mark" /\ j.msg = job[a].msg

(* Tokens that are claimed or held are in use. *)
LEMMA InUse ==
    /\ \A r, t, m : Claimed(r, t, m) => t \in TokensInUse
    /\ \A a \in Actors : \A r, t : Holds(a, r, t) => t \in TokensInUse
<1> DEFINE ofJobs == UNION {{job[a].refs[r] : r \in DOMAIN job[a].refs} : a \in Actors}
           ofResults == UNION {{results[o].refs[r] : r \in DOMAIN results[o].refs} : o \in DOMAIN results}
<1>1. ofJobs \subseteq TokensInUse /\ ofResults \subseteq TokensInUse
  <2> DEFINE ofNotes == {reservations[r].token : r \in DOMAIN reservations}
  <2>1. TokensInUse = ofNotes \cup ofJobs \cup ofResults
    BY ZenonT(120) DEF TokensInUse
  <2> HIDE DEF ofNotes, ofJobs, ofResults
  <2> QED BY <2>1
<1>2. \A a \in Actors : \A r \in DOMAIN job[a].refs : job[a].refs[r] \in ofJobs
  BY SMTT(120)
<1>3. \A o \in DOMAIN results : \A r \in DOMAIN results[o].refs : results[o].refs[r] \in ofResults
  BY SMTT(120)
<1> HIDE DEF ofJobs, ofResults
<1> QED BY <1>1, <1>2, <1>3 DEF Claimed, Holds, Actors

(* They are tokens of reservations that exist. *)
LEMMA NotesExist ==
    ASSUME WorkInv
    PROVE  /\ \A r, t, m : Claimed(r, t, m) => r \in DOMAIN reservations
           /\ \A a \in Actors : \A r, t : Holds(a, r, t) => r \in DOMAIN reservations
<1>1. \A o \in DOMAIN results : \A r \in DOMAIN results[o].refs : r \in DOMAIN reservations
  BY DEF WorkInv, ResultsOK
<1>2. \A a \in Actors : job[a].pc \notin {"idle", "release"} => DOMAIN job[a].refs \subseteq DOMAIN reservations
  BY DEF WorkInv, JobOK
<1> QED BY <1>1, <1>2 DEF Claimed, Holds, CopyPC, ProofPC, Actors

(* A step of one process on a quiet store. *)
LEMMA LeaseStep ==
    ASSUME WorkInv, LeaseInv, NEW a \in Actors, NEW j, Do(a, j), NextJobOK(a, j), QuietStore,
           results' = results
    PROVE  LeaseInv'
<1>1. job'[a] = j /\ \A x \in Actors : x # a => job'[x] = job[x]
  BY DEF Do, WorkInv
<1>2. ASSUME NEW r, NEW t, NEW m, Claimed(r, t, m)' PROVE Claimed(r, t, m)
  <2>1. CASE \E o \in DOMAIN results :
               r \in DOMAIN results[o].refs /\ results[o].refs[r] = t /\ results[o].msg = m
    BY <2>1 DEF Claimed
  <2>2. ASSUME NEW b \in Broadcasters, job'[b].pc \in CopyPC, r \in DOMAIN job'[b].refs \ job'[b].taken,
               job'[b].refs[r] = t, job'[b].msg = m
        PROVE  Claimed(r, t, m)
    <3>1. CASE b = a
      BY <1>1, <2>2, <3>1 DEF NextJobOK
    <3>2. CASE b # a
      BY <1>1, <2>2, <3>2 DEF Claimed, Actors
    <3> QED BY <3>1, <3>2
  <2> QED BY <1>2, <2>1, <2>2 DEF Claimed
<1>3. ASSUME NEW x \in Actors, NEW r, NEW t, Holds(x, r, t)'
      PROVE  Holds(x, r, t) \/ (x = a /\ Fresh(t) /\ reservations'[r].status # "ProofReady")
  <2>1. CASE x = a
    BY <1>1, <1>3, <2>1 DEF Holds, NextJobOK
  <2>2. CASE x # a
    BY <1>1, <1>3, <2>2 DEF Holds
  <2> QED BY <2>1, <2>2
<1>4. ASSUME NEW r \in DOMAIN reservations, NEW t, t \in TokensInUse, t # 0, Ready(r, t)'
      PROVE  Ready(r, t)
  BY <1>4 DEF Ready, QuietStore, Fresh
<1>5. \A o, m : Expects(o, m) => Expects(o, m)'
  BY DEF Expects, QuietStore
<1>6. \A r \in DOMAIN reservations' : reservations'[r].op \in DOMAIN operations' \ {None}
  BY DEF LeaseInv, QuietStore, Grown
<1>7. ASSUME NEW r, NEW t, NEW m, Claimed(r, t, m)'
      PROVE  /\ t # 0 /\ m \in Digests
             /\ Ready(r, t)' => Expects(reservations[r].op, m)'
             /\ \A x \in Actors : Holds(x, r, t)' => job'[x].pc = "mark" /\ job'[x].msg = m
  <2>1. Claimed(r, t, m) /\ t \in TokensInUse /\ r \in DOMAIN reservations
    BY <1>2, <1>7, InUse, NotesExist
  <2>2. t # 0 /\ m \in Digests /\ (Ready(r, t) => Expects(reservations[r].op, m))
    BY <2>1 DEF LeaseInv
  <2>3. Ready(r, t)' => Expects(reservations[r].op, m)'
    <3> SUFFICES ASSUME Ready(r, t)' PROVE Expects(reservations[r].op, m)'
      OBVIOUS
    <3>1. reservations'[r].op = reservations[r].op
      BY <2>1 DEF QuietStore, Grown
    <3>2. Expects(reservations[r].op, m)
      BY <1>4, <2>1, <2>2
    <3> QED BY <3>1, <3>2 DEF Expects, QuietStore
  <2>4. ASSUME NEW x \in Actors, Holds(x, r, t)' PROVE job'[x].pc = "mark" /\ job'[x].msg = m
    <3>1. Holds(x, r, t)
      BY <1>3, <2>1, <2>4 DEF Fresh
    <3>2. job[x].pc = "mark" /\ job[x].msg = m
      BY SMTT(120), <2>1, <3>1 DEF LeaseInv
    <3>3. CASE x = a
      BY <1>1, <2>4, <3>2, <3>3 DEF NextJobOK, Holds
    <3>4. CASE x # a
      BY <1>1, <3>2, <3>4
    <3> QED BY <3>3, <3>4
  <2> QED BY <2>2, <2>3, <2>4
<1>8. ASSUME NEW x \in Actors, NEW r, NEW t, Holds(x, r, t)'
      PROVE  t # 0 /\ ~Ready(r, t)' /\ \A c \in Actors : Holds(c, r, t)' => c = x
  <2>1. CASE Holds(x, r, t)
    <3>1. t # 0 /\ ~Ready(r, t) /\ t \in TokensInUse /\ r \in DOMAIN reservations
      BY <2>1, InUse, NotesExist DEF LeaseInv
    <3>2. \A c \in Actors : Holds(c, r, t)' => c = x
      BY <1>3, <2>1, <3>1 DEF LeaseInv, Fresh
    <3> QED BY <1>4, <3>1, <3>2
  <2>2. CASE x = a /\ Fresh(t) /\ reservations'[r].status # "ProofReady"
    BY <1>3, <2>2, InUse DEF Fresh, Ready
  <2> QED BY <1>3, <1>8, <2>1, <2>2
<1>9. ASSUME NEW x \in Actors, job'[x].pc \in {"save", "mark"} PROVE job'[x].msg \in Digests
  BY <1>1, <1>9 DEF LeaseInv, NextJobOK
<1>10. ASSUME NEW b \in Broadcasters, Past(job'[b])
       PROVE  Expects(job[b].op, job[b].msg)' /\ job'[b].msg \in Digests
  <2>1. Expects(job'[b].op, job'[b].msg) /\ job'[b].msg \in Digests
    <3>1. CASE b = a
      BY <1>1, <1>10, <3>1 DEF NextJobOK
    <3>2. CASE b # a
      BY <1>1, <1>10, <3>2 DEF LeaseInv, Actors
    <3> QED BY <3>1, <3>2
  <2> QED BY <2>1 DEF Expects, QuietStore
<1> QED BY <1>6, <1>7, <1>8, <1>9, <1>10 DEF LeaseInv, Past

-----------------------------------------------------------------------------
(* The calls that are quiet. *)
LEMMA QuietRecord ==
    ASSUME WorkInv, NEW r \in DOMAIN reservations, NEW rec, StoreReservations([x \in {r} |-> rec]),
           StoreOK, operations' = operations,
           rec.status = "ProofReady" => reservations[r].status = "ProofReady",
           rec.token \in {reservations[r].token, 0} \/ Fresh(rec.token)
    PROVE  QuietStore
<1> DEFINE upd == [x \in {r} |-> rec]
<1>1. /\ DOMAIN upd = {r} /\ upd[r] = rec
  OBVIOUS
<1> HIDE DEF upd
<1>2. /\ reservations'[r] = rec
      /\ \A x \in DOMAIN reservations : x # r => reservations'[x] = reservations[x]
  BY <1>1, Written DEF upd
<1> QED BY <1>2 DEF QuietStore, StoreOK

(* A step that does not reach the store. *)
LEMMA QuietNoCall ==
    ASSUME WorkInv, StoreUnchanged
    PROVE  QuietStore /\ StoreOK /\ reservations' = reservations
BY NoCall DEF QuietStore, StoreOK, StoreUnchanged, storeVars

(* AcquireLease draws a fresh token and leaves the status alone. *)
LEMMA QuietTakeLease ==
    ASSUME WorkInv, DrawsFresh, NEW a \in Actors, NEW now, NEW r \in DOMAIN reservations,
           TakeLease(a, r, now)
    PROVE  /\ QuietStore /\ Fresh(FreshToken(a, r))
           /\ reservations'[r].status = reservations[r].status
<1> DEFINE t == FreshToken(a, r)
           rec == [reservations[r] EXCEPT !.token = t, !.until = now + TTL]
<1>1. StoreReservations([x \in {r} |-> rec]) /\ operations' = operations /\ StoreOK
  <2>1. StoreReservations([x \in {r} |-> rec]) /\ operations' = operations
    BY DEF TakeLease
  <2>2. StoreOK
    BY TakeLeaseOK
  <2> QED BY <2>1, <2>2
<1>2. IsReservation(reservations[r])
  BY DEF WorkInv, RecordsOK
<1>3. Fresh(t)
  BY DEF DrawsFresh, Fresh
<1> HIDE DEF t
<1>4. rec.status = reservations[r].status /\ rec.token = t
  BY <1>2 DEF IsReservation, IsFunction
<1>5. reservations'[r] = rec
  BY SMTT(120), <1>1, Written
<1> HIDE DEF rec
<1> QED BY <1>1, <1>3, <1>4, <1>5, QuietRecord DEF t

(* HeartbeatLease keeps the token. *)
LEMMA QuietHeartbeat ==
    ASSUME WorkInv, NEW r, NEW token, NEW now, HeartbeatLease(r, token, now, TTL)
    PROVE  QuietStore
<1> DEFINE rec == [reservations[r] EXCEPT !.until = now + TTL]
<1>1. /\ r \in DOMAIN reservations /\ StoreOK
      /\ StoreReservations([x \in {r} |-> rec]) /\ operations' = operations
  BY HeartbeatOK DEF HeartbeatLease
<1>2. IsReservation(reservations[r])
  BY <1>1 DEF WorkInv, RecordsOK
<1>3. rec.status = reservations[r].status /\ rec.token = reservations[r].token
  BY <1>2 DEF IsReservation, IsFunction
<1> HIDE DEF rec
<1> QED BY <1>1, <1>3, QuietRecord

(* ClearReservationLease drops the token. *)
LEMMA QuietClearLease ==
    ASSUME WorkInv, NEW r, NEW token, NEW now, ClearReservationLease(r, token, now)
    PROVE  QuietStore
<1> DEFINE rec == ClearLease(reservations[r])
<1>1. /\ r \in DOMAIN reservations /\ StoreOK
      /\ StoreReservations([x \in {r} |-> rec]) /\ operations' = operations
  BY ClearLeaseOK DEF ClearReservationLease
<1>2. IsReservation(reservations[r])
  BY <1>1 DEF WorkInv, RecordsOK
<1>3. rec.status = reservations[r].status /\ rec.token = 0
  BY <1>2 DEF IsReservation, IsFunction, ClearLease
<1> HIDE DEF rec
<1> QED BY <1>1, <1>3, QuietRecord

(* A move among Reserved, Proving and Released readies no note. *)
LEMMA QuietMove ==
    ASSUME WorkInv, NEW r, NEW from \in {"Reserved", "Proving"},
           NEW to \in {"Reserved", "Proving", "Released"}, CanMove(r, from, to),
           StoreReservations([x \in {r} |-> Moved(reservations[r], to)]), UNCHANGED operations
    PROVE  QuietStore
<1> DEFINE rec == Moved(reservations[r], to)
<1>1. /\ r \in DOMAIN reservations /\ StoreOK
      /\ StoreReservations([x \in {r} |-> rec]) /\ operations' = operations
  BY MoveOK DEF CanMove
<1>2. IsReservation(reservations[r])
  BY <1>1 DEF WorkInv, RecordsOK
<1>3. rec.status = to /\ rec.token \in {reservations[r].token, 0}
  BY <1>2 DEF IsReservation, IsFunction, Moved, ClearLease
<1> HIDE DEF rec
<1> QED BY <1>1, <1>3, QuietRecord

(* Recording a broadcast readies no note and keeps the expected message. *)
LEMMA QuietBroadcast ==
    ASSUME WorkInv, NEW status \in {"Submitted", "Unknown"}, NEW refs, NEW tx, NEW now,
           MarkBroadcast(status, refs, tx, now), StoreOK
    PROVE  QuietStore
<1> DEFINE upd == [r \in DOMAIN refs |->
                     ClearLease([reservations[r] EXCEPT !.status = status, !.tx = tx])]
           new == [o \in LinkedOps(refs) |-> [operations[o] EXCEPT !.status = status, !.tx = tx]]
<1>1. /\ StoreReservations(upd) /\ operations' = Updated(operations, new)
      /\ DOMAIN refs \subseteq DOMAIN reservations /\ LinkedOps(refs) \subseteq DOMAIN operations
  BY DEF MarkBroadcast, LeasedAt
<1>2. ASSUME NEW r \in DOMAIN refs PROVE upd[r].status = status /\ upd[r].token = 0
  <2>1. IsReservation(reservations[r])
    BY <1>1 DEF WorkInv, RecordsOK
  <2> QED BY <2>1 DEF IsReservation, IsFunction, ClearLease
<1>3. ASSUME NEW o \in DOMAIN new PROVE new[o].expected = operations[o].expected
  <2>1. IsOperation(operations[o])
    BY <1>1 DEF WorkInv, RecordsOK
  <2> QED BY <2>1 DEF IsOperation, IsFunction
<1>4. DOMAIN upd = DOMAIN refs /\ DOMAIN new = LinkedOps(refs)
  OBVIOUS
<1> HIDE DEF upd, new
<1>5. /\ \A r \in DOMAIN upd : reservations'[r] = upd[r]
      /\ \A r \in DOMAIN reservations \ DOMAIN upd : reservations'[r] = reservations[r]
  BY <1>1, <1>4, Written
<1>6. \A r \in DOMAIN reservations :
         /\ reservations'[r].status = "ProofReady" => reservations[r].status = "ProofReady"
         /\ reservations'[r].token \in {reservations[r].token, 0}
  BY <1>2, <1>4, <1>5
<1>7. /\ DOMAIN operations \subseteq DOMAIN operations'
      /\ \A o \in DOMAIN operations : operations'[o].expected = operations[o].expected
  BY <1>1, <1>3, <1>4 DEF Updated
<1> QED BY <1>6, <1>7 DEF QuietStore, StoreOK

(* A process that neither proves nor broadcasts from here on. *)
LEMMA Ends ==
    ASSUME WorkInv, LeaseInv, NEW a \in Actors, NEW j, Do(a, j), j.pc \notin ProofPC \cup CopyPC,
           QuietStore, results' = results
    PROVE  LeaseInv'
<1>1. NextJobOK(a, j)
  BY DEF NextJobOK, Past, ProofPC, CopyPC
<1> QED BY <1>1, LeaseStep

(* A process ends its job, or goes on to undo it. *)
LEMMA IdleLease ==
    ASSUME WorkInv, LeaseInv, NEW a \in Actors, Idle(a), QuietStore, results' = results
    PROVE  LeaseInv'
<1>1. NoJob.pc \notin ProofPC \cup CopyPC
  BY DEF NoJob, ProofPC, CopyPC
<1> QED BY <1>1, Ends DEF Idle

(* A process that turns to undoing or clearing claims and holds nothing. *)
LEMMA GotoLease ==
    ASSUME WorkInv, LeaseInv, NEW a \in Actors, NEW pc \in {"undo", "clear"}, Goto(a, pc), QuietStore,
           results' = results
    PROVE  LeaseInv'
<1> DEFINE j == [job[a] EXCEPT !.pc = pc]
<1>1. IsJob(job[a])
  BY DEF WorkInv, JobOK
<1>2. j.pc \notin ProofPC \cup CopyPC
  BY <1>1 DEF IsJob, IsFunction, ProofPC, CopyPC
<1> HIDE DEF j
<1> QED BY <1>2, Ends DEF Goto, j

-----------------------------------------------------------------------------
(* A process that goes on with the leases, the message and the operation it *)
(* has.                                                                     *)
LEMMA GoesOn ==
    ASSUME WorkInv, LeaseInv, NEW a \in Actors, NEW j, Do(a, j), QuietStore, results' = results,
           job[a].pc \in ProofPC \/ j.pc \notin ProofPC,
           job[a].pc \in CopyPC \/ j.pc \notin CopyPC,
           j.refs = job[a].refs, j.taken = job[a].taken, j.msg = job[a].msg, j.op = job[a].op,
           a \in Broadcasters /\ Past(j) => Past(job[a]),
           j.pc \in {"save", "mark"} => job[a].pc = j.pc,
           job[a].pc = "mark" => j.pc = "mark"
    PROVE  LeaseInv'
<1>1. a \in Broadcasters /\ j.pc \in CopyPC =>
         \A r \in DOMAIN j.refs \ j.taken : Claimed(r, j.refs[r], j.msg)
  BY DEF Claimed
<1>2. a \in Broadcasters /\ Past(j) => Expects(j.op, j.msg) /\ j.msg \in Digests
  BY DEF LeaseInv
<1>3. j.pc \in ProofPC => \A r \in DOMAIN j.refs : Holds(a, r, j.refs[r])
  BY DEF Holds
<1>4. j.pc \in {"save", "mark"} => j.msg \in Digests
  BY DEF LeaseInv
<1>5. NextJobOK(a, j)
  BY <1>1, <1>2, <1>3, <1>4 DEF NextJobOK
<1> QED BY <1>5, LeaseStep

(* The proof worker begins without a lease. *)
LEMMA StartProofLease ==
    ASSUME WorkInv, LeaseInv, NEW a \in Actors, NEW o \in OperationIDs, StartProof(a, o)
    PROVE  LeaseInv'
<1> DEFINE group == NotesOf(o, IF a \in Daemons THEN {"Reserved"} ELSE ReservationStatus)
           j == [NoJob EXCEPT !.pc = "lease", !.op = o, !.notes = group]
<1>1. Do(a, j) /\ StoreUnchanged /\ results' = results /\ job[a].pc = "idle"
  BY DEF StartProof, At, jobVars
<1> HIDE DEF group
<1>2. j.pc = "lease" /\ DOMAIN j.refs = {}
  BY DEF NoJob, NoRefs
<1> HIDE DEF j
<1>3. NextJobOK(a, j)
  BY <1>1, <1>2 DEF NextJobOK, Past, CopyPC
<1> QED BY <1>1, <1>3, QuietNoCall, LeaseStep

(* A proof worker draws a token that nobody holds or claims. *)
LEMMA LeaseForProofLease ==
    ASSUME WorkInv, LeaseInv, DrawsFresh, NEW a \in Actors, NEW now, LeaseForProof(a, now)
    PROVE  LeaseInv'
<1>1. job[a].pc = "lease" /\ results' = results
  BY DEF LeaseForProof, At, jobVars
<1>2. JobOK(job[a], reservations, DOMAIN results)
  BY DEF WorkInv
<1>3. PICK r \in job[a].notes \ DOMAIN job[a].refs :
         \/ /\ MayTake(r, "Reserved", now) /\ TakeLease(a, r, now)
            /\ Do(a, [job[a] EXCEPT !.pc = "move", !.refs = Updated(@, [x \in {r} |-> FreshToken(a, r)])])
         \/ Goto(a, "undo") /\ StoreUnchanged
  BY DEF LeaseForProof
<1>4. CASE Goto(a, "undo") /\ StoreUnchanged
  BY <1>1, <1>4, QuietNoCall, GotoLease
<1>5. CASE /\ MayTake(r, "Reserved", now) /\ TakeLease(a, r, now)
           /\ Do(a, [job[a] EXCEPT !.pc = "move", !.refs = Updated(@, [x \in {r} |-> FreshToken(a, r)])])
  <2> DEFINE refs == Updated(job[a].refs, [x \in {r} |-> FreshToken(a, r)])
             j == [job[a] EXCEPT !.pc = "move", !.refs = refs]
  <2>1. /\ QuietStore /\ Fresh(FreshToken(a, r))
        /\ reservations'[r].status = "Reserved"
    BY <1>2, <1>5, QuietTakeLease DEF JobOK, MayTake
  <2>2. /\ DOMAIN refs = DOMAIN job[a].refs \cup {r} /\ refs[r] = FreshToken(a, r)
        /\ \A x \in DOMAIN job[a].refs : refs[x] = job[a].refs[x]
    BY DEF Updated
  <2>3. Do(a, j)
    BY <1>5
  <2> HIDE DEF refs
  <2>4. j.pc = "move" /\ j.refs = refs
    BY <1>2 DEF JobOK, IsJob, IsFunction
  <2> HIDE DEF j
  <2>5. \A x \in DOMAIN job[a].refs : Holds(a, x, job[a].refs[x])
    BY <1>1 DEF Holds, ProofPC
  <2>6. \A x \in DOMAIN j.refs :
           Holds(a, x, j.refs[x]) \/ (Fresh(j.refs[x]) /\ reservations'[x].status # "ProofReady")
    BY <2>1, <2>2, <2>4, <2>5
  <2>7. NextJobOK(a, j)
    BY <1>1, <2>4, <2>6 DEF NextJobOK, Past, CopyPC
  <2> QED BY <1>1, <2>1, <2>3, <2>7, LeaseStep
<1> QED BY <1>3, <1>4, <1>5

(* Moving a leased note to Proving keeps the token the worker holds. *)
LEMMA MoveToProvingLease ==
    ASSUME WorkInv, LeaseInv, NEW a \in Actors, NEW now, MoveToProving(a, now)
    PROVE  LeaseInv'
<1>1. job[a].pc = "move" /\ results' = results
  BY DEF MoveToProving, At
<1>2. JobOK(job[a], reservations, DOMAIN results)
  BY DEF WorkInv
<1>3. PICK r \in DOMAIN job[a].refs \ job[a].done :
         \/ /\ TransitionWithLease(r, job[a].refs[r], "Reserved", "Proving", now)
            /\ \/ \E pc \in {"prove", "lease"} : Do(a, [job[a] EXCEPT !.done = @ \cup {r}, !.pc = pc])
               \/ Goto(a, "undo")
         \/ Goto(a, "undo") /\ StoreUnchanged
  BY DEF MoveToProving
<1>4. QuietStore
  <2>1. CASE TransitionWithLease(r, job[a].refs[r], "Reserved", "Proving", now)
    BY <2>1, QuietMove DEF TransitionWithLease
  <2> QED BY <1>3, <2>1, QuietNoCall
<1>5. CASE Goto(a, "undo")
  BY <1>1, <1>4, <1>5, GotoLease
<1>6. ASSUME NEW pc \in {"prove", "lease"}, Do(a, [job[a] EXCEPT !.done = @ \cup {r}, !.pc = pc])
      PROVE  LeaseInv'
  <2> DEFINE j == [job[a] EXCEPT !.done = @ \cup {r}, !.pc = pc]
  <2>1. /\ j.pc = pc /\ j.op = job[a].op /\ j.refs = job[a].refs /\ j.taken = job[a].taken
        /\ j.msg = job[a].msg
    BY <1>2 DEF JobOK, IsJob, IsFunction
  <2> HIDE DEF j
  <2>2. Do(a, j)
    BY <1>6 DEF j
  <2> QED BY <1>1, <1>4, <2>1, <2>2, GoesOn DEF ProofPC, CopyPC, Past
<1> QED BY <1>3, <1>5, <1>6

(* The prover hands the worker a message of its own; its tokens stay held. *)
LEMMA ProveLease ==
    ASSUME WorkInv, LeaseInv, DrawsFresh, NEW a \in Actors, Prove(a)
    PROVE  LeaseInv'
<1>1. job[a].pc = "prove" /\ results' = results /\ QuietStore
  BY QuietNoCall DEF Prove, At, jobVars
<1>2. JobOK(job[a], reservations, DOMAIN results)
  BY DEF WorkInv
<1>3. CASE Goto(a, "undo")
  BY <1>1, <1>3, GotoLease
<1>4. CASE Do(a, [job[a] EXCEPT !.pc = "save", !.msg = FreshDigest(a)])
  <2> DEFINE d == FreshDigest(a)
             j == [job[a] EXCEPT !.pc = "save", !.msg = d]
  <2>1. d \in Digests
    BY DEF DrawsFresh
  <2>2. Do(a, j)
    BY <1>4
  <2> HIDE DEF d
  <2>3. j.pc = "save" /\ j.refs = job[a].refs /\ j.msg = d
    BY <1>2 DEF JobOK, IsJob, IsFunction
  <2> HIDE DEF j
  <2>4. \A r \in DOMAIN j.refs : Holds(a, r, j.refs[r])
    BY <1>1, <2>3 DEF Holds, ProofPC
  <2>5. NextJobOK(a, j)
    BY <1>1, <2>1, <2>3, <2>4 DEF NextJobOK, Past, CopyPC
  <2> QED BY <1>1, <2>2, <2>5, LeaseStep
<1> QED BY <1>3, <1>4 DEF Prove

(* What a proof worker saves was claimed by nobody before, and none of its  *)
(* notes is ProofReady yet.                                                 *)
LEMMA SaveProofResultLease ==
    ASSUME WorkInv, LeaseInv, NEW a \in Actors, SaveProofResult(a)
    PROVE  LeaseInv'
<1>1. job[a].pc = "save" /\ StoreUnchanged
  BY DEF SaveProofResult, At
<1>2. JobOK(job[a], reservations, DOMAIN results)
  BY DEF WorkInv
<1>3. reservations' = reservations /\ operations' = operations
  BY <1>1 DEF StoreUnchanged, storeVars
<1>4. CASE Goto(a, "undo") /\ results' = results
  BY <1>1, <1>4, QuietNoCall, GotoLease
<1>5. CASE /\ results' = Updated(results,
                [o \in {job[a].op} |-> [msg |-> job[a].msg, refs |-> job[a].refs]])
           /\ Goto(a, "mark")
  <2> DEFINE j == [job[a] EXCEPT !.pc = "mark"]
  <2>1. /\ DOMAIN results' = DOMAIN results \cup {job[a].op}
        /\ results'[job[a].op].msg = job[a].msg /\ results'[job[a].op].refs = job[a].refs
        /\ \A o \in DOMAIN results : o # job[a].op => results'[o] = results[o]
    BY <1>5 DEF Updated
  <2>2. j.pc = "mark" /\ j.refs = job[a].refs /\ j.msg = job[a].msg
    BY <1>2 DEF JobOK, IsJob, IsFunction
  <2> HIDE DEF j
  <2>3. job'[a] = j /\ \A x \in Actors : x # a => job'[x] = job[x]
    BY <1>5 DEF Goto, Do, WorkInv, j
  <2>4. \A x \in Actors : \A r, t : Holds(x, r, t)' <=> Holds(x, r, t)
    BY <1>1, <2>2, <2>3 DEF Holds, ProofPC
  <2>5. ASSUME NEW r, NEW t, NEW m, Claimed(r, t, m)'
        PROVE  Claimed(r, t, m) \/ (Holds(a, r, t) /\ m = job[a].msg)
    <3>1. ASSUME NEW o \in DOMAIN results', r \in DOMAIN results'[o].refs, results'[o].refs[r] = t,
                 results'[o].msg = m
          PROVE  Claimed(r, t, m) \/ (Holds(a, r, t) /\ m = job[a].msg)
      <4>1. CASE o = job[a].op
        BY <1>1, <2>1, <3>1, <4>1 DEF Holds, ProofPC
      <4>2. CASE o # job[a].op
        BY <2>1, <3>1, <4>2 DEF Claimed
      <4> QED BY <4>1, <4>2
    <3>2. ASSUME NEW b \in Broadcasters, job'[b].pc \in CopyPC, r \in DOMAIN job'[b].refs \ job'[b].taken,
                 job'[b].refs[r] = t, job'[b].msg = m
          PROVE  Claimed(r, t, m)
      <4>1. b # a
        BY <2>2, <2>3, <3>2 DEF CopyPC
      <4> QED BY <2>3, <3>2, <4>1 DEF Claimed, Actors
    <3> QED BY <2>5, <3>1, <3>2 DEF Claimed
  <2>6. ASSUME NEW r, NEW t, NEW m, Claimed(r, t, m)'
        PROVE  /\ t # 0 /\ m \in Digests
               /\ Ready(r, t)' => Expects(reservations[r].op, m)'
               /\ \A x \in Actors : Holds(x, r, t)' => job'[x].pc = "mark" /\ job'[x].msg = m
    <3>1. CASE Claimed(r, t, m)
      <4>1. /\ t # 0 /\ m \in Digests /\ (Ready(r, t) => Expects(reservations[r].op, m))
            /\ \A x \in Actors : Holds(x, r, t) => job[x].pc = "mark" /\ job[x].msg = m
        BY SMTT(120), <3>1 DEF LeaseInv
      <4>2. \A x \in Actors : Holds(x, r, t)' => x # a
        BY <1>1, <2>4, <4>1
      <4> QED BY <1>3, <2>3, <2>4, <4>1, <4>2 DEF Ready, Expects
    <3>2. CASE Holds(a, r, t) /\ m = job[a].msg
      <4>1. t # 0 /\ ~Ready(r, t) /\ m \in Digests /\ \A x \in Actors : Holds(x, r, t) => x = a
        BY <1>1, <3>2 DEF LeaseInv
      <4> QED BY <1>3, <2>2, <2>3, <2>4, <3>2, <4>1 DEF Ready
    <3> QED BY <2>5, <2>6, <3>1, <3>2
  <2>7. \A r, t : Ready(r, t)' <=> Ready(r, t)
    BY <1>3 DEF Ready
  <2>8. ASSUME NEW x \in Actors, job'[x].pc \in {"save", "mark"} PROVE job'[x].msg \in Digests
    BY <1>1, <2>2, <2>3, <2>8 DEF LeaseInv
  <2>9. ASSUME NEW b \in Broadcasters, Past(job'[b])
        PROVE  Expects(job[b].op, job[b].msg)' /\ job'[b].msg \in Digests
    <3>1. b # a
      BY <2>2, <2>3, <2>9 DEF Past
    <3>2. job'[b] = job[b]
      BY <2>3, <3>1 DEF Actors
    <3> QED BY <1>3, <2>9, <3>2 DEF LeaseInv, Expects
  <2>10. \A r \in DOMAIN reservations' : reservations'[r].op \in DOMAIN operations' \ {None}
    BY <1>3 DEF LeaseInv
  <2>11. ASSUME NEW x \in Actors, NEW r, NEW t, Holds(x, r, t)'
         PROVE  t # 0 /\ ~Ready(r, t)' /\ \A c \in Actors : Holds(c, r, t)' => c = x
    <3>1. Holds(x, r, t)
      BY <2>4, <2>11
    <3>2. t # 0 /\ ~Ready(r, t) /\ \A c \in Actors : Holds(c, r, t) => c = x
      BY <3>1 DEF LeaseInv
    <3> QED BY <2>4, <2>7, <3>2
  <2>12. \A b \in Broadcasters : Past(job'[b]) => Expects(job[b].op, job[b].msg)' /\ job'[b].msg \in Digests
    BY <2>9
  <2> QED BY <2>6, <2>8, <2>10, <2>11, <2>12 DEF LeaseInv, Past
<1> QED BY <1>4, <1>5 DEF SaveProofResult

(* The notes of a proof worker become ProofReady under the tokens it holds, *)
(* and the operation expects the message the worker saved.                  *)
LEMMA ReadyUnderToken ==
    ASSUME WorkInv, LeaseInv, NEW a \in Actors, NEW now, job[a].pc = "mark",
           MarkProofReady(job[a].refs, job[a].msg, now)
    PROVE  /\ Grown(reservations, reservations') /\ DOMAIN operations' = DOMAIN operations
           /\ \A r \in DOMAIN reservations : reservations'[r].token = reservations[r].token
           /\ \A r \in DOMAIN job[a].refs :
                 Holds(a, r, reservations[r].token) /\ operations'[reservations[r].op].expected = job[a].msg
           /\ \A r \in DOMAIN reservations \ DOMAIN job[a].refs :
                 /\ reservations'[r].status = reservations[r].status
                 /\ reservations[r].status = "ProofReady" =>
                      operations'[reservations[r].op] = operations[reservations[r].op]
           /\ \A o \in DOMAIN operations :
                 operations[o].expected \in Digests => operations'[o].expected = operations[o].expected
<1> DEFINE refs == job[a].refs
           msg == job[a].msg
           merged(o) == CHOOSE d \in Merged(operations[o].expected, msg) : TRUE
           upd == [r \in DOMAIN refs |-> [reservations[r] EXCEPT !.status = "ProofReady"]]
           new == [o \in LinkedOps(refs) |->
                     [operations[o] EXCEPT !.status = "ProofReady", !.expected = merged(o)]]
<1>1. /\ StoreReservations(upd) /\ operations' = Updated(operations, new)
      /\ DOMAIN refs \subseteq DOMAIN reservations /\ LinkedOps(refs) \subseteq DOMAIN operations
      /\ \A r \in DOMAIN refs : refs[r] = reservations[r].token
      /\ \A o \in LinkedOps(refs) : Merged(operations[o].expected, msg) # {}
      /\ LinksComplete(refs, LinkedOps(refs))
  BY DEF MarkProofReady, LeasedAt, LeaseHeld
<1>2. LinkedOps(refs) \subseteq DOMAIN results
  BY OperationHasResult
<1>3. StoreOK
  BY <1>2, MarkProofReadyOK
<1>4. msg \in Digests /\ msg # None
  BY StoreAssumption DEF LeaseInv
<1>5. \A o \in LinkedOps(refs) : merged(o) = msg /\ operations[o].expected \in {None, msg}
  BY <1>1, <1>4 DEF Merged
<1> HIDE DEF merged
<1>6. ASSUME NEW r \in DOMAIN refs PROVE upd[r].token = reservations[r].token
  <2>1. IsReservation(reservations[r])
    BY <1>1 DEF WorkInv, RecordsOK
  <2> QED BY <2>1 DEF IsReservation, IsFunction
<1>7. ASSUME NEW o \in LinkedOps(refs) PROVE new[o].expected = msg
  <2>1. IsOperation(operations[o])
    BY <1>1 DEF WorkInv, RecordsOK
  <2> QED BY <1>5, <2>1 DEF IsOperation, IsFunction
<1>8. DOMAIN upd = DOMAIN refs /\ DOMAIN new = LinkedOps(refs)
  OBVIOUS
<1> HIDE DEF upd, new
<1>9. /\ \A r \in DOMAIN upd : reservations'[r] = upd[r]
      /\ \A r \in DOMAIN reservations \ DOMAIN upd : reservations'[r] = reservations[r]
  BY <1>1, <1>8, Written
<1>10. /\ DOMAIN operations' = DOMAIN operations
       /\ \A o \in LinkedOps(refs) : operations'[o].expected = msg
       /\ \A o \in DOMAIN operations \ LinkedOps(refs) : operations'[o] = operations[o]
  BY <1>1, <1>7, <1>8 DEF Updated
<1>11. \A r \in DOMAIN refs : reservations[r].op \in LinkedOps(refs)
  BY <1>1 DEF LinkedOps, LeaseInv
<1>12. ASSUME NEW r \in DOMAIN reservations \ DOMAIN refs, reservations[r].status = "ProofReady"
       PROVE  operations'[reservations[r].op] = operations[reservations[r].op]
  <2>1. r \in ActiveIn(reservations)
    BY <1>12 DEF ActiveIn, ActiveStatuses
  <2>2. reservations[r].op \notin LinkedOps(refs)
    BY <1>1, <1>12, <2>1 DEF LinksComplete
  <2> QED BY <1>10, <1>12, <2>2 DEF LeaseInv
<1>13. \A r \in DOMAIN refs : Holds(a, r, reservations[r].token)
  BY <1>1 DEF Holds, ProofPC
<1>14. \A o \in DOMAIN operations :
         operations[o].expected \in Digests => operations'[o].expected = operations[o].expected
  BY <1>5, <1>10, StoreAssumption
<1> QED BY <1>1, <1>3, <1>6, <1>8, <1>9, <1>10, <1>11, <1>12, <1>13, <1>14 DEF StoreOK

(* MarkProofReady readies the notes under the tokens the worker holds, and  *)
(* the operation then expects the message saved with them.                  *)
LEMMA MarkReadyLease ==
    ASSUME WorkInv, LeaseInv, NEW a \in Actors, NEW now, MarkReady(a, now)
    PROVE  LeaseInv'
<1>1. job[a].pc = "mark" /\ results' = results
  BY DEF MarkReady, At
<1>2. IsJob(job[a])
  BY DEF WorkInv, JobOK
<1>3. PICK j : Do(a, j) /\ j.pc \in {"idle", "undo"}
  <2>1. [NoJob EXCEPT !.refs = job[a].refs].pc = "idle" /\ NoJob.pc = "idle"
    BY DEF NoJob
  <2>2. [job[a] EXCEPT !.pc = "undo"].pc = "undo"
    BY <1>2 DEF IsJob, IsFunction
  <2>3. \/ Do(a, [NoJob EXCEPT !.refs = job[a].refs]) \/ Do(a, NoJob)
        \/ Do(a, [job[a] EXCEPT !.pc = "undo"])
    BY DEF MarkReady, Idle, Goto
  <2> QED BY <2>1, <2>2, <2>3
<1>4. CASE StoreUnchanged
  BY <1>1, <1>3, <1>4, QuietNoCall, Ends DEF ProofPC, CopyPC
<1>5. CASE MarkProofReady(job[a].refs, job[a].msg, now)
  <2>1. /\ Grown(reservations, reservations') /\ DOMAIN operations' = DOMAIN operations
        /\ \A r \in DOMAIN reservations : reservations'[r].token = reservations[r].token
        /\ \A r \in DOMAIN job[a].refs :
              Holds(a, r, reservations[r].token) /\ operations'[reservations[r].op].expected = job[a].msg
        /\ \A r \in DOMAIN reservations \ DOMAIN job[a].refs :
              /\ reservations'[r].status = reservations[r].status
              /\ reservations[r].status = "ProofReady" =>
                   operations'[reservations[r].op] = operations[reservations[r].op]
        /\ \A o \in DOMAIN operations :
              operations[o].expected \in Digests => operations'[o].expected = operations[o].expected
    BY <1>1, <1>5, ReadyUnderToken
  <2>2. job'[a] = j /\ \A x \in Actors : x # a => job'[x] = job[x]
    BY <1>3 DEF Do, WorkInv
  <2>3. \A x \in Actors : \A r, t : Holds(x, r, t)' => Holds(x, r, t) /\ x # a
    BY <1>3, <2>2 DEF Holds, ProofPC
  <2>4. ASSUME NEW r, NEW t, NEW m, Claimed(r, t, m)' PROVE Claimed(r, t, m)
    <3>1. ASSUME NEW b \in Broadcasters, job'[b].pc \in CopyPC, r \in DOMAIN job'[b].refs \ job'[b].taken,
                 job'[b].refs[r] = t, job'[b].msg = m
          PROVE  Claimed(r, t, m)
      <4>1. b # a
        BY <1>3, <2>2, <3>1 DEF CopyPC
      <4> QED BY <2>2, <3>1, <4>1 DEF Claimed, Actors
    <3> QED BY <1>1, <2>4, <3>1 DEF Claimed
  <2>5. \A r \in DOMAIN reservations' : reservations'[r].op \in DOMAIN operations' \ {None}
    BY <2>1 DEF LeaseInv, Grown
  <2>6. ASSUME NEW r \in DOMAIN reservations, NEW t, Ready(r, t)'
        PROVE  \/ Ready(r, t) /\ operations'[reservations[r].op] = operations[reservations[r].op]
               \/ Holds(a, r, t) /\ operations'[reservations[r].op].expected = job[a].msg
    <3>1. reservations'[r].status = "ProofReady" /\ reservations[r].token = t
      BY <2>1, <2>6 DEF Ready
    <3> QED BY <2>1, <3>1 DEF Ready
  <2>7. ASSUME NEW r, NEW t, NEW m, Claimed(r, t, m)'
        PROVE  /\ t # 0 /\ m \in Digests
               /\ Ready(r, t)' => Expects(reservations[r].op, m)'
               /\ \A x \in Actors : Holds(x, r, t)' => job'[x].pc = "mark" /\ job'[x].msg = m
    <3>1. Claimed(r, t, m) /\ r \in DOMAIN reservations
      BY <2>4, <2>7, NotesExist
    <3>2. /\ t # 0 /\ m \in Digests /\ (Ready(r, t) => Expects(reservations[r].op, m))
          /\ \A x \in Actors : Holds(x, r, t) => job[x].pc = "mark" /\ job[x].msg = m
      BY SMTT(120), <3>1 DEF LeaseInv
    <3>3. reservations'[r].op = reservations[r].op /\ reservations[r].op \in DOMAIN operations'
      BY <2>1, <3>1 DEF Grown, LeaseInv
    <3>4. Ready(r, t)' => operations'[reservations[r].op].expected = m
      BY <2>6, <3>1, <3>2 DEF Expects
    <3> QED BY <2>2, <2>3, <3>2, <3>3, <3>4 DEF Expects
  <2>8. ASSUME NEW x \in Actors, NEW r, NEW t, Holds(x, r, t)'
        PROVE  t # 0 /\ ~Ready(r, t)' /\ \A c \in Actors : Holds(c, r, t)' => c = x
    <3>1. Holds(x, r, t) /\ x # a /\ r \in DOMAIN reservations
      BY <2>3, <2>8, NotesExist
    <3>2. t # 0 /\ ~Ready(r, t) /\ \A c \in Actors : Holds(c, r, t) => c = x
      BY <3>1 DEF LeaseInv
    <3> QED BY <2>3, <2>6, <3>1, <3>2
  <2>9. ASSUME NEW x \in Actors, job'[x].pc \in {"save", "mark"} PROVE job'[x].msg \in Digests
    BY <1>3, <2>2, <2>9 DEF LeaseInv
  <2>10. ASSUME NEW b \in Broadcasters, Past(job'[b])
         PROVE  Expects(job[b].op, job[b].msg)' /\ job'[b].msg \in Digests
    <3>1. b # a
      BY <1>3, <2>2, <2>10 DEF Past
    <3>2. job'[b] = job[b]
      BY <2>2, <3>1 DEF Actors
    <3>3. Expects(job[b].op, job[b].msg) /\ job[b].msg \in Digests
      BY <2>10, <3>2 DEF LeaseInv
    <3> QED BY <2>1, <3>2, <3>3 DEF Expects
  <2> QED BY <2>5, <2>7, <2>8, <2>9, <2>10 DEF LeaseInv, Past
<1> QED BY <1>4, <1>5 DEF MarkReady

-----------------------------------------------------------------------------
(* A broadcaster takes over what a saved result claims. *)
LEMMA StartBroadcastLease ==
    ASSUME WorkInv, LeaseInv, NEW a \in Actors, NEW o \in OperationIDs, StartBroadcast(a, o)
    PROVE  LeaseInv'
<1> DEFINE refs == results[o].refs
           msg == results[o].msg
           j == [NoJob EXCEPT !.pc = "links", !.op = o, !.notes = DOMAIN refs, !.refs = refs, !.msg = msg]
<1>1. /\ Do(a, j) /\ StoreUnchanged /\ results' = results /\ o \in DOMAIN results
      /\ job[a].pc = "idle"
  BY DEF StartBroadcast, At, jobVars
<1>2. \A r \in DOMAIN refs : Claimed(r, refs[r], msg)
  BY <1>1 DEF Claimed
<1> HIDE DEF refs, msg
<1>3. j.pc = "links" /\ j.refs = refs /\ j.msg = msg
  BY DEF NoJob
<1> HIDE DEF j
<1>4. NextJobOK(a, j)
  BY <1>1, <1>2, <1>3 DEF NextJobOK, Past, ProofPC
<1> QED BY <1>1, <1>4, QuietNoCall, LeaseStep

(* The broadcaster checks the links of the result it copied. *)
LEMMA CheckLinksLease ==
    ASSUME WorkInv, LeaseInv, NEW a \in Actors, CheckLinks(a)
    PROVE  LeaseInv'
<1>1. job[a].pc = "links" /\ results' = results /\ QuietStore
  BY QuietNoCall DEF CheckLinks, At, jobVars
<1>2. JobOK(job[a], reservations, DOMAIN results)
  BY DEF WorkInv
<1>3. CASE Goto(a, "hold")
  <2> DEFINE j == [job[a] EXCEPT !.pc = "hold"]
  <2>1. /\ j.pc = "hold" /\ j.op = job[a].op /\ j.refs = job[a].refs /\ j.taken = job[a].taken
        /\ j.msg = job[a].msg /\ j.done = {}
    BY <1>1, <1>2 DEF JobOK, IsJob, IsFunction
  <2> HIDE DEF j
  <2>2. Do(a, j)
    BY <1>3 DEF Goto, j
  <2> QED BY <1>1, <2>1, <2>2, GoesOn DEF ProofPC, CopyPC, Past
<1> QED BY <1>1, <1>3, IdleLease DEF CheckLinks

(* The daemon goes by leases of its own, not by those of the saved result,  *)
(* so it claims nothing.                                                    *)
LEMMA StartDaemonBroadcastLease ==
    ASSUME WorkInv, LeaseInv, NEW a \in Actors, NEW o \in OperationIDs, StartDaemonBroadcast(a, o)
    PROVE  LeaseInv'
<1> DEFINE group == NotesOf(o, {"ProofReady"})
           owned(r) == r \in DOMAIN job[a].refs /\ job[a].refs[r] = reservations[r].token
           refs == [r \in group |-> IF owned(r) THEN job[a].refs[r] ELSE 0]
           msg == results[o].msg
           j == [NoJob EXCEPT !.pc = "hold", !.op = o, !.notes = group, !.msg = msg, !.refs = refs]
<1>1. /\ Do(a, j) /\ StoreUnchanged /\ results' = results /\ a \notin Broadcasters
  BY WorkersAssumption DEF StartDaemonBroadcast, jobVars
<1> HIDE DEF group, owned, refs, msg
<1>2. j.pc = "hold"
  BY DEF NoJob
<1> HIDE DEF j
<1>3. NextJobOK(a, j)
  BY <1>1, <1>2 DEF NextJobOK, ProofPC
<1> QED BY <1>1, <1>3, QuietNoCall, LeaseStep

(* A broadcaster that keeps alive the lease of a saved result has found a   *)
(* ProofReady note under a claimed token, so the operation expects its      *)
(* message.                                                                 *)
LEMMA HoldLeaseLease ==
    ASSUME WorkInv, LeaseInv, DrawsFresh, NEW a \in Actors, NEW now, HoldLease(a, now)
    PROVE  LeaseInv'
<1>1. job[a].pc = "hold" /\ results' = results
  BY DEF HoldLease, At, jobVars
<1>2. JobOK(job[a], reservations, DOMAIN results)
  BY DEF WorkInv
<1> DEFINE next == IF a \in Daemons THEN "send" ELSE "check"
           pc(r) == IF job[a].done \cup {r} = job[a].notes THEN next ELSE "hold"
           taken(r) == IF a \in Daemons THEN job[a].taken \cup {r} ELSE job[a].taken
           kept(r) == [job[a] EXCEPT !.done = @ \cup {r}, !.pc = pc(r), !.taken = taken(r)]
           over(r) == [job[a] EXCEPT !.refs[r] = FreshToken(a, r), !.taken = @ \cup {r},
                                     !.done = @ \cup {r}, !.pc = pc(r)]
<1>3. PICK r \in job[a].notes \ job[a].done :
         \/ /\ MayHeartbeat(r, job[a].refs[r], "ProofReady", now)
            /\ HeartbeatLease(r, job[a].refs[r], now, TTL) /\ Do(a, kept(r))
         \/ MayTake(r, "ProofReady", now) /\ TakeLease(a, r, now) /\ Do(a, over(r))
         \/ Goto(a, "clear") /\ StoreUnchanged
  BY DEF HoldLease
<1>4. CASE Goto(a, "clear") /\ StoreUnchanged
  BY <1>1, <1>4, QuietNoCall, GotoLease
<1>5. pc(r) \in {"hold", "send", "check"} /\ (a \in Broadcasters => taken(r) = job[a].taken)
  BY WorkersAssumption
<1>6. CASE /\ MayHeartbeat(r, job[a].refs[r], "ProofReady", now)
           /\ HeartbeatLease(r, job[a].refs[r], now, TTL) /\ Do(a, kept(r))
  <2> DEFINE j == kept(r)
  <2>1. QuietStore /\ Ready(r, job[a].refs[r])
    BY <1>6, QuietHeartbeat DEF MayHeartbeat, LeaseHeld, Ready
  <2> HIDE DEF pc, taken
  <2>2. /\ j.pc = pc(r) /\ j.op = job[a].op /\ j.taken = taken(r) /\ j.refs = job[a].refs
        /\ j.msg = job[a].msg
    BY <1>2 DEF JobOK, IsJob, IsFunction
  <2> HIDE DEF j
  <2>3. ASSUME a \in Broadcasters, NEW x \in DOMAIN j.refs \ j.taken PROVE Claimed(x, j.refs[x], j.msg)
    BY <1>1, <1>5, <2>2, <2>3 DEF Claimed, CopyPC
  <2>4. ASSUME a \in Broadcasters, Past(j) PROVE Expects(j.op, j.msg) /\ j.msg \in Digests
    <3>1. r \in DOMAIN j.refs \ j.taken /\ reservations[r].op = j.op
      BY <1>1, <1>2, <2>2, <2>4 DEF JobOK, Past, SendPC
    <3>2. Claimed(r, j.refs[r], j.msg)
      BY <2>3, <2>4, <3>1
    <3> QED BY SMTT(120), <2>1, <2>2, <3>1, <3>2 DEF LeaseInv
  <2>5. NextJobOK(a, j)
    BY <1>1, <1>5, <2>2, <2>3, <2>4 DEF NextJobOK, ProofPC
  <2> QED BY <1>1, <1>6, <2>1, <2>5, LeaseStep DEF j
<1>7. CASE MayTake(r, "ProofReady", now) /\ TakeLease(a, r, now) /\ Do(a, over(r))
  <2> DEFINE j == over(r)
  <2>1. QuietStore
    BY <1>2, <1>7, QuietTakeLease DEF JobOK
  <2> HIDE DEF pc
  <2>2. /\ j.pc = pc(r) /\ j.op = job[a].op /\ j.taken = job[a].taken \cup {r}
        /\ j.refs = [job[a].refs EXCEPT ![r] = FreshToken(a, r)] /\ j.msg = job[a].msg
    BY <1>2 DEF JobOK, IsJob, IsFunction
  <2> HIDE DEF j
  <2>3. /\ DOMAIN j.refs = DOMAIN job[a].refs
        /\ \A x \in DOMAIN j.refs : x # r => j.refs[x] = job[a].refs[x]
    BY <2>2
  <2>4. ASSUME a \in Broadcasters, NEW x \in DOMAIN j.refs \ j.taken PROVE Claimed(x, j.refs[x], j.msg)
    BY <1>1, <2>2, <2>3, <2>4 DEF Claimed, CopyPC
  <2>5. NextJobOK(a, j)
    BY <1>1, <1>5, <2>2, <2>4 DEF NextJobOK, ProofPC, Past
  <2> QED BY <1>1, <1>7, <2>1, <2>5, LeaseStep DEF j
<1> QED BY <1>3, <1>4, <1>6, <1>7

(* A heartbeat keeps every token. *)
LEMMA HeartbeatLeases ==
    ASSUME WorkInv, LeaseInv, NEW a \in Actors, NEW now, Heartbeat(a, now)
    PROVE  LeaseInv'
<1>1. results' = results
  BY DEF Heartbeat, jobVars
<1>2. IsJob(job[a])
  BY DEF WorkInv, JobOK
<1>3. PICK r \in DOMAIN job[a].refs :
         \/ HeartbeatLease(r, job[a].refs[r], now, TTL) /\ job' = job
         \/ Do(a, [job[a] EXCEPT !.cancelled = TRUE]) /\ StoreUnchanged
  BY DEF Heartbeat
<1>4. CASE HeartbeatLease(r, job[a].refs[r], now, TTL) /\ job' = job
  <2>1. Do(a, job[a])
    BY <1>4 DEF Do, WorkInv, IsFunction
  <2> QED BY <1>1, <1>4, <2>1, QuietHeartbeat, GoesOn
<1>5. CASE Do(a, [job[a] EXCEPT !.cancelled = TRUE]) /\ StoreUnchanged
  <2> DEFINE j == [job[a] EXCEPT !.cancelled = TRUE]
  <2>1. /\ j.pc = job[a].pc /\ j.op = job[a].op /\ j.refs = job[a].refs /\ j.taken = job[a].taken
        /\ j.done = job[a].done /\ j.msg = job[a].msg
    BY <1>2 DEF IsJob, IsFunction
  <2> HIDE DEF j
  <2>2. Do(a, j) /\ (Past(j) => Past(job[a]))
    BY <1>5, <2>1 DEF Past, j
  <2> QED BY <1>1, <1>5, <2>1, <2>2, QuietNoCall, GoesOn
<1> QED BY <1>3, <1>4, <1>5

(* The question to the node about nullifiers changes no lease. *)
LEMMA CheckNullifiersLease ==
    ASSUME WorkInv, LeaseInv, NEW a \in Actors, CheckNullifiers(a)
    PROVE  LeaseInv'
<1>1. job[a].pc = "check" /\ results' = results /\ QuietStore
  BY QuietNoCall DEF CheckNullifiers, At, jobVars
<1>2. IsJob(job[a])
  BY DEF WorkInv, JobOK
<1>3. CASE Goto(a, "send")
  <2> DEFINE j == [job[a] EXCEPT !.pc = "send"]
  <2>1. /\ j.pc = "send" /\ j.op = job[a].op /\ j.refs = job[a].refs /\ j.taken = job[a].taken
        /\ j.msg = job[a].msg
    BY <1>2 DEF IsJob, IsFunction
  <2> HIDE DEF j
  <2>2. Do(a, j)
    BY <1>3 DEF Goto, j
  <2> QED BY <1>1, <2>1, <2>2, GoesOn DEF ProofPC, CopyPC, Past
<1> QED BY <1>1, <1>3, GotoLease DEF CheckNullifiers

(* The steps of a process that neither proves nor broadcasts. *)
LEMMA UndoLease ==
    ASSUME WorkInv, LeaseInv, NEW a \in Actors, NEW now, Undo(a, now)
    PROVE  LeaseInv'
<1>1. job[a].pc = "undo" /\ results' = results
  BY DEF Undo, At, jobVars
<1>2. IsJob(job[a])
  BY DEF WorkInv, JobOK
<1>3. CASE Idle(a) /\ StoreUnchanged
  BY <1>1, <1>3, QuietNoCall, IdleLease
<1>4. ASSUME NEW r \in DOMAIN job[a].refs,
             Do(a, [job[a] EXCEPT !.refs = [x \in DOMAIN @ \ {r} |-> @[x]]]),
             \/ TransitionWithLease(r, job[a].refs[r], "Proving", "Reserved", now)
             \/ ClearReservationLease(r, job[a].refs[r], now)
             \/ StoreUnchanged
      PROVE  LeaseInv'
  <2> DEFINE refs == [x \in DOMAIN job[a].refs \ {r} |-> job[a].refs[x]]
             j == [job[a] EXCEPT !.refs = refs]
  <2>1. QuietStore
    <3>1. CASE TransitionWithLease(r, job[a].refs[r], "Proving", "Reserved", now)
      BY <3>1, QuietMove DEF TransitionWithLease
    <3> QED BY <1>4, <3>1, QuietClearLease, QuietNoCall
  <2>2. Do(a, j)
    BY <1>4
  <2> HIDE DEF refs
  <2>3. j.pc \notin ProofPC \cup CopyPC
    BY <1>1, <1>2 DEF IsJob, IsFunction, ProofPC, CopyPC
  <2> HIDE DEF j
  <2> QED BY <1>1, <2>1, <2>2, <2>3, Ends
<1> QED BY <1>3, <1>4 DEF Undo

(* Sending a message changes no lease. *)
LEMMA SendLease ==
    ASSUME WorkInv, LeaseInv, NEW a \in Actors, NEW got, NEW outcome, Send(a, got, outcome)
    PROVE  LeaseInv'
<1> DEFINE j == [job[a] EXCEPT !.pc = "returned", !.outcome = outcome]
<1>1. StoreUnchanged /\ results' = results /\ Do(a, j)
  BY DEF Send
<1>2. IsJob(job[a])
  BY DEF WorkInv, JobOK
<1>3. j.pc \notin ProofPC \cup CopyPC
  BY <1>2 DEF IsJob, IsFunction, ProofPC, CopyPC
<1> HIDE DEF j
<1> QED BY <1>1, <1>3, QuietNoCall, Ends

(* Once the broadcast is recorded no note of it is ProofReady. *)
LEMMA RecordBroadcastLease ==
    ASSUME WorkInv, LeaseInv, NEW a \in Actors, NEW now, RecordBroadcast(a, now)
    PROVE  LeaseInv'
<1>1. job[a].pc = "returned" /\ results' = results /\ Idle(a)
  BY DEF RecordBroadcast, At, jobVars
<1>2. \/ StoreUnchanged
      \/ \E tx \in TxIDs, status \in {"Submitted", "Unknown"} :
            MarkBroadcast(status, job[a].refs, tx, now)
  BY DEF RecordBroadcast, MarkSubmitted, MarkBroadcastUnknown
<1>3. LinkedOps(job[a].refs) \subseteq DOMAIN results
  BY <1>1, OperationHasResult
<1>4. QuietStore
  BY <1>2, <1>3, QuietNoCall, MarkBroadcastOK, QuietBroadcast
<1> QED BY <1>1, <1>4, IdleLease

(* Returning the leases that were taken for a broadcast. *)
LEMMA ClearTakenLease ==
    ASSUME WorkInv, LeaseInv, NEW a \in Actors, NEW now, ClearTaken(a, now)
    PROVE  LeaseInv'
<1>1. job[a].pc = "clear" /\ results' = results
  BY DEF ClearTaken, At, jobVars
<1>2. IsJob(job[a])
  BY DEF WorkInv, JobOK
<1>3. \/ Idle(a) /\ StoreUnchanged
      \/ \E r \in job[a].taken :
            /\ Do(a, [job[a] EXCEPT !.taken = @ \ {r}])
            /\ ClearReservationLease(r, job[a].refs[r], now) \/ StoreUnchanged
  BY DEF ClearTaken
<1>4. ASSUME NEW r \in job[a].taken, Do(a, [job[a] EXCEPT !.taken = @ \ {r}]),
             ClearReservationLease(r, job[a].refs[r], now) \/ StoreUnchanged
      PROVE  LeaseInv'
  <2> DEFINE j == [job[a] EXCEPT !.taken = @ \ {r}]
  <2>1. j.pc \notin ProofPC \cup CopyPC
    BY <1>1, <1>2 DEF IsJob, IsFunction, ProofPC, CopyPC
  <2> HIDE DEF j
  <2>2. QuietStore
    BY <1>4, QuietClearLease, QuietNoCall
  <2> QED BY <1>1, <1>4, <2>1, <2>2, Ends DEF j
<1> QED BY <1>1, <1>3, <1>4, QuietNoCall, IdleLease

(* A rollback begins without a lease. *)
LEMMA RollbackLease ==
    ASSUME WorkInv, LeaseInv, NEW a \in Actors, NEW o \in OperationIDs, StartRollback(a, o)
    PROVE  LeaseInv'
<1> DEFINE notes == NotesOf(o, {"Proving"})
           j == [NoJob EXCEPT !.pc = "reclaim", !.op = o, !.notes = notes]
<1>1. StoreUnchanged /\ results' = results /\ Do(a, j)
  BY DEF StartRollback, jobVars
<1> HIDE DEF notes
<1>2. j.pc \notin ProofPC \cup CopyPC
  BY DEF NoJob, ProofPC, CopyPC
<1> HIDE DEF j
<1> QED BY <1>1, <1>2, QuietNoCall, Ends

(* A rollback takes an expired lease with a fresh token. *)
LEMMA ReclaimLease ==
    ASSUME WorkInv, LeaseInv, DrawsFresh, NEW a \in Actors, NEW now, Reclaim(a, now)
    PROVE  LeaseInv'
<1>1. job[a].pc = "reclaim" /\ results' = results
  BY DEF Reclaim, At, jobVars
<1>2. JobOK(job[a], reservations, DOMAIN results)
  BY DEF WorkInv
<1> DEFINE refs(r) == Updated(job[a].refs, [x \in {r} |-> FreshToken(a, r)])
           pc(r) == IF DOMAIN job[a].refs \cup {r} = job[a].notes THEN "return" ELSE "reclaim"
           new(r) == [job[a] EXCEPT !.refs = refs(r), !.taken = @ \cup {r}, !.pc = pc(r)]
<1>3. PICK r \in job[a].notes \ DOMAIN job[a].refs :
         \/ TakeLease(a, r, now) /\ Do(a, new(r))
         \/ Goto(a, "clear") /\ StoreUnchanged
  BY DEF Reclaim
<1>4. CASE Goto(a, "clear") /\ StoreUnchanged
  BY <1>1, <1>4, QuietNoCall, GotoLease
<1>5. CASE TakeLease(a, r, now) /\ Do(a, new(r))
  <2> DEFINE j == new(r)
  <2>1. QuietStore
    BY <1>2, <1>5, QuietTakeLease DEF JobOK
  <2>2. pc(r) \notin ProofPC \cup CopyPC
    BY DEF ProofPC, CopyPC
  <2> HIDE DEF refs, pc
  <2>3. j.pc = pc(r)
    BY <1>2 DEF JobOK, IsJob, IsFunction
  <2> HIDE DEF j
  <2> QED BY <1>1, <1>5, <2>1, <2>2, <2>3, Ends DEF j
<1> QED BY <1>3, <1>4, <1>5

(* A note given back to Reserved is not ProofReady. *)
LEMMA ReturnToReservedLease ==
    ASSUME WorkInv, LeaseInv, NEW a \in Actors, NEW now, ReturnToReserved(a, now)
    PROVE  LeaseInv'
<1>1. job[a].pc = "return" /\ results' = results
  BY DEF ReturnToReserved, At, jobVars
<1>2. IsJob(job[a])
  BY DEF WorkInv, JobOK
<1>3. PICK r \in job[a].notes \ job[a].done :
         \/ /\ TransitionWithLease(r, job[a].refs[r], "Proving", "Reserved", now)
            /\ Idle(a) \/ Do(a, [job[a] EXCEPT !.done = @ \cup {r}])
         \/ Idle(a) /\ StoreUnchanged
  BY DEF ReturnToReserved
<1>4. QuietStore
  <2>1. CASE TransitionWithLease(r, job[a].refs[r], "Proving", "Reserved", now)
    BY <2>1, QuietMove DEF TransitionWithLease
  <2> QED BY <1>3, <2>1, QuietNoCall
<1>5. CASE Do(a, [job[a] EXCEPT !.done = @ \cup {r}])
  <2> DEFINE j == [job[a] EXCEPT !.done = @ \cup {r}]
  <2>1. j.pc \notin ProofPC \cup CopyPC
    BY <1>1, <1>2 DEF IsJob, IsFunction, ProofPC, CopyPC
  <2> HIDE DEF j
  <2> QED BY <1>1, <1>4, <1>5, <2>1, Ends DEF j
<1> QED BY <1>1, <1>3, <1>4, <1>5, IdleLease

(* The sweep releases Reserved notes only. *)
LEMMA SweepLease ==
    ASSUME WorkInv, LeaseInv, NEW a \in Actors, StartSweep(a) \/ ReleaseStale(a)
    PROVE  LeaseInv'
<1>1. CASE StartSweep(a)
  <2>1. PICK stale : Do(a, [NoJob EXCEPT !.pc = "release", !.notes = stale])
    BY <1>1 DEF StartSweep
  <2> DEFINE j == [NoJob EXCEPT !.pc = "release", !.notes = stale]
  <2>2. j.pc \notin ProofPC \cup CopyPC
    BY DEF NoJob, ProofPC, CopyPC
  <2> HIDE DEF j
  <2>3. QuietStore /\ results' = results
    BY <1>1, QuietNoCall DEF StartSweep, jobVars
  <2> QED BY <2>1, <2>2, <2>3, Ends DEF j
<1>2. CASE ReleaseStale(a)
  <2>1. job[a].pc = "release" /\ results' = results /\ IsJob(job[a])
    BY <1>2 DEF ReleaseStale, At, jobVars, WorkInv, JobOK
  <2>2. PICK r \in job[a].notes :
           \/ /\ Transition(r, "Reserved", "Released")
              /\ Idle(a) \/ Do(a, [job[a] EXCEPT !.notes = @ \ {r}])
           \/ Idle(a) /\ StoreUnchanged
    BY <1>2 DEF ReleaseStale
  <2>3. QuietStore
    <3>1. CASE Transition(r, "Reserved", "Released")
      BY <3>1, QuietMove DEF Transition
    <3> QED BY <2>2, <3>1, QuietNoCall
  <2>4. CASE Do(a, [job[a] EXCEPT !.notes = @ \ {r}])
    <3> DEFINE j == [job[a] EXCEPT !.notes = @ \ {r}]
    <3>1. j.pc \notin ProofPC \cup CopyPC
      BY <2>1 DEF IsJob, IsFunction, ProofPC, CopyPC
    <3> HIDE DEF j
    <3> QED BY <2>1, <2>3, <2>4, <3>1, Ends DEF j
  <2> QED BY <2>1, <2>2, <2>3, <2>4, IdleLease
<1> QED BY <1>1, <1>2

(* Time passes, a block is made, or nothing happens. *)
LEMMA OthersLease ==
    ASSUME WorkInv, LeaseInv, job' = job, results' = results, operations' = operations,
           DOMAIN reservations' = DOMAIN reservations,
           \A r \in DOMAIN reservations :
              /\ reservations'[r].status = reservations[r].status
              /\ reservations'[r].token = reservations[r].token
              /\ reservations'[r].op = reservations[r].op
    PROVE  LeaseInv'
<1>1. /\ \A r, t, m : Claimed(r, t, m)' <=> Claimed(r, t, m)
      /\ \A a \in Actors : \A r, t : Holds(a, r, t)' <=> Holds(a, r, t)
  BY SMTT(120) DEF Claimed, Holds
<1>2. \A o, m : Expects(o, m)' <=> Expects(o, m)
  BY DEF Expects
<1>3. \A r \in DOMAIN reservations : \A t : Ready(r, t)' <=> Ready(r, t)
  BY DEF Ready
<1>4. /\ \A r, t, m : Claimed(r, t, m) => r \in DOMAIN reservations
      /\ \A a \in Actors : \A r, t : Holds(a, r, t) => r \in DOMAIN reservations
  BY NotesExist
<1>5. ASSUME NEW r, NEW t, NEW m, Claimed(r, t, m)'
      PROVE  /\ t # 0 /\ m \in Digests
             /\ Ready(r, t)' => Expects(reservations[r].op, m)'
             /\ \A a \in Actors : Holds(a, r, t)' => job'[a].pc = "mark" /\ job'[a].msg = m
  <2>1. Claimed(r, t, m) /\ r \in DOMAIN reservations
    BY <1>1, <1>4, <1>5
  <2>2. Ready(r, t)' => Expects(reservations[r].op, m)
    BY <1>3, <2>1 DEF LeaseInv
  <2>3. Ready(r, t)' => Expects(reservations[r].op, m)'
    BY <2>1, <2>2 DEF Expects
  <2>4. /\ t # 0 /\ m \in Digests
        /\ \A a \in Actors : Holds(a, r, t) => job[a].pc = "mark" /\ job[a].msg = m
    BY SMTT(120), <2>1 DEF LeaseInv
  <2>5. \A a \in Actors : Holds(a, r, t)' => job'[a].pc = "mark" /\ job'[a].msg = m
    BY <1>1, <2>4
  <2> QED BY <2>3, <2>4, <2>5
<1>6. ASSUME NEW a \in Actors, NEW r, NEW t, Holds(a, r, t)'
      PROVE  t # 0 /\ ~Ready(r, t)' /\ \A c \in Actors : Holds(c, r, t)' => c = a
  <2>1. Holds(a, r, t) /\ r \in DOMAIN reservations
    BY <1>1, <1>4, <1>6
  <2>2. t # 0 /\ ~Ready(r, t) /\ \A c \in Actors : Holds(c, r, t) => c = a
    BY <2>1 DEF LeaseInv
  <2> QED BY <1>1, <1>3, <2>1, <2>2
<1>7. \A b \in Broadcasters : Past(job'[b]) =>
         Expects(job[b].op, job[b].msg)' /\ job'[b].msg \in Digests
  BY DEF LeaseInv, Expects
<1> QED BY <1>5, <1>6, <1>7 DEF LeaseInv, Past

(* Every step keeps the leases apart, as long as the draws are fresh. *)
LEMMA LeaseStepInv == WorkInv /\ LeaseInv /\ DrawsFresh /\ [WorkersNext]_workerVars => LeaseInv'
<1> SUFFICES ASSUME WorkInv, LeaseInv, DrawsFresh, [WorkersNext]_workerVars PROVE LeaseInv'
  OBVIOUS
<1>1. ASSUME NEW a \in Actors, NEW o \in OperationIDs,
             StartProof(a, o) \/ StartBroadcast(a, o) \/ StartDaemonBroadcast(a, o) \/ StartRollback(a, o)
      PROVE  LeaseInv'
  BY <1>1, StartProofLease, StartBroadcastLease, StartDaemonBroadcastLease, RollbackLease
<1>2. ASSUME NEW a \in Actors, Crash(a) PROVE LeaseInv'
  BY <1>2, QuietNoCall, IdleLease DEF Crash
<1>3. ASSUME NEW a \in Actors, SkipSend(a) PROVE LeaseInv'
  BY <1>3, QuietNoCall, GotoLease DEF SkipSend, jobVars
<1>4. ASSUME NEW a \in Actors, Step(a) PROVE LeaseInv'
  BY ZenonT(120), <1>3, <1>4, LeaseForProofLease, MoveToProvingLease, MarkReadyLease, UndoLease, HoldLeaseLease,
     RecordBroadcastLease, ClearTakenLease, ReclaimLease, ReturnToReservedLease, SendLease, ProveLease,
     SaveProofResultLease, CheckLinksLease, CheckNullifiersLease, SweepLease DEF Step
<1>5. ASSUME NEW a \in Actors, StartSweep(a) \/ \E now \in Now : Heartbeat(a, now) PROVE LeaseInv'
  BY <1>5, SweepLease, HeartbeatLeases
<1>6. CASE Include
  BY <1>6, OthersLease DEF Include, StoreUnchanged, storeVars
<1>7. CASE ElapseTime
  <2>1. /\ reservations' = [r \in DOMAIN reservations |-> Nearer(reservations[r])]
        /\ operations' = operations /\ job' = job /\ results' = results
    BY <1>7 DEF ElapseTime, jobVars
  <2>2. ASSUME NEW r \in DOMAIN reservations
        PROVE  /\ reservations'[r].op = reservations[r].op
               /\ reservations'[r].status = reservations[r].status
               /\ reservations'[r].token = reservations[r].token
    <3>1. IsReservation(reservations[r])
      BY DEF WorkInv, RecordsOK
    <3> QED BY <2>1, <3>1 DEF Nearer, IsReservation, IsFunction
  <2> QED BY <2>1, <2>2, OthersLease
<1>8. CASE UNCHANGED workerVars
  BY <1>8, OthersLease DEF workerVars, storeVars
<1> QED BY <1>1, <1>2, <1>4, <1>5, <1>6, <1>7, <1>8 DEF WorkersNext

(* At the start nothing is claimed, held or ready. *)
LEMMA LeaseInitInv == WorkersInit => LeaseInv
<1> SUFFICES ASSUME WorkersInit PROVE LeaseInv
  OBVIOUS
<1> DEFINE key == CHOOSE f \in [ReservationIDs -> Keys] : \A r, s \in ReservationIDs : f[r] = f[s] => r = s
<1>1. PICK o \in OperationIDs :
        /\ reservations = [r \in ReservationIDs |->
               [status |-> "Reserved", key |-> key[r], op |-> o, token |-> 0, until |-> 0, tx |-> None]]
        /\ operations = [x \in {o} |-> [status |-> "Planned", tx |-> None, expected |-> None]]
  BY DEF WorkersInit, WorkersInitFor
<1> HIDE DEF key
<1>2. job = [a \in Actors |-> NoJob] /\ results = [x \in {} |-> None]
  BY DEF WorkersInit, WorkersInitFor
<1>3. \A a \in Actors : job[a].pc = "idle"
  BY <1>2 DEF NoJob
<1>4. (\A r, t, m : ~Claimed(r, t, m)) /\ \A a \in Actors : \A r, t : ~Holds(a, r, t)
  BY <1>2, <1>3 DEF Claimed, Holds, CopyPC, ProofPC, Actors
<1>5. \A b \in Broadcasters : ~Past(job[b])
  BY <1>3 DEF Past, Actors
<1>6. \A r \in DOMAIN reservations : reservations[r].op \in DOMAIN operations \ {None}
  BY <1>1, StoreAssumption
<1> QED BY <1>3, <1>4, <1>5, <1>6 DEF LeaseInv

(* The invariant of the leases: tokens that are drawn fresh tie a message   *)
(* to the worker that proved it.                                            *)
THEOREM LeasesSafety == WorkersSpec /\ []DrawsFresh => []LeaseInv
BY LeaseInitInv, LeaseStepInv, WorkersSafety, PTL DEF WorkersSpec

(* For every number of workers and faults, as long as no drawn lease token  *)
(* is in use already: a broadcaster that sends under the leases of a saved  *)
(* result sends the message the operation expects.                          *)
THEOREM OwnMessageSafe == WorkersSpec /\ []DrawsFresh => []OwnLeaseOwnMessage
<1>1. LeaseInv => OwnLeaseOwnMessage
  BY DEF LeaseInv, OwnLeaseOwnMessage, Past, Expects, At
<1> QED BY <1>1, LeasesSafety, PTL
=============================================================================
