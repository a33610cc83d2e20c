--------------------------- MODULE PayrollWorkers ---------------------------
(***************************************************************************)
(* The processes that drive a payroll operation through the reservation    *)
(* store (sdk/payroll): ProofWorker, BatchBroadcastWorker, LiveDaemon and  *)
(* the sweep of stale audit bindings.  Each is a sequence of calls on the  *)
(* store, of which only the single call is atomic: between two calls the   *)
(* other processes run, leases expire, and the process may die.  A call    *)
(* may also take effect and still report an error (DurableStore).          *)
(*                                                                         *)
(* Time is kept relative: the clock stands still and ElapseTime brings     *)
(* every lease closer to its expiry.  Lease tokens and digests that        *)
(* nothing refers to any more are handed out again.                        *)
(***************************************************************************)
EXTENDS ReservationStore

CONSTANTS ProofWorkers, Broadcasters, Daemons, Sweepers,
          TokensOf(_, _),  \* the lease tokens a process draws for a reservation
          DigestsOf(_),    \* the digests of the messages a process proves
          TTL,           \* lease duration
          MaxFaults      \* crashes, and calls that report an error after their effect

Actors == ProofWorkers \cup Broadcasters \cup Daemons \cup Sweepers

ASSUME WorkersAssumption ==
    /\ \A a \in Actors, r \in ReservationIDs : TokensOf(a, r) \subseteq Nat \ {0}
    /\ \A a \in Actors : DigestsOf(a) \subseteq Digests
    /\ Broadcasters \cap Daemons = {}
    /\ TTL \in Nat \ {0} /\ MaxFaults \in Nat

VARIABLES job,       \* per process: what it is doing and what it remembers
          results,   \* ProofResultStore: operation -> the saved message and its leases
          handed,    \* notes of messages that were given to a node
          spent,     \* notes whose nullifiers the chain has recorded
          faults

jobVars == <<results, handed, spent, faults>>

workerVars == <<storeVars, job, results, handed, spent, faults>>

NoRefs == [r \in {} |-> 0]

(* refs: the lease token of each reservation the process works on; done:    *)
(* those it has moved or confirmed; taken: those whose lease it took over.  *)
NoJob == [pc |-> "idle", op |-> None, notes |-> {}, refs |-> NoRefs, done |-> {}, taken |-> {},
          cancelled |-> FALSE, msg |-> None, outcome |-> "none"]

(* The plan reserved one note each for the reservations rs of an operation. *)
WorkersInitFor(rs) ==
    /\ clock = 1 + MaxDelay
    /\ issued = 0
    /\ \E o \in OperationIDs :
       LET key == CHOOSE f \in [rs -> Keys] : \A r, s \in rs : f[r] = f[s] => r = s IN
         /\ reservations = [r \in rs |->
                [status |-> "Reserved", key |-> key[r], op |-> o, token |-> 0, until |-> 0, tx |-> None]]
         /\ activeReservationByKey =
                [k \in {key[r] : r \in rs} |-> CHOOSE r \in rs : key[r] = k]
         /\ operations = [x \in {o} |-> [status |-> "Planned", tx |-> None, expected |-> None]]
    /\ job = [a \in Actors |-> NoJob]
    /\ results = [o \in {} |-> None]
    /\ handed = {}
    /\ spent = {}
    /\ faults = 0

WorkersInit == WorkersInitFor(ReservationIDs)

-----------------------------------------------------------------------------
At(a, pc) == job[a].pc = pc

Do(a, j) == job' = [job EXCEPT ![a] = j]

Goto(a, pc) == Do(a, [job[a] EXCEPT !.pc = pc])

Idle(a) == Do(a, NoJob)

StoreUnchanged == UNCHANGED storeVars

NotesOf(o, statuses) ==
    {r \in DOMAIN reservations : reservations[r].op = o /\ reservations[r].status \in statuses}

(* What randomToken and the prover's randomness give: a value in use nowhere. *)
TokensInUse ==
    {reservations[r].token : r \in DOMAIN reservations}
        \cup (UNION {{job[a].refs[r] : r \in DOMAIN job[a].refs} : a \in Actors})
        \cup (UNION {{results[o].refs[r] : r \in DOMAIN results[o].refs} : o \in DOMAIN results})

FreshToken(a, r) == CHOOSE t \in TokensOf(a, r) : t \notin TokensInUse

DigestsInUse ==
    {operations[o].expected : o \in DOMAIN operations} \cup {job[a].msg : a \in Actors}
        \cup {results[o].msg : o \in DOMAIN results}

FreshDigest(a) == CHOOSE d \in DigestsOf(a) : d \notin DigestsInUse

(* AcquireLeaseForStatus *)
MayTakeUnleased(r, status, now) == reservations[r].status = status /\ reservations[r].token = 0

MayTake(r, status, now) == reservations[r].status = status /\ NoLiveLease(r, now)

TakeLease(a, r, now) ==
    /\ StoreReservations([x \in {r} |->
            [reservations[r] EXCEPT !.token = FreshToken(a, r), !.until = now + TTL]])
    /\ UNCHANGED <<clock, issued, operations>>

(* HeartbeatLeaseForStatus *)
MayHeartbeat(r, token, status, now) == reservations[r].status = status /\ LeaseHeld(r, token, now)

(* A call that takes effect may still answer with an error. *)
Fault == faults < MaxFaults /\ faults' = faults + 1

-----------------------------------------------------------------------------
(* ProofWorker.Process is given the plan item, LiveDaemon.buildProofReady   *)
(* the Reserved reservations of the operation, unless others are active in  *)
(* another status.                                                          *)
StartProof(a, o) ==
    LET group == NotesOf(o, IF a \in Daemons THEN {"Reserved"} ELSE ReservationStatus) IN
    /\ a \in ProofWorkers \cup Daemons
    /\ At(a, "idle") /\ group # {}
    /\ a \in Daemons => NotesOf(o, ActiveStatuses) = group
    /\ Do(a, [NoJob EXCEPT !.pc = "lease", !.op = o, !.notes = group])
    /\ StoreUnchanged /\ UNCHANGED jobVars

(* One reservation after the other is leased ... *)
LeaseForProof(a, now) ==
    /\ At(a, "lease")
    /\ \E r \in job[a].notes \ DOMAIN job[a].refs :
         \/ /\ MayTake(r, "Reserved", now)
            /\ TakeLease(a, r, now)
            /\ Do(a, [job[a] EXCEPT !.pc = "move", !.refs = Updated(@, [x \in {r} |-> FreshToken(a, r)])])
         \/ /\ ~MayTake(r, "Reserved", now)
            /\ Goto(a, "undo")
            /\ StoreUnchanged
    /\ UNCHANGED jobVars

(* ... and moved to Proving under its lease. *)
MoveToProving(a, now) ==
    LET j == job[a]
        all(d) == IF d = j.notes THEN "prove" ELSE "lease"
    IN
    /\ At(a, "move")
    /\ \E r \in DOMAIN j.refs \ j.done :
         \/ /\ TransitionWithLease(r, j.refs[r], "Reserved", "Proving", now)
            /\ \/ Do(a, [j EXCEPT !.done = @ \cup {r}, !.pc = all(j.done \cup {r})]) /\ UNCHANGED faults
               \/ Goto(a, "undo") /\ Fault
         \/ /\ ~(CanMove(r, "Reserved", "Proving") /\ LeaseHeld(r, j.refs[r], now))
            /\ Goto(a, "undo")
            /\ StoreUnchanged /\ UNCHANGED faults
    /\ UNCHANGED <<results, handed, spent>>

(* Payload builder, prover and assembler: a new message, or an error. *)
ProveAndMark(a) ==
    /\ At(a, "prove")
    /\ Do(a, [job[a] EXCEPT !.pc = "mark", !.msg = FreshDigest(a)])
    /\ StoreUnchanged /\ UNCHANGED jobVars

Prove(a) ==
    /\ At(a, "prove")
    /\ \/ Do(a, [job[a] EXCEPT !.pc = "save", !.msg = FreshDigest(a)])
       \/ Goto(a, "undo")
    /\ StoreUnchanged /\ UNCHANGED jobVars

(* SaveProofResult replaces what the operation had; the context is done     *)
(* once a heartbeat failed.                                                 *)
SaveProofResult(a) ==
    /\ At(a, "save")
    /\ \/ /\ ~job[a].cancelled
          /\ results' = Updated(results,
                [o \in {job[a].op} |-> [msg |-> job[a].msg, refs |-> job[a].refs]])
          /\ Goto(a, "mark")
       \/ /\ job[a].cancelled
          /\ Goto(a, "undo")
          /\ UNCHANGED results
    /\ StoreUnchanged /\ UNCHANGED <<handed, spent, faults>>

ProofReadyAccepted(a, now) ==
    LET refs == job[a].refs IN
    /\ LeasedAt(refs, "Proving", now)
    /\ LinksComplete(refs, LinkedOps(refs))
    /\ \A o \in LinkedOps(refs) : Merged(operations[o].expected, job[a].msg) # {}

(* stopHeartbeat, then MarkProofReadyBatch.  A daemon remembers the leases  *)
(* for its own broadcast in the same tick (ownedProofReadyLeases).          *)
MarkReady(a, now) ==
    /\ At(a, "mark")
    /\ \/ /\ ~job[a].cancelled
          /\ MarkProofReady(job[a].refs, job[a].msg, now)
          /\ \/ /\ IF a \in Daemons THEN Do(a, [NoJob EXCEPT !.refs = job[a].refs]) ELSE Idle(a)
                /\ UNCHANGED faults
             \/ Goto(a, "undo") /\ Fault
       \/ /\ job[a].cancelled \/ ~ProofReadyAccepted(a, now)
          /\ Goto(a, "undo")
          /\ StoreUnchanged /\ UNCHANGED faults
    /\ UNCHANGED <<results, handed, spent>>

(* rollbackProofReservations and rollbackProvingReservations: every refused *)
(* call is ignored.  A daemon leaves the lease of a reservation it did not  *)
(* move to expire.                                                          *)
Undo(a, now) ==
    LET j == job[a] IN
    /\ At(a, "undo")
    /\ \/ /\ j.refs = NoRefs
          /\ Idle(a) /\ StoreUnchanged
       \/ \E r \in DOMAIN j.refs :
            /\ Do(a, [j EXCEPT !.refs = [x \in DOMAIN @ \ {r} |-> @[x]]])
            /\ CASE r \in j.done /\ CanMove(r, "Proving", "Reserved") /\ LeaseHeld(r, j.refs[r], now) ->
                      TransitionWithLease(r, j.refs[r], "Proving", "Reserved", now)
                 [] r \notin j.done /\ a \notin Daemons /\ LeaseHeld(r, j.refs[r], now) ->
                      ClearReservationLease(r, j.refs[r], now)
                 [] OTHER -> StoreUnchanged
    /\ UNCHANGED jobVars

(* The heartbeat goroutines of proof and broadcast.  The first failure      *)
(* cancels the work.                                                        *)
HeartbeatStatus(pc) == IF pc \in {"prove", "save", "mark"} THEN "Proving" ELSE "ProofReady"

Heartbeat(a, now) ==
    LET j == job[a] IN
    /\ j.pc \in {"prove", "save", "mark", "send", "returned"}
    /\ ~j.cancelled
    /\ \E r \in DOMAIN j.refs :
         \/ /\ MayHeartbeat(r, j.refs[r], HeartbeatStatus(j.pc), now)
            /\ HeartbeatLease(r, j.refs[r], now, TTL)
            /\ UNCHANGED job
         \/ /\ ~MayHeartbeat(r, j.refs[r], HeartbeatStatus(j.pc), now)
            /\ Do(a, [j EXCEPT !.cancelled = TRUE])
            /\ StoreUnchanged
    /\ UNCHANGED jobVars

-----------------------------------------------------------------------------
(* BatchBroadcastWorker.SubmitChunk: a saved result and its leases. *)
StartBroadcast(b, o) ==
    /\ b \in Broadcasters
    /\ At(b, "idle") /\ o \in DOMAIN results
    /\ Do(b, [NoJob EXCEPT !.pc = "links", !.op = o, !.notes = DOMAIN results[o].refs,
                           !.refs = results[o].refs, !.msg = results[o].msg])
    /\ StoreUnchanged /\ UNCHANGED jobVars

(* validateSubmissionLinks *)
CheckLinks(b) ==
    /\ At(b, "links")
    /\ IF /\ \A r \in job[b].notes : reservations[r].op = job[b].op
          /\ NotesOf(job[b].op, ActiveStatuses) \subseteq job[b].notes
       THEN Goto(b, "hold") ELSE Idle(b)
    /\ StoreUnchanged /\ UNCHANGED jobVars

(* LiveDaemon.broadcastProofReady: the ProofReady reservations of the       *)
(* operation, with the leases of this tick's proof where the reservation    *)
(* still carries them.                                                      *)
StartDaemonBroadcast(d, o) ==
    LET group == NotesOf(o, {"ProofReady"})
        owned(r) == r \in DOMAIN job[d].refs /\ job[d].refs[r] = reservations[r].token
    IN
    /\ d \in Daemons
    /\ At(d, "idle") /\ group # {} /\ o \in DOMAIN results
    /\ NotesOf(o, ActiveStatuses) = group
    /\ Do(d, [NoJob EXCEPT !.pc = "hold", !.op = o, !.notes = group, !.msg = results[o].msg,
                  !.refs = [r \in group |-> IF owned(r) THEN job[d].refs[r] ELSE 0]])
    /\ StoreUnchanged /\ UNCHANGED jobVars

(* preflightSubmissionState and proofReadyLease: keep the lease alive, or   *)
(* take over one that expired.  What the process took, a daemon also what   *)
(* it owned from this tick, it gives back when nothing is sent.             *)
HoldLease(b, now) ==
    LET j == job[b]
        next == IF b \in Daemons THEN "send" ELSE "check"
        pcAfter(r) == IF j.done \cup {r} = j.notes THEN next ELSE "hold"
    IN
    /\ At(b, "hold")
    /\ \E r \in j.notes \ j.done :
         \/ /\ MayHeartbeat(r, j.refs[r], "ProofReady", now)
            /\ HeartbeatLease(r, j.refs[r], now, TTL)
            /\ Do(b, [j EXCEPT !.done = @ \cup {r}, !.pc = pcAfter(r),
                               !.taken = IF b \in Daemons THEN @ \cup {r} ELSE @])
         \/ /\ ~MayHeartbeat(r, j.refs[r], "ProofReady", now)
            /\ MayTake(r, "ProofReady", now)
            /\ TakeLease(b, r, now)
            /\ Do(b, [j EXCEPT !.refs[r] = FreshToken(b, r), !.taken = @ \cup {r}, !.done = @ \cup {r},
                               !.pc = pcAfter(r)])
         \/ /\ ~MayHeartbeat(r, j.refs[r], "ProofReady", now)
            /\ ~MayTake(r, "ProofReady", now)
            /\ Goto(b, "clear") /\ StoreUnchanged
    /\ UNCHANGED jobVars

(* ensureNullifiersUnspent; the query may fail. *)
CheckNullifiers(b) ==
    /\ At(b, "check")
    /\ \/ {reservations[r].key : r \in job[b].notes} \cap spent = {} /\ Goto(b, "send")
       \/ Goto(b, "clear")
    /\ StoreUnchanged /\ UNCHANGED jobVars

(* BroadcastMessages: the node got the message or not, and the call returns *)
(* a result with code 0, a result with another code, a result and an error, *)
(* or an error alone.  An executor may also skip.                           *)
Outcomes == {"ok", "code", "error", "nothing"}

Send(b, got, outcome) ==
    /\ At(b, "send")
    /\ outcome = "ok" => got
    /\ handed' = IF got THEN handed \cup job[b].notes ELSE handed
    /\ Do(b, [job[b] EXCEPT !.pc = "returned", !.outcome = outcome])
    /\ StoreUnchanged /\ UNCHANGED <<results, spent, faults>>

SkipSend(d) ==
    /\ At(d, "send") /\ d \in Daemons
    /\ Goto(d, "clear")
    /\ StoreUnchanged /\ UNCHANGED jobVars

(* The outcome is recorded as Submitted or Unknown.  Without a result       *)
(* nothing is recorded, nor by a daemon whose call returned an error.       *)
Recorded(b) ==
    LET j == job[b] IN
    CASE j.outcome = "nothing"                                   -> "none"
      [] b \in Daemons /\ (j.outcome = "error" \/ j.cancelled)     -> "none"
      [] j.outcome = "ok" /\ ~j.cancelled                        -> "Submitted"
      [] OTHER                                                   -> "Unknown"

BroadcastAccepted(b, now) ==
    LeasedAt(job[b].refs, "ProofReady", now) /\ LinksComplete(job[b].refs, LinkedOps(job[b].refs))

RecordBroadcast(b, now) ==
    /\ At(b, "returned")
    /\ \/ \E tx \in TxIDs : \/ Recorded(b) = "Submitted" /\ MarkSubmitted(job[b].refs, tx, now)
                            \/ Recorded(b) = "Unknown" /\ MarkBroadcastUnknown(job[b].refs, tx, now)
       \/ (Recorded(b) = "none" \/ ~BroadcastAccepted(b, now)) /\ StoreUnchanged
    /\ Idle(b)
    /\ UNCHANGED jobVars

(* clearAcquiredSubmissionLeases *)
ClearTaken(b, now) ==
    LET j == job[b] IN
    /\ At(b, "clear")
    /\ \/ j.taken = {} /\ Idle(b) /\ StoreUnchanged
       \/ \E r \in j.taken :
            /\ Do(b, [j EXCEPT !.taken = @ \ {r}])
            /\ IF LeaseHeld(r, j.refs[r], now) THEN ClearReservationLease(r, j.refs[r], now)
                                              ELSE StoreUnchanged
    /\ UNCHANGED jobVars

-----------------------------------------------------------------------------
(* rollbackExpiredProving: lease every Proving reservation of the operation *)
(* and move them back one by one, or give the leases back when one of them  *)
(* is still held.                                                           *)
StartRollback(d, o) ==
    /\ d \in Daemons
    /\ At(d, "idle") /\ NotesOf(o, {"Proving"}) # {}
    /\ Do(d, [NoJob EXCEPT !.pc = "reclaim", !.op = o, !.notes = NotesOf(o, {"Proving"})])
    /\ StoreUnchanged /\ UNCHANGED jobVars

Reclaim(d, now) ==
    LET j == job[d] IN
    /\ At(d, "reclaim")
    /\ \E r \in j.notes \ DOMAIN j.refs :
         \/ /\ MayTake(r, "Proving", now)
            /\ TakeLease(d, r, now)
            /\ Do(d, [j EXCEPT !.refs = Updated(@, [x \in {r} |-> FreshToken(d, r)]),
                               !.taken = @ \cup {r},
                               !.pc = IF DOMAIN j.refs \cup {r} = j.notes THEN "return" ELSE "reclaim"])
         \/ /\ ~MayTake(r, "Proving", now)
            /\ Goto(d, "clear") /\ StoreUnchanged
    /\ UNCHANGED jobVars

ReturnToReserved(d, now) ==
    LET j == job[d] IN
    /\ At(d, "return")
    /\ \E r \in j.notes \ j.done :
         \/ /\ TransitionWithLease(r, j.refs[r], "Proving", "Reserved", now)
            /\ IF j.done \cup {r} = j.notes THEN Idle(d) ELSE Do(d, [j EXCEPT !.done = @ \cup {r}])
         \/ /\ ~(CanMove(r, "Proving", "Reserved") /\ LeaseHeld(r, j.refs[r], now))
            /\ Idle(d) /\ StoreUnchanged
    /\ UNCHANGED jobVars

(* ReleaseStaleAuditReservations: the Reserved reservations whose binding   *)
(* is not valid for the snapshot, released one by one; the first refusal    *)
(* ends the sweep.                                                          *)
StartSweep(s) ==
    /\ s \in Sweepers /\ At(s, "idle")
    /\ \E stale \in SUBSET {r \in DOMAIN reservations : reservations[r].status = "Reserved"} :
         stale # {} /\ Do(s, [NoJob EXCEPT !.pc = "release", !.notes = stale])
    /\ StoreUnchanged /\ UNCHANGED jobVars

ReleaseStale(s) ==
    /\ At(s, "release")
    /\ \E r \in job[s].notes :
         \/ /\ Transition(r, "Reserved", "Released")
            /\ IF job[s].notes = {r} THEN Idle(s) ELSE Do(s, [job[s] EXCEPT !.notes = @ \ {r}])
         \/ /\ ~CanMove(r, "Reserved", "Released")
            /\ Idle(s) /\ StoreUnchanged
    /\ UNCHANGED jobVars

-----------------------------------------------------------------------------
(* A block includes a message a node was given. *)
Include ==
    /\ handed # {}
    /\ spent' = spent \cup {reservations[r].key : r \in handed}
    /\ StoreUnchanged /\ UNCHANGED <<job, results, handed, faults>>

Crash(a) ==
    /\ job[a] # NoJob
    /\ Idle(a) /\ Fault
    /\ StoreUnchanged /\ UNCHANGED <<results, handed, spent>>

(* Time passes: every lease is one closer to its expiry, which is reached   *)
(* when no `now` of a caller is before `until`.                             *)
Nearer(rec) == [rec EXCEPT !.until = IF @ > 1 THEN @ - 1 ELSE @]

ElapseTime ==
    /\ \E r \in DOMAIN reservations : reservations[r].until > 1
    /\ reservations' = [r \in DOMAIN reservations |-> Nearer(reservations[r])]
    /\ UNCHANGED <<clock, issued, activeReservationByKey, operations, job, jobVars>>

(* One step of a process on its current job. *)
Step(a) ==
    \/ \E now \in Now :
         \/ LeaseForProof(a, now) \/ MoveToProving(a, now) \/ MarkReady(a, now) \/ Undo(a, now)
         \/ HoldLease(a, now) \/ RecordBroadcast(a, now) \/ ClearTaken(a, now)
         \/ Reclaim(a, now) \/ ReturnToReserved(a, now)
    \/ \E got \in BOOLEAN, outcome \in Outcomes : Send(a, got, outcome)
    \/ Prove(a) \/ SaveProofResult(a) \/ CheckLinks(a) \/ CheckNullifiers(a) \/ SkipSend(a)
    \/ ReleaseStale(a)

WorkersNext ==
    \/ \E a \in Actors :
         \/ \E o \in OperationIDs :
              StartProof(a, o) \/ StartBroadcast(a, o) \/ StartDaemonBroadcast(a, o) \/ StartRollback(a, o)
         \/ StartSweep(a) \/ Step(a) \/ Crash(a)
         \/ \E now \in Now : Heartbeat(a, now)
    \/ Include
    \/ ElapseTime

WorkersSpec == WorkersInit /\ [][WorkersNext]_workerVars

-----------------------------------------------------------------------------
(* A note whose spending message was given to a node is never treated as    *)
(* unspent again: whichever worker is slow, dies or is overtaken, and       *)
(* whatever the sweep released meanwhile, no reservation of a message that  *)
(* may be in a mempool is Reserved, Proving or Released.                    *)
HandedStaysHeld ==
    \A r \in handed : reservations[r].status \in {"ProofReady", "Submitted", "Unknown"}

(* "Persist private material before durable status advances": an operation  *)
(* is ProofReady or beyond only when a proof result is saved for it.        *)
ArtifactBeforeStatus ==
    \A o \in DOMAIN operations : operations[o].status # "Planned" => o \in DOMAIN results

(* A broadcaster that sends under the leases of the saved result sends the  *)
(* message whose digests the operation expects, so reconciliation will      *)
(* recognise the payment; a slow worker that lost its lease cannot slip its *)
(* own message in.                                                          *)
OwnLeaseOwnMessage ==
    \A b \in Broadcasters :
        (At(b, "send") /\ job[b].taken = {} /\ ~job[b].cancelled) =>
            operations[job[b].op].expected = job[b].msg
=============================================================================
