-------------------------- MODULE ProverAdmission --------------------------
(* Admission control of the prover service: the gate of one circuit         *)
(* (proverservice/admission.go) and the HTTP handlers that pass it          *)
(* (provertransport/http.go).  A proof takes minutes of CPU and gigabytes   *)
(* of memory, so at most MaxInFlight run at a time and at most MaxQueued    *)
(* callers wait.  Circuits share nothing; the five proof handlers have the  *)
(* same control flow and differ in the request they decode.                 *)
(*                                                                          *)
(* The semaphore channel, the metrics mutex and the caller's context are    *)
(* touched one at a time, so each touch is a step of its own.               *)
EXTENDS Naturals, FiniteSets

CONSTANTS Requests, MaxInFlight, MaxQueued

(* NewAdmissionController refuses other limits. *)
ASSUME AdmissionAssumption ==
    /\ IsFiniteSet(Requests)
    /\ MaxInFlight \in Nat \ {0}
    /\ MaxQueued \in Nat

VARIABLES
    pc,         \* where the goroutine of each request stands
    canceled,   \* the requests whose context is done
    sem,        \* tokens in the channel g.sem
    permit,     \* started and released of each request's admissionPermit
    metrics,    \* CircuitAdmissionMetrics, without limits, times and TotalQueued
    arrived     \* how many requests reached Acquire so far

vars == <<pc, canceled, sem, permit, metrics, arrived>>

(* idle      no request                    queueing  the channel was full    *)
(* entry     called acquire                waiting   in the blocking select  *)
(* trying    context checked               dequeued  got a token by waiting  *)
(* taken     got a token at once           decoding  admitted, has a permit  *)
(* undo      gave it back, not counted     proving   inside the prover       *)
(* unqueue   gave it back, still queued    freeing   released, token held    *)
Steps == {"idle", "entry", "trying", "taken", "undo", "queueing", "waiting", "dequeued",
          "unqueue", "decoding", "proving", "freeing"}

Counters == {"InFlight", "Queued", "Proving", "TotalAdmitted", "TotalRejected", "TotalCanceled",
             "TotalReleased", "TotalProveCompleted"}

At(steps) == {p \in Requests : pc[p] \in steps}

NoPermit == [started |-> FALSE, released |-> FALSE]

Init ==
    /\ pc = [p \in Requests |-> "idle"]
    /\ canceled = {}
    /\ sem = 0
    /\ permit = [p \in Requests |-> NoPermit]
    /\ metrics = [c \in Counters |-> 0]
    /\ arrived = 0

Goto(p, step) == pc' = [pc EXCEPT ![p] = step]

(* Metrics are updated under g.mu: up, then down, by one each. *)
Count(up, down) ==
    metrics' = [c \in Counters |->
        IF c \in up THEN metrics[c] + 1 ELSE IF c \in down THEN metrics[c] - 1 ELSE metrics[c]]

-----------------------------------------------------------------------------
(* A well-framed request reaches acquirePermit; a bad method, media type or *)
(* body was answered before it and leaves no trace.                         *)
Arrive(p) ==
    /\ pc[p] = "idle"
    /\ Goto(p, "entry")
    /\ canceled' = canceled \ {p}
    /\ permit' = [permit EXCEPT ![p] = NoPermit]
    /\ arrived' = arrived + 1
    /\ UNCHANGED <<sem, metrics>>

(* The client goes away, or its deadline passes, at any time. *)
Cancel(p) ==
    /\ pc[p] # "idle"
    /\ p \notin canceled
    /\ canceled' = canceled \cup {p}
    /\ UNCHANGED <<pc, sem, permit, metrics, arrived>>

CheckContext(p) ==
    /\ pc[p] = "entry"
    /\ \/ p \in canceled /\ Count({"TotalCanceled"}, {}) /\ Goto(p, "idle")
       \/ p \notin canceled /\ Goto(p, "trying") /\ UNCHANGED metrics
    /\ UNCHANGED <<canceled, sem, permit, arrived>>

(* A send on g.sem succeeds while the channel has room. *)
HasRoom == sem < MaxInFlight

(* The non-blocking select. *)
TrySend(p) ==
    /\ pc[p] = "trying"
    /\ \/ HasRoom /\ sem' = sem + 1 /\ Goto(p, "taken")
       \/ ~HasRoom /\ Goto(p, "queueing") /\ UNCHANGED sem
    /\ UNCHANGED <<canceled, permit, metrics, arrived>>

(* The token is in hand: recordAdmitted, or give it back to a gone caller.  *)
AdmitForgettingToken(p) ==
    /\ pc[p] = "taken"
    /\ \/ p \in canceled /\ Goto(p, "undo") /\ UNCHANGED <<sem, metrics>>
       \/ p \notin canceled /\ Count({"InFlight", "TotalAdmitted"}, {}) /\ Goto(p, "decoding")
            /\ UNCHANGED sem
    /\ UNCHANGED <<canceled, permit, arrived>>

Admit(p) ==
    /\ pc[p] = "taken"
    /\ \/ p \in canceled /\ sem' = sem - 1 /\ Goto(p, "undo") /\ UNCHANGED metrics
       \/ p \notin canceled /\ Count({"InFlight", "TotalAdmitted"}, {}) /\ Goto(p, "decoding")
            /\ UNCHANGED sem
    /\ UNCHANGED <<canceled, permit, arrived>>

CountUndo(p) ==
    /\ pc[p] = "undo"
    /\ Count({"TotalCanceled"}, {})
    /\ Goto(p, "idle")
    /\ UNCHANGED <<canceled, sem, permit, arrived>>

(* The queue is full when MaxQueued callers are counted in it. *)
QueueFull == metrics["Queued"] >= MaxQueued

Enqueue(p) ==
    /\ pc[p] = "queueing"
    /\ \/ QueueFull /\ Count({"TotalRejected"}, {}) /\ Goto(p, "idle")
       \/ ~QueueFull /\ Count({"Queued"}, {}) /\ Goto(p, "waiting")
    /\ UNCHANGED <<canceled, sem, permit, arrived>>

(* The blocking select: either ready case may be chosen. *)
WaitSendWhileQueueable(p) ==
    /\ pc[p] = "waiting"
    /\ HasRoom
    /\ ~QueueFull
    /\ sem' = sem + 1
    /\ Goto(p, "dequeued")
    /\ UNCHANGED <<canceled, permit, metrics, arrived>>

WaitSend(p) ==
    /\ pc[p] = "waiting"
    /\ HasRoom
    /\ sem' = sem + 1
    /\ Goto(p, "dequeued")
    /\ UNCHANGED <<canceled, permit, metrics, arrived>>

WaitCanceled(p) ==
    /\ pc[p] = "waiting"
    /\ p \in canceled
    /\ Count({"TotalCanceled"}, {"Queued"})
    /\ Goto(p, "idle")
    /\ UNCHANGED <<canceled, sem, permit, arrived>>

AdmitQueued(p) ==
    /\ pc[p] = "dequeued"
    /\ \/ p \in canceled /\ sem' = sem - 1 /\ Goto(p, "unqueue") /\ UNCHANGED metrics
       \/ p \notin canceled /\ Count({"InFlight", "TotalAdmitted"}, {"Queued"})
            /\ Goto(p, "decoding") /\ UNCHANGED sem
    /\ UNCHANGED <<canceled, permit, arrived>>

CountUnqueue(p) ==
    /\ pc[p] = "unqueue"
    /\ Count({"TotalCanceled"}, {"Queued"})
    /\ Goto(p, "idle")
    /\ UNCHANGED <<canceled, sem, permit, arrived>>

-----------------------------------------------------------------------------
(* The request decodes and validates: StartProve, then the prover runs.  It *)
(* cannot be interrupted, whatever happens to the caller.                   *)
StartProve(p) ==
    /\ pc[p] = "decoding"
    /\ ~permit[p].released
    /\ permit' = [permit EXCEPT ![p].started = TRUE]
    /\ Count({"Proving"}, {})
    /\ Goto(p, "proving")
    /\ UNCHANGED <<canceled, sem, arrived>>

(* Release, the counting half: the deferred call for a request that does    *)
(* not decode or validate and for a prover that panics, the explicit one    *)
(* when the prover returns.  releaseOnce runs it once.                      *)
Release(p) ==
    /\ pc[p] \in {"decoding", "proving"}
    /\ ~permit[p].released
    /\ permit' = [permit EXCEPT ![p].released = TRUE]
    /\ IF permit[p].started
       THEN Count({"TotalReleased", "TotalProveCompleted"}, {"InFlight", "Proving"})
       ELSE Count({"TotalReleased"}, {"InFlight"})
    /\ Goto(p, "freeing")
    /\ UNCHANGED <<canceled, sem, arrived>>

(* Release, the other half: the token leaves the channel, the handler       *)
(* writes its answer.                                                       *)
Receive(p) ==
    /\ pc[p] = "freeing"
    /\ sem' = sem - 1
    /\ Goto(p, "idle")
    /\ UNCHANGED <<canceled, permit, metrics, arrived>>

-----------------------------------------------------------------------------
Acquire(p) ==
    \/ CheckContext(p) \/ TrySend(p) \/ Admit(p) \/ CountUndo(p) \/ Enqueue(p)
    \/ WaitSend(p) \/ WaitCanceled(p) \/ AdmitQueued(p) \/ CountUnqueue(p)

Serve(p) == Acquire(p) \/ StartProve(p) \/ Release(p) \/ Receive(p)

Next == \E p \in Requests : Arrive(p) \/ Cancel(p) \/ Serve(p)

Spec == Init /\ [][Next]_vars

-----------------------------------------------------------------------------
(* The type invariant: counters never go below zero. *)
AdmissionTypeOK ==
    /\ pc \in [Requests -> Steps]
    /\ canceled \subseteq Requests
    /\ sem \in Nat
    /\ permit \in [Requests -> [started : BOOLEAN, released : BOOLEAN]]
    /\ metrics \in [Counters -> Nat]
    /\ arrived \in Nat

(* "The permit is held until the actual gnark prove returns.  Client        *)
(* cancellation does not release capacity": however callers come and go,    *)
(* the proofs really running and the admitted requests fit the limit.       *)
ProvingWithinCapacity == Cardinality(At({"decoding", "proving"})) <= MaxInFlight

(* No token leaks and none is freed twice: the channel holds one token for  *)
(* each goroutine between its send and its receive, so an idle service      *)
(* always has its whole capacity.                                           *)
SemaphoreExact ==
    sem = Cardinality(At({"taken", "dequeued", "decoding", "proving", "freeing"}))

(* The queue bound holds although the counter and the channel are updated   *)
(* at different moments: no more than MaxQueued callers block in acquire.   *)
QueueBounded == Cardinality(At({"waiting", "dequeued", "unqueue"})) <= MaxQueued

(* What operators read adds up in every snapshot: the gauges count the      *)
(* goroutines, and every arrival is admitted, rejected, canceled or still   *)
(* in acquire, exactly once.                                                *)
MetricsAddUp ==
    /\ metrics["InFlight"] = Cardinality(At({"decoding", "proving"}))
    /\ metrics["Proving"] = Cardinality(At({"proving"}))
    /\ metrics["TotalAdmitted"] = metrics["InFlight"] + metrics["TotalReleased"]
    /\ arrived = metrics["TotalAdmitted"] + metrics["TotalRejected"] + metrics["TotalCanceled"]
                 + Cardinality(At({"entry", "trying", "taken", "undo", "queueing", "waiting",
                                   "dequeued", "unqueue"}))

(* Every request is answered: nobody waits for a slot for ever. *)
EveryRequestAnswered == \A p \in Requests : pc[p] = "entry" ~> pc[p] = "idle"
=============================================================================
