----------------------------- MODULE ProverPool -----------------------------
(***************************************************************************)
(* The client side of proving: the pool of prover endpoints that the proof *)
(* workers of a payroll share (sdk/payroll/prover_pool.go).  A request     *)
(* tries the endpoints it selected, first those with a free slot, then     *)
(* waits for the busy ones.  A proving payload carries the secrets of the  *)
(* notes, so which endpoints it is sent to is configuration.               *)
(***************************************************************************)
EXTENDS Integers, Sequences, FiniteSets, Functions

CONSTANTS Workers,         \* concurrent callers of BuildPreparedTransferProof
          Configurations,  \* pools: endpoint IDs, which have a runner, opt-in, timeout,
                           \* MaxConcurrencyPerEndpoint (limit; 0 stands for none)
          NoOptIn          \* MultiProverFailover == nil

ASSUME PoolAssumption ==
    /\ IsFiniteSet(Workers)
    /\ \A c \in Configurations :
         /\ c.limit \in Nat
         /\ c.ids \in Seq(STRING)
         /\ c.optIn # NoOptIn => c.optIn.ids \in Seq(STRING) /\ c.optIn.acknowledged \in BOOLEAN

VARIABLES pool,     \* the configuration of this pool
          next,     \* p.next
          slots,    \* tokens in the semaphore of each endpoint
          request   \* per worker: its BuildPreparedTransferProof

poolVars == <<pool, next, slots, request>>

EmptyID == ""

NoRequest == [pc |-> "idle", todo |-> <<>>, busy |-> <<>>, at |-> 0, canceled |-> FALSE, reached |-> <<>>]

PoolInit ==
    /\ pool \in Configurations
    /\ next = 0
    /\ slots = [i \in DOMAIN pool.ids |-> 0]
    /\ request = [w \in Workers |-> NoRequest]

-----------------------------------------------------------------------------
Indices(id) == {i \in DOMAIN pool.ids : pool.ids[i] = id}

(* configuredFailoverEndpointIndices: every endpoint without an opt-in; the *)
(* listed ones with it, or an error.                                        *)
Configured ==
    /\ pool.ids # <<>>
    /\ pool.optIn # NoOptIn =>
         /\ pool.optIn.acknowledged
         /\ Len(pool.optIn.ids) >= 2
         /\ IsInjective(pool.optIn.ids)
         /\ \A id \in Range(pool.optIn.ids) : id # EmptyID /\ Cardinality(Indices(id)) = 1

FailoverEndpointIndices ==
    IF pool.optIn = NoOptIn THEN [i \in DOMAIN pool.ids |-> i]
    ELSE [i \in DOMAIN pool.optIn.ids |-> CHOOSE j \in Indices(pool.optIn.ids[i]) : TRUE]

Rotated(s, start) == SubSeq(s, start + 1, Len(s)) \o SubSeq(s, 1, start)

(* The selected endpoint and the others behind it. *)
AllIndicesForRequest(start) == Rotated(FailoverEndpointIndices, start)

(* endpointIndicesForRequest: one endpoint, or the opted-in ones in turn.   *)
IndicesForRequest(start) ==
    IF pool.optIn = NoOptIn THEN <<FailoverEndpointIndices[start + 1]>>
    ELSE Rotated(FailoverEndpointIndices, start)

(* nextEndpointIndex, under p.mu. *)
NextEndpointIndex == next % Len(FailoverEndpointIndices)

Become(w, r) == request' = [request EXCEPT ![w] = r]

Request(w) ==
    /\ request[w].pc = "idle"
    /\ Configured
    /\ next' = (NextEndpointIndex + 1) % Len(FailoverEndpointIndices)
    /\ Become(w, [NoRequest EXCEPT !.pc = "try", !.todo = IndicesForRequest(NextEndpointIndex)])
    /\ UNCHANGED <<pool, slots>>

Refuse(w) ==
    /\ request[w].pc = "idle"
    /\ ~Configured
    /\ UNCHANGED poolVars

(* The caller's context is done. *)
CancelRequest(w) ==
    /\ request[w].pc # "idle" /\ ~request[w].canceled
    /\ Become(w, [request[w] EXCEPT !.canceled = TRUE])
    /\ UNCHANGED <<pool, next, slots>>

-----------------------------------------------------------------------------
(* Without a limit there is no semaphore, and nothing to give back. *)
Unlimited == pool.limit = 0

HasSlot(i) == Unlimited \/ slots[i] < pool.limit

Taken(i) == IF Unlimited THEN slots ELSE [slots EXCEPT ![i] = @ + 1]

(* tryAcquireEndpoint; an endpoint without a runner fails at once. *)
Try(w) ==
    LET r == request[w]
        i == Head(r.todo)
        rest == [r EXCEPT !.todo = Tail(@)]
    IN  /\ r.pc = "try" /\ r.todo # <<>>
        /\ \/ /\ i \notin pool.runners
              /\ Become(w, rest) /\ UNCHANGED slots
           \/ /\ i \in pool.runners /\ HasSlot(i)
              /\ slots' = Taken(i)
              /\ Become(w, [rest EXCEPT !.pc = "run", !.at = i, !.reached = Append(@, i)])
           \/ /\ i \in pool.runners /\ ~HasSlot(i)
              /\ Become(w, [rest EXCEPT !.busy = Append(@, i)]) /\ UNCHANGED slots
    /\ UNCHANGED <<pool, next>>

(* The second loop: the busy endpoints one after the other. *)
AwaitBusy(w) ==
    /\ request[w].pc = "try" /\ request[w].todo = <<>> /\ request[w].busy # <<>>
    /\ Become(w, [request[w] EXCEPT !.pc = "wait", !.at = Head(request[w].busy),
                          !.busy = Tail(@)])
    /\ UNCHANGED <<pool, next, slots>>

(* acquireEndpoint: either ready case of the select. *)
Acquired(w) ==
    LET r == request[w]
    IN  /\ r.pc = "wait" /\ HasSlot(r.at)
        /\ slots' = Taken(r.at)
        /\ Become(w, [r EXCEPT !.pc = "run", !.reached = Append(@, r.at)])
    /\ UNCHANGED <<pool, next>>

(* The wait ends with the caller's context, which ends the request, or with *)
(* the timeout of the attempt, after which the next endpoint is tried.      *)
WaitEnds(w) ==
    /\ request[w].pc = "wait"
    /\ \/ request[w].canceled /\ Become(w, NoRequest)
       \/ ~request[w].canceled /\ pool.timeout /\ Become(w, [request[w] EXCEPT !.pc = "try"])
    /\ UNCHANGED <<pool, next, slots>>

(* runProverEndpointAttempt with its deferred release: a proof, an error    *)
(* (its own, the timeout, no proof), or the caller's context.               *)
ReleasedUnlessCanceled(w) ==
    IF Unlimited \/ request[w].canceled THEN slots ELSE [slots EXCEPT ![request[w].at] = @ - 1]

Released(w) == IF Unlimited THEN slots ELSE [slots EXCEPT ![request[w].at] = @ - 1]

Attempted(w) ==
    /\ request[w].pc = "run"
    /\ slots' = Released(w)
    /\ \/ Become(w, NoRequest)
       \/ ~request[w].canceled /\ Become(w, [request[w] EXCEPT !.pc = "try"])
    /\ UNCHANGED <<pool, next>>

(* No endpoint is left. *)
Fail(w) ==
    /\ request[w].pc = "try" /\ request[w].todo = <<>> /\ request[w].busy = <<>>
    /\ Become(w, NoRequest)
    /\ UNCHANGED <<pool, next, slots>>

Proceed(w) == Try(w) \/ AwaitBusy(w) \/ Attempted(w) \/ Fail(w)

PoolNext ==
    \E w \in Workers : Request(w) \/ Refuse(w) \/ CancelRequest(w) \/ Proceed(w) \/ Acquired(w) \/ WaitEnds(w)

(* A runner returns, and a channel serves its blocked senders in order, so  *)
(* a worker that waits while slots come free gets one.                      *)
PoolFairness == \A w \in Workers : WF_poolVars(Proceed(w)) /\ SF_poolVars(Acquired(w))

PoolSpec == PoolInit /\ [][PoolNext]_poolVars /\ PoolFairness

-----------------------------------------------------------------------------
(* PayloadStaysInBoundary: "each request selects exactly one of them and    *)
(* never fails over to another endpoint" unless failover was opted into;    *)
(* then EndpointIDs is "the complete ordered set of endpoints that may      *)
(* receive the same payload", acknowledged, and each receives it at most    *)
(* once, whether it was tried at once or waited for.                        *)
PayloadStaysInBoundary ==
    \A w \in Workers :
        LET reached == request[w].reached
        IN  /\ IsInjective(reached)
            /\ pool.optIn = NoOptIn => Len(reached) <= 1
            /\ pool.optIn # NoOptIn =>
                 \A i \in Range(reached) :
                     pool.optIn.acknowledged /\ pool.ids[i] \in Range(pool.optIn.ids)

(* EveryProofRequestEnds: no slot is lost on any path, failing, timed out   *)
(* or canceled ones included, so no request waits for ever for one.         *)
EveryProofRequestEnds == \A w \in Workers : request[w].pc # "idle" ~> request[w].pc = "idle"
=============================================================================
