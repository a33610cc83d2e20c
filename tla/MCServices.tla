----------------------------- MODULE MCServices -----------------------------
(* Model checking of the services around a payroll.  The profile, chosen at *)
(* the start, is the one explored:                                          *)
(*   store  DurableStore.  Two calls compete for a note, one frees it again *)
(*          so that an earlier content comes back;                          *)
(*   gate   ProverAdmission.  MaxArrivals bounds the requests the clients   *)
(*          send in all, since the Total counters only grow;                *)
(*   pool   ProverPool, with configurations that are valid, not             *)
(*          acknowledged, ambiguous, with an endpoint without a runner, and *)
(*          with one proof at a time per endpoint or any number.            *)
EXTENDS DurableStore, ProverAdmission, ProverPool

CONSTANTS note,        \* store
          MaxArrivals  \* gate

VARIABLE profile

mcVars == <<durableVars, vars, poolVars, profile>>

Only(group) == profile = group /\ UNCHANGED profile

-----------------------------------------------------------------------------
StoreOnly == Only("store") /\ UNCHANGED <<vars, poolVars>>

MCCalls == {<<"reserve", 1>>, <<"reserve", 2>>, <<"release", 3>>}

MCApply(c, held) ==
    CASE c[1] = "reserve" /\ held = {}  -> {{note}}
      [] c[1] = "release" /\ held # {}  -> {{}}
      [] OTHER                          -> {}

MCContents == SUBSET {note}

MCEmpty == {}

MCStore ==
    /\ StoreOnly
    /\ \/ \E p \in Processes :
            \/ \E c \in Calls : Begin(p, c)
            \/ Refresh(p) \/ PersistMutation(p) \/ Rename(p) \/ SyncDirectory(p)
            \/ LockStoreTx(p) \/ LoadMemoryTx(p) \/ Commit(p)
            \/ FileError(p) \/ Rollback(p) \/ Crash(p)
       \/ WriteBack
       \/ MachineCrash

-----------------------------------------------------------------------------
GateOnly == Only("gate") /\ UNCHANGED <<durableVars, poolVars>>

MCGate ==
    /\ GateOnly
    /\ \E p \in Requests :
         \/ arrived < MaxArrivals /\ Arrive(p)
         \/ Cancel(p)
         \/ CheckContext(p) \/ TrySend(p) \/ Admit(p) \/ CountUndo(p) \/ Enqueue(p)
         \/ WaitSend(p) \/ WaitCanceled(p) \/ AdmitQueued(p) \/ CountUnqueue(p)
         \/ StartProve(p) \/ Release(p) \/ Receive(p)

-----------------------------------------------------------------------------
PoolOnly == Only("pool") /\ UNCHANGED <<durableVars, vars>>

Pool(ids, runners, optIn, timeout) ==
    [ids |-> ids, runners |-> runners, optIn |-> optIn, timeout |-> timeout, limit |-> 1]

OptIn(ids, acknowledged) == [ids |-> ids, acknowledged |-> acknowledged]

MCConfigurations ==
    LET three == <<"a", "b", "c">>
        some  == OptIn(<<"c", "b">>, TRUE)
    IN  {Pool(three, {1, 2, 3}, NoOptIn, FALSE),
         Pool(three, {1, 2, 3}, some, TRUE),
         Pool(three, {1, 2, 3}, some, FALSE),
         [Pool(three, {1, 2, 3}, some, TRUE) EXCEPT !.limit = 0],
         Pool(three, {1, 3}, OptIn(three, TRUE), FALSE),
         Pool(three, {1, 2, 3}, OptIn(three, FALSE), FALSE),
         Pool(<<"a", "b", "b">>, {1, 2, 3}, OptIn(<<"a", "b">>, TRUE), FALSE)}

MCPool ==
    /\ PoolOnly
    /\ \E w \in Workers :
         \/ Request(w) \/ Refuse(w) \/ CancelRequest(w)
         \/ Try(w) \/ AwaitBusy(w) \/ Acquired(w) \/ WaitEnds(w) \/ Attempted(w) \/ Fail(w)

-----------------------------------------------------------------------------
MCInit ==
    /\ profile \in {"store", "gate", "pool"}
    /\ DurableInit /\ (profile # "store" => backend = "file")
    /\ Init
    /\ PoolInit /\ (profile # "pool" => pool = Pool(<<"a", "b", "c">>, {1, 2, 3}, NoOptIn, FALSE))

MCNext == MCStore \/ MCGate \/ MCPool

(* Goroutines run, and gnark's prover returns. *)
GateFairness == \A p \in Requests : WF_vars(Serve(p))

MCSpec == MCInit /\ [][MCNext]_mcVars /\ DurableFairness /\ GateFairness /\ PoolFairness
=============================================================================
