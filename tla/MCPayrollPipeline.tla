-------------------------- MODULE MCPayrollPipeline -------------------------
(* Two set-ups: a daemon that does everything, on one note; and a worker    *)
(* that proves one time, on two notes, beside a daemon whose executor skips *)
(* proof and broadcast (TransferBatchEvidenceExecutor).                     *)
EXTENDS PayrollPipeline

CONSTANTS w1, d1, r1, r2

Index(x) == IF x \in {w1, r1} THEN 0 ELSE 1

(* Five tokens for each process and reservation and five digests for each   *)
(* process: more than can be in use at once.                                *)
MCTokensOf(a, r) == {1 + 5 * (2 * Index(a) + Index(r)) + i : i \in 0 .. 4}

MCDigestsOf(a) == {1 + 5 * Index(a) + i : i \in 0 .. 4}

MCDigests == 1 .. 10

VARIABLES setup, started

allVars == <<pipelineVars, setup, started>>

MCInit ==
    /\ \/ setup = "daemon" /\ PipelineInitFor({r1})
       \/ setup = "worker" /\ PipelineInitFor({r1, r2})
    /\ started = FALSE

MCStart(a, o) ==
    \/ setup = "daemon" /\ a \in Daemons /\ Start(a, o) /\ UNCHANGED started
    \/ setup = "worker" /\ a \in ProofWorkers /\ ~started /\ Start(a, o) /\ started' = TRUE
    \/ setup = "worker" /\ a \in Daemons /\ Start(a, o) /\ job'[a].pc = "reclaim" /\ UNCHANGED started

MCNext ==
    /\ UNCHANGED setup
    /\ \/ \E a \in Actors, o \in OperationIDs : MCStart(a, o)
       \/ /\ \/ \E a \in Actors : Work(a) \/ Die(a) \/ Beat(a)
             \/ \E d \in Daemons, r \in DOMAIN reservations, indexed \in BOOLEAN : Poll(d, r, indexed)
             \/ \E d \in Daemons : Reconcile(d)
             \/ \E t \in TxIDs : IncludeTx(t)
             \/ Elapse
          /\ UNCHANGED started

MCSpec == MCInit /\ [][MCNext]_allVars /\ PipelineFairness
=============================================================================
