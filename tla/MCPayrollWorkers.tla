-------------------------- MODULE MCPayrollWorkers --------------------------
(* Teams of processes on one operation: each behaviour has one team, given  *)
(* by what each of its processes may start, and the notes it works on.      *)
EXTENDS PayrollWorkers

CONSTANTS w1, w2, b1, d1, s1, r1, r2, Chosen

Index(x) == CASE x \in {w1, r1} -> 0 [] x \in {w2, r2} -> 1 [] x = b1 -> 2 [] OTHER -> 3

(* Five tokens for each process and reservation and five digests for each   *)
(* process: more than can be in use at once.                                *)
MCTokensOf(a, r) == {1 + 5 * (2 * Index(a) + Index(r)) + i : i \in 0 .. 4}

MCDigestsOf(a) == {1 + 5 * Index(a) + i : i \in 0 .. 4}

MCDigests == 1 .. 20

VARIABLES team, used

(* proof: proves again and again; once: proves one time; rollback,          *)
(* broadcast and sweep likewise are what the process may start.             *)
Teams == <<
    [may |-> {<<w1, "proof">>, <<b1, "broadcast">>}, notes |-> {r1, r2}, faults |-> 1],
    [may |-> {<<w1, "once">>, <<d1, "rollback">>}, notes |-> {r1, r2}, faults |-> 1],
    [may |-> {<<w1, "proof">>, <<d1, "proof">>}, notes |-> {r1, r2}, faults |-> 1],
    [may |-> {<<w1, "proof">>, <<s1, "sweep">>, <<b1, "broadcast">>}, notes |-> {r1, r2}, faults |-> 1],
    [may |-> {<<w1, "once">>, <<w2, "once">>, <<d1, "rollback">>, <<b1, "broadcast">>}, notes |-> {r1}, faults |-> 1],
    [may |-> {<<d1, "proof">>, <<d1, "rollback">>, <<d1, "broadcast">>}, notes |-> {r1, r2}, faults |-> 1] >>

May(a, role) == <<a, role>> \in team.may

MCInit == \E i \in Chosen : team = Teams[i] /\ used = {} /\ WorkersInitFor(Teams[i].notes)

MCNext ==
    /\ UNCHANGED team
    /\ \/ \E a \in Actors, o \in OperationIDs :
            \/ /\ May(a, "proof") \/ (May(a, "once") /\ a \notin used)
               /\ StartProof(a, o)
               /\ used' = used \cup {x \in {a} : May(a, "once")}
            \/ May(a, "broadcast") /\ StartBroadcast(a, o) /\ UNCHANGED used
            \/ May(a, "broadcast") /\ StartDaemonBroadcast(a, o) /\ UNCHANGED used
            \/ May(a, "rollback") /\ StartRollback(a, o) /\ UNCHANGED used
       \/ \E a \in Actors :
            \/ May(a, "sweep") /\ StartSweep(a) /\ UNCHANGED used
            \/ Step(a) /\ UNCHANGED used
            \/ Crash(a) /\ UNCHANGED used
            \/ \E now \in Now : Heartbeat(a, now) /\ UNCHANGED used
       \/ Include /\ UNCHANGED used
       \/ ElapseTime /\ UNCHANGED used
    /\ faults' <= team.faults

MCSpec == MCInit /\ [][MCNext]_<<workerVars, team, used>>
=============================================================================
