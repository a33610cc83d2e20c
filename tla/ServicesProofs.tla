-------------------------- MODULE ServicesProofs ---------------------------
(***************************************************************************)
(* Proofs about the services around the chain.                             *)
(*                                                                         *)
(* ProverAdmission, for every number of requests and every limit: counters *)
(* and sets of goroutines are related through the size of the set of       *)
(* goroutines that stand at certain steps.                                 *)
(*                                                                         *)
(* ProverPool, for every configuration and number of workers: the          *)
(* endpoints of a request are split into those still to be tried, known to *)
(* be busy, waited for and reached, and never leave the configured         *)
(* boundary.                                                               *)
(*                                                                         *)
(* DurableStore implements AtomicStore, for every set of processes and     *)
(* calls and every behaviour of MemoryStore's methods.                     *)
(***************************************************************************)
EXTENDS ProverAdmission, ProverPool, DurableStore, FiniteSetTheorems, TLAPS

(* The provers tried on a leaf that names none, and their time limits. *)
USE ZenonT(120), SMTT(120)

Holding == {"taken", "dequeued", "decoding", "proving", "freeing"}
InQueue == {"waiting", "dequeued", "unqueue"}
Flying == {"decoding", "proving"}
Entering == {"entry", "trying", "taken", "undo", "queueing", "waiting", "dequeued", "unqueue"}

Many(steps) == Cardinality(At(steps))

One(step, steps) == IF step \in steps THEN 1 ELSE 0

(* What the fields of a permit say about its goroutine. *)
PermitInv ==
    \A p \in Requests :
        /\ pc[p] = "decoding" => permit[p] = NoPermit
        /\ pc[p] = "proving" => permit[p].started /\ ~permit[p].released
        /\ pc[p] \in Entering => permit[p] = NoPermit

(* Every counter is the size of a set. *)
Sizes ==
    /\ sem = Many(Holding) /\ sem <= MaxInFlight
    /\ metrics["Queued"] = Many(InQueue) /\ metrics["Queued"] <= MaxQueued
    /\ metrics["InFlight"] = Many(Flying)
    /\ metrics["Proving"] = Many({"proving"})
    /\ metrics["TotalAdmitted"] = metrics["InFlight"] + metrics["TotalReleased"]
    /\ arrived = metrics["TotalAdmitted"] + metrics["TotalRejected"] + metrics["TotalCanceled"]
                 + Many(Entering)

(* The inductive invariant. *)
AdmissionInv == AdmissionTypeOK /\ PermitInv /\ Sizes

(* A set of goroutines has a size. *)
LEMMA ManyNat == ASSUME NEW steps PROVE IsFiniteSet(At(steps)) /\ Many(steps) \in Nat
  BY FS_Subset, FS_CardinalityType, AdmissionAssumption DEF At, Many

(* Moving one goroutine changes the size of such a set by one at most. *)
LEMMA ManyMoves ==
    ASSUME NEW steps, NEW p \in Requests, NEW step, pc \in [Requests -> Steps], Goto(p, step)
    PROVE  /\ Many(steps)' = Many(steps) + One(step, steps) - One(pc[p], steps)
           /\ Many(steps) \in Nat /\ Many(steps)' \in Nat
           /\ pc[p] \in steps => Many(steps) > 0
<1> DEFINE before == At(steps)
           after == {q \in Requests : pc'[q] \in steps}
<1>1. /\ IsFiniteSet(before) /\ Cardinality(before) \in Nat
      /\ IsFiniteSet(after) /\ Cardinality(after) \in Nat
  BY FS_Subset, FS_CardinalityType, AdmissionAssumption DEF At
<1>2. Many(steps) = Cardinality(before) /\ Many(steps)' = Cardinality(after)
  BY DEF Many, At
<1>3. pc'[p] = step /\ \A q \in Requests \ {p} : pc'[q] = pc[q]
  BY DEF Goto
<1>4. CASE pc[p] \in steps /\ step \in steps
  <2>1. after = before
    BY <1>3, <1>4 DEF At
  <2>2. before # {}
    BY <1>4 DEF At
  <2>3. Cardinality(before) # 0 /\ Cardinality(after) = Cardinality(before)
    BY <1>1, <2>1, <2>2, FS_EmptySet
  <2>4. One(step, steps) = 1 /\ One(pc[p], steps) = 1
    BY <1>4 DEF One
  <2> HIDE DEF before, after
  <2> QED BY <1>1, <1>2, <2>3, <2>4
<1>5. CASE pc[p] \in steps /\ step \notin steps
  <2>1. after = before \ {p} /\ p \in before
    BY SMTT(120), <1>3, <1>5 DEF At
  <2>2. Cardinality(before) # 0
    BY <1>1, <2>1, FS_EmptySet
  <2>3. Cardinality(after) = Cardinality(before) - 1
    BY <1>1, <2>1, FS_RemoveElement
  <2> QED BY SMTT(120), <1>1, <1>2, <1>5, <2>2, <2>3 DEF One
<1>6. CASE pc[p] \notin steps /\ step \in steps
  <2>1. after = before \cup {p} /\ p \notin before
    BY SMTT(120), <1>3, <1>6 DEF At
  <2>2. Cardinality(after) = Cardinality(before) + 1
    BY <1>1, <2>1, FS_AddElement
  <2> QED BY SMTT(120), <1>1, <1>2, <1>6, <2>2 DEF One
<1>7. CASE pc[p] \notin steps /\ step \notin steps
  <2>1. after = before
    BY <1>3, <1>7 DEF At
  <2>2. Cardinality(after) = Cardinality(before)
    BY <2>1
  <2>3. One(step, steps) = 0 /\ One(pc[p], steps) = 0
    BY <1>7 DEF One
  <2> HIDE DEF before, after
  <2> QED BY SMTT(120), <1>1, <1>2, <1>7, <2>2, <2>3
<1> QED BY <1>4, <1>5, <1>6, <1>7

(* The five sizes after one move. *)
LEMMA AllMove ==
    ASSUME NEW p \in Requests, NEW step, pc \in [Requests -> Steps], Goto(p, step)
    PROVE  \A S \in {Holding, InQueue, Flying, {"proving"}, Entering} :
              /\ Many(S)' = Many(S) + One(step, S) - One(pc[p], S)
              /\ Many(S) \in Nat /\ Many(S)' \in Nat
              /\ pc[p] \in S => Many(S) > 0
  BY ManyMoves

(* Sizes are numbers. *)
SizesNat ==
    /\ Many(Holding) \in Nat /\ Many(InQueue) \in Nat /\ Many(Flying) \in Nat
    /\ Many({"proving"}) \in Nat /\ Many(Entering) \in Nat

(* The goroutine's permit after a step. *)
LEMMA PermitStep ==
    ASSUME AdmissionInv, NEW p \in Requests, NEW step \in Steps, Goto(p, step),
           \A q \in Requests \ {p} : permit'[q] = permit[q],
           step = "decoding" \/ step \in Entering => permit'[p] = NoPermit,
           step = "proving" => permit'[p].started /\ ~permit'[p].released
    PROVE  PermitInv' /\ pc' \in [Requests -> Steps]
<1>1. pc' \in [Requests -> Steps] /\ pc'[p] = step /\ \A q \in Requests \ {p} : pc'[q] = pc[q]
  BY DEF Goto, AdmissionInv, AdmissionTypeOK
<1>2. \A q \in Requests \ {p} :
        /\ pc'[q] = "decoding" => permit'[q] = NoPermit
        /\ pc'[q] = "proving" => permit'[q].started /\ ~permit'[q].released
        /\ pc'[q] \in Entering => permit'[q] = NoPermit
  BY <1>1 DEF AdmissionInv, PermitInv
<1> QED BY <1>1, <1>2 DEF PermitInv, NoPermit

(* Arrive keeps the invariant. *)
LEMMA ArriveInv ==
    ASSUME AdmissionInv, NEW p \in Requests, Arrive(p)
    PROVE  AdmissionInv'
<1>1. pc[p] = "idle" /\ Goto(p, "entry")
  BY DEF Arrive
<1>2. /\ SizesNat /\ SizesNat'
       /\ Many(Holding)' = Many(Holding)
       /\ Many(InQueue)' = Many(InQueue)
       /\ Many(Flying)' = Many(Flying)
       /\ Many({"proving"})' = Many({"proving"})
       /\ Many(Entering)' = Many(Entering) + 1
  BY SMTT(120), <1>1, AllMove DEF AdmissionInv, AdmissionTypeOK, One, Holding, InQueue, Flying,
     Entering, SizesNat
<1>3. PermitInv' /\ pc' \in [Requests -> Steps]
  BY <1>1, PermitStep DEF Arrive, AdmissionInv, PermitInv, AdmissionTypeOK, NoPermit, Steps,
     Entering
<1>4. Sizes' /\ metrics' \in [Counters -> Nat] /\ sem' \in Nat /\ arrived' \in Nat
  BY SMTT(120), <1>1, <1>2, AdmissionAssumption DEF Arrive, AdmissionInv, AdmissionTypeOK, Sizes,
     SizesNat, Count, Counters, PermitInv, NoPermit
<1> QED BY <1>3, <1>4 DEF Arrive, AdmissionInv, AdmissionTypeOK, Sizes, NoPermit

(* CheckContext keeps the invariant. *)
LEMMA CheckContextInv ==
    ASSUME AdmissionInv, NEW p \in Requests, CheckContext(p)
    PROVE  AdmissionInv'
<1>1. CASE p \in canceled
  <2>1. pc[p] = "entry" /\ Goto(p, "idle")
    BY <1>1 DEF CheckContext
  <2>2. /\ SizesNat /\ SizesNat'
         /\ Many(Holding)' = Many(Holding)
         /\ Many(InQueue)' = Many(InQueue)
         /\ Many(Flying)' = Many(Flying)
         /\ Many({"proving"})' = Many({"proving"})
         /\ Many(Entering)' = Many(Entering) - 1
    BY SMTT(120), <2>1, AllMove DEF AdmissionInv, AdmissionTypeOK, One, Holding, InQueue, Flying,
       Entering, SizesNat
  <2>3. PermitInv' /\ pc' \in [Requests -> Steps]
    BY <1>1, <2>1, PermitStep DEF CheckContext, AdmissionInv, PermitInv, AdmissionTypeOK, NoPermit, Steps,
       Entering
  <2>4. /\ metrics' \in [Counters -> Nat]
        /\ metrics'["TotalCanceled"] = metrics["TotalCanceled"] + 1
        /\ \A c \in Counters \ {"TotalCanceled"} : metrics'[c] = metrics[c]
    BY SMTT(120), <1>1, <2>1 DEF CheckContext, Count, Counters, AdmissionInv, AdmissionTypeOK
  <2>5. Sizes'
    BY SMTT(120), <1>1, <2>2, <2>4 DEF CheckContext, Counters, AdmissionInv, AdmissionTypeOK, Sizes, SizesNat
  <2> QED BY <1>1, <2>3, <2>4, <2>5 DEF CheckContext, AdmissionInv, AdmissionTypeOK, Sizes, NoPermit
<1>2. CASE p \notin canceled
  <2>1. pc[p] = "entry" /\ Goto(p, "trying")
    BY <1>2 DEF CheckContext
  <2>2. /\ SizesNat /\ SizesNat'
         /\ Many(Holding)' = Many(Holding)
         /\ Many(InQueue)' = Many(InQueue)
         /\ Many(Flying)' = Many(Flying)
         /\ Many({"proving"})' = Many({"proving"})
         /\ Many(Entering)' = Many(Entering)
    BY SMTT(120), <2>1, AllMove DEF AdmissionInv, AdmissionTypeOK, One, Holding, InQueue, Flying,
       Entering, SizesNat
  <2>3. PermitInv' /\ pc' \in [Requests -> Steps]
    BY <1>2, <2>1, PermitStep DEF CheckContext, AdmissionInv, PermitInv, AdmissionTypeOK, NoPermit, Steps,
       Entering
  <2>4. Sizes' /\ metrics' \in [Counters -> Nat] /\ sem' \in Nat /\ arrived' \in Nat
    BY <1>2, <2>1, <2>2, AdmissionAssumption DEF CheckContext, AdmissionInv, AdmissionTypeOK, Sizes,
       SizesNat, Count, Counters, PermitInv, NoPermit
  <2> QED BY <1>2, <2>3, <2>4 DEF CheckContext, AdmissionInv, AdmissionTypeOK, Sizes, NoPermit
<1> QED BY <1>1, <1>2

(* TrySend keeps the invariant. *)
LEMMA TrySendInv ==
    ASSUME AdmissionInv, NEW p \in Requests, TrySend(p)
    PROVE  AdmissionInv'
<1>1. CASE HasRoom
  <2>1. pc[p] = "trying" /\ Goto(p, "taken")
    BY <1>1 DEF TrySend, HasRoom
  <2>2. /\ SizesNat /\ SizesNat'
         /\ Many(Holding)' = Many(Holding) + 1
         /\ Many(InQueue)' = Many(InQueue)
         /\ Many(Flying)' = Many(Flying)
         /\ Many({"proving"})' = Many({"proving"})
         /\ Many(Entering)' = Many(Entering)
    BY SMTT(120), <2>1, AllMove DEF AdmissionInv, AdmissionTypeOK, One, Holding, InQueue, Flying,
       Entering, SizesNat
  <2>3. PermitInv' /\ pc' \in [Requests -> Steps]
    BY <1>1, <2>1, PermitStep DEF TrySend, AdmissionInv, PermitInv, AdmissionTypeOK, NoPermit, Steps,
       Entering
  <2>4. Sizes' /\ metrics' \in [Counters -> Nat] /\ sem' \in Nat /\ arrived' \in Nat
    BY SMTT(120), <1>1, <2>1, <2>2, AdmissionAssumption DEF TrySend, HasRoom, AdmissionInv, AdmissionTypeOK, Sizes,
       SizesNat, Count, Counters, PermitInv, NoPermit
  <2> QED BY <1>1, <2>3, <2>4 DEF TrySend, AdmissionInv, AdmissionTypeOK, Sizes, NoPermit
<1>2. CASE ~HasRoom
  <2>1. pc[p] = "trying" /\ Goto(p, "queueing")
    BY <1>2 DEF TrySend, HasRoom
  <2>2. /\ SizesNat /\ SizesNat'
         /\ Many(Holding)' = Many(Holding)
         /\ Many(InQueue)' = Many(InQueue)
         /\ Many(Flying)' = Many(Flying)
         /\ Many({"proving"})' = Many({"proving"})
         /\ Many(Entering)' = Many(Entering)
    BY SMTT(120), <2>1, AllMove DEF AdmissionInv, AdmissionTypeOK, One, Holding, InQueue, Flying,
       Entering, SizesNat
  <2>3. PermitInv' /\ pc' \in [Requests -> Steps]
    BY <1>2, <2>1, PermitStep DEF TrySend, AdmissionInv, PermitInv, AdmissionTypeOK, NoPermit, Steps,
       Entering
  <2>4. Sizes' /\ metrics' \in [Counters -> Nat] /\ sem' \in Nat /\ arrived' \in Nat
    BY <1>2, <2>1, <2>2, AdmissionAssumption DEF TrySend, HasRoom, AdmissionInv, AdmissionTypeOK, Sizes,
       SizesNat, Count, Counters, PermitInv, NoPermit
  <2> QED BY <1>2, <2>3, <2>4 DEF TrySend, AdmissionInv, AdmissionTypeOK, Sizes, NoPermit
<1> QED BY <1>1, <1>2

(* Admit keeps the invariant. *)
LEMMA AdmitInv ==
    ASSUME AdmissionInv, NEW p \in Requests, Admit(p)
    PROVE  AdmissionInv'
<1>1. CASE p \in canceled
  <2>1. pc[p] = "taken" /\ Goto(p, "undo")
    BY <1>1 DEF Admit
  <2>2. /\ SizesNat /\ SizesNat'
         /\ Many(Holding)' = Many(Holding) - 1
         /\ Many(InQueue)' = Many(InQueue)
         /\ Many(Flying)' = Many(Flying)
         /\ Many({"proving"})' = Many({"proving"})
         /\ Many(Entering)' = Many(Entering)
    BY SMTT(120), <2>1, AllMove DEF AdmissionInv, AdmissionTypeOK, One, Holding, InQueue, Flying,
       Entering, SizesNat
  <2>3. PermitInv' /\ pc' \in [Requests -> Steps]
    BY <1>1, <2>1, PermitStep DEF Admit, AdmissionInv, PermitInv, AdmissionTypeOK, NoPermit, Steps,
       Entering
  <2>4. Sizes' /\ metrics' \in [Counters -> Nat] /\ sem' \in Nat /\ arrived' \in Nat
    BY SMTT(120), <1>1, <2>1, <2>2, AdmissionAssumption DEF Admit, AdmissionInv, AdmissionTypeOK, Sizes,
       SizesNat, Count, Counters, PermitInv, NoPermit
  <2> QED BY <1>1, <2>3, <2>4 DEF Admit, AdmissionInv, AdmissionTypeOK, Sizes, NoPermit
<1>2. CASE p \notin canceled
  <2>1. pc[p] = "taken" /\ Goto(p, "decoding")
    BY <1>2 DEF Admit
  <2>2. /\ SizesNat /\ SizesNat'
         /\ Many(Holding)' = Many(Holding)
         /\ Many(InQueue)' = Many(InQueue)
         /\ Many(Flying)' = Many(Flying) + 1
         /\ Many({"proving"})' = Many({"proving"})
         /\ Many(Entering)' = Many(Entering) - 1
    BY SMTT(120), <2>1, AllMove DEF AdmissionInv, AdmissionTypeOK, One, Holding, InQueue, Flying,
       Entering, SizesNat
  <2>3. PermitInv' /\ pc' \in [Requests -> Steps]
    BY <1>2, <2>1, PermitStep DEF Admit, AdmissionInv, PermitInv, AdmissionTypeOK, NoPermit, Steps,
       Entering
  <2>4. Sizes' /\ metrics' \in [Counters -> Nat] /\ sem' \in Nat /\ arrived' \in Nat
    BY SMTT(120), <1>2, <2>1, <2>2, AdmissionAssumption DEF Admit, AdmissionInv, AdmissionTypeOK, Sizes,
       SizesNat, Count, Counters, PermitInv, NoPermit
  <2> QED BY <1>2, <2>3, <2>4 DEF Admit, AdmissionInv, AdmissionTypeOK, Sizes, NoPermit
<1> QED BY <1>1, <1>2

(* CountUndo keeps the invariant. *)
LEMMA CountUndoInv ==
    ASSUME AdmissionInv, NEW p \in Requests, CountUndo(p)
    PROVE  AdmissionInv'
<1>1. pc[p] = "undo" /\ Goto(p, "idle")
  BY DEF CountUndo
<1>2. /\ SizesNat /\ SizesNat'
       /\ Many(Holding)' = Many(Holding)
       /\ Many(InQueue)' = Many(InQueue)
       /\ Many(Flying)' = Many(Flying)
       /\ Many({"proving"})' = Many({"proving"})
       /\ Many(Entering)' = Many(Entering) - 1
  BY SMTT(120), <1>1, AllMove DEF AdmissionInv, AdmissionTypeOK, One, Holding, InQueue, Flying,
     Entering, SizesNat
<1>3. PermitInv' /\ pc' \in [Requests -> Steps]
  BY <1>1, PermitStep DEF CountUndo, AdmissionInv, PermitInv, AdmissionTypeOK, NoPermit, Steps,
     Entering
<1>4. /\ metrics' \in [Counters -> Nat]
      /\ metrics'["TotalCanceled"] = metrics["TotalCanceled"] + 1
      /\ \A c \in Counters \ {"TotalCanceled"} : metrics'[c] = metrics[c]
  BY SMTT(120), <1>1 DEF CountUndo, Count, Counters, AdmissionInv, AdmissionTypeOK
<1>5. Sizes'
  BY SMTT(120), <1>2, <1>4 DEF CountUndo, Counters, AdmissionInv, AdmissionTypeOK, Sizes, SizesNat
<1> QED BY <1>3, <1>4, <1>5 DEF CountUndo, AdmissionInv, AdmissionTypeOK, Sizes, NoPermit

(* Enqueue keeps the invariant. *)
LEMMA EnqueueInv ==
    ASSUME AdmissionInv, NEW p \in Requests, Enqueue(p)
    PROVE  AdmissionInv'
<1>1. CASE QueueFull
  <2>1. pc[p] = "queueing" /\ Goto(p, "idle")
    BY <1>1 DEF Enqueue, QueueFull
  <2>2. /\ SizesNat /\ SizesNat'
         /\ Many(Holding)' = Many(Holding)
         /\ Many(InQueue)' = Many(InQueue)
         /\ Many(Flying)' = Many(Flying)
         /\ Many({"proving"})' = Many({"proving"})
         /\ Many(Entering)' = Many(Entering) - 1
    BY SMTT(120), <2>1, AllMove DEF AdmissionInv, AdmissionTypeOK, One, Holding, InQueue, Flying,
       Entering, SizesNat
  <2>3. PermitInv' /\ pc' \in [Requests -> Steps]
    BY <1>1, <2>1, PermitStep DEF Enqueue, AdmissionInv, PermitInv, AdmissionTypeOK, NoPermit, Steps,
       Entering
  <2>4. /\ metrics' \in [Counters -> Nat]
        /\ metrics'["TotalRejected"] = metrics["TotalRejected"] + 1
        /\ \A c \in Counters \ {"TotalRejected"} : metrics'[c] = metrics[c]
    BY SMTT(120), <1>1, <2>1 DEF Enqueue, Count, Counters, AdmissionInv, AdmissionTypeOK
  <2>5. Sizes'
    BY SMTT(120), <1>1, <2>2, <2>4 DEF Enqueue, Counters, AdmissionInv, AdmissionTypeOK, Sizes, SizesNat
  <2> QED BY <1>1, <2>3, <2>4, <2>5 DEF Enqueue, AdmissionInv, AdmissionTypeOK, Sizes, NoPermit
<1>2. CASE ~QueueFull
  <2>1. pc[p] = "queueing" /\ Goto(p, "waiting")
    BY <1>2 DEF Enqueue, QueueFull
  <2>2. /\ SizesNat /\ SizesNat'
         /\ Many(Holding)' = Many(Holding)
         /\ Many(InQueue)' = Many(InQueue) + 1
         /\ Many(Flying)' = Many(Flying)
         /\ Many({"proving"})' = Many({"proving"})
         /\ Many(Entering)' = Many(Entering)
    BY SMTT(120), <2>1, AllMove DEF AdmissionInv, AdmissionTypeOK, One, Holding, InQueue, Flying,
       Entering, SizesNat
  <2>3. PermitInv' /\ pc' \in [Requests -> Steps]
    BY <1>2, <2>1, PermitStep DEF Enqueue, AdmissionInv, PermitInv, AdmissionTypeOK, NoPermit, Steps,
       Entering
  <2>4. Sizes' /\ metrics' \in [Counters -> Nat] /\ sem' \in Nat /\ arrived' \in Nat
    BY SMTT(120), <1>2, <2>1, <2>2, AdmissionAssumption DEF Enqueue, QueueFull, AdmissionInv, AdmissionTypeOK, Sizes,
       SizesNat, Count, Counters, PermitInv, NoPermit
  <2> QED BY <1>2, <2>3, <2>4 DEF Enqueue, AdmissionInv, AdmissionTypeOK, Sizes, NoPermit
<1> QED BY <1>1, <1>2

(* WaitSend keeps the invariant. *)
LEMMA WaitSendInv ==
    ASSUME AdmissionInv, NEW p \in Requests, WaitSend(p)
    PROVE  AdmissionInv'
<1>1. pc[p] = "waiting" /\ Goto(p, "dequeued")
  BY DEF WaitSend, HasRoom
<1>2. /\ SizesNat /\ SizesNat'
       /\ Many(Holding)' = Many(Holding) + 1
       /\ Many(InQueue)' = Many(InQueue)
       /\ Many(Flying)' = Many(Flying)
       /\ Many({"proving"})' = Many({"proving"})
       /\ Many(Entering)' = Many(Entering)
  BY SMTT(120), <1>1, AllMove DEF AdmissionInv, AdmissionTypeOK, One, Holding, InQueue, Flying,
     Entering, SizesNat
<1>3. PermitInv' /\ pc' \in [Requests -> Steps]
  BY <1>1, PermitStep DEF WaitSend, AdmissionInv, PermitInv, AdmissionTypeOK, NoPermit, Steps,
     Entering
<1>4. Sizes' /\ metrics' \in [Counters -> Nat] /\ sem' \in Nat /\ arrived' \in Nat
  BY SMTT(120), <1>1, <1>2, AdmissionAssumption DEF WaitSend, HasRoom, AdmissionInv, AdmissionTypeOK, Sizes,
     SizesNat, Count, Counters, PermitInv, NoPermit
<1> QED BY <1>3, <1>4 DEF WaitSend, AdmissionInv, AdmissionTypeOK, Sizes, NoPermit

(* WaitCanceled keeps the invariant. *)
LEMMA WaitCanceledInv ==
    ASSUME AdmissionInv, NEW p \in Requests, WaitCanceled(p)
    PROVE  AdmissionInv'
<1>1. pc[p] = "waiting" /\ Goto(p, "idle")
  BY DEF WaitCanceled
<1>2. /\ SizesNat /\ SizesNat'
       /\ Many(Holding)' = Many(Holding)
       /\ Many(InQueue)' = Many(InQueue) - 1
       /\ Many(Flying)' = Many(Flying)
       /\ Many({"proving"})' = Many({"proving"})
       /\ Many(Entering)' = Many(Entering) - 1
  BY SMTT(120), <1>1, AllMove DEF AdmissionInv, AdmissionTypeOK, One, Holding, InQueue, Flying,
     Entering, SizesNat
<1>3. PermitInv' /\ pc' \in [Requests -> Steps]
  BY <1>1, PermitStep DEF WaitCanceled, AdmissionInv, PermitInv, AdmissionTypeOK, NoPermit, Steps,
     Entering
<1>4. Sizes' /\ metrics' \in [Counters -> Nat] /\ sem' \in Nat /\ arrived' \in Nat
  BY SMTT(120), <1>1, <1>2, AdmissionAssumption DEF WaitCanceled, AdmissionInv, AdmissionTypeOK, Sizes,
     SizesNat, Count, Counters, PermitInv, NoPermit
<1> QED BY <1>3, <1>4 DEF WaitCanceled, AdmissionInv, AdmissionTypeOK, Sizes, NoPermit

(* AdmitQueued keeps the invariant. *)
LEMMA AdmitQueuedInv ==
    ASSUME AdmissionInv, NEW p \in Requests, AdmitQueued(p)
    PROVE  AdmissionInv'
<1>1. CASE p \in canceled
  <2>1. pc[p] = "dequeued" /\ Goto(p, "unqueue")
    BY <1>1 DEF AdmitQueued
  <2>2. /\ SizesNat /\ SizesNat'
         /\ Many(Holding)' = Many(Holding) - 1
         /\ Many(InQueue)' = Many(InQueue)
         /\ Many(Flying)' = Many(Flying)
         /\ Many({"proving"})' = Many({"proving"})
         /\ Many(Entering)' = Many(Entering)
    BY SMTT(120), <2>1, AllMove DEF AdmissionInv, AdmissionTypeOK, One, Holding, InQueue, Flying,
       Entering, SizesNat
  <2>3. PermitInv' /\ pc' \in [Requests -> Steps]
    BY <1>1, <2>1, PermitStep DEF AdmitQueued, AdmissionInv, PermitInv, AdmissionTypeOK, NoPermit, Steps,
       Entering
  <2>4. Sizes' /\ metrics' \in [Counters -> Nat] /\ sem' \in Nat /\ arrived' \in Nat
    BY SMTT(120), <1>1, <2>1, <2>2, AdmissionAssumption DEF AdmitQueued, AdmissionInv, AdmissionTypeOK, Sizes,
       SizesNat, Count, Counters, PermitInv, NoPermit
  <2> QED BY <1>1, <2>3, <2>4 DEF AdmitQueued, AdmissionInv, AdmissionTypeOK, Sizes, NoPermit
<1>2. CASE p \notin canceled
  <2>1. pc[p] = "dequeued" /\ Goto(p, "decoding")
    BY <1>2 DEF AdmitQueued
  <2>2. /\ SizesNat /\ SizesNat'
         /\ Many(Holding)' = Many(Holding)
         /\ Many(InQueue)' = Many(InQueue) - 1
         /\ Many(Flying)' = Many(Flying) + 1
         /\ Many({"proving"})' = Many({"proving"})
         /\ Many(Entering)' = Many(Entering) - 1
    BY SMTT(120), <2>1, AllMove DEF AdmissionInv, AdmissionTypeOK, One, Holding, InQueue, Flying,
       Entering, SizesNat
  <2>3. PermitInv' /\ pc' \in [Requests -> Steps]
    BY <1>2, <2>1, PermitStep DEF AdmitQueued, AdmissionInv, PermitInv, AdmissionTypeOK, NoPermit, Steps,
       Entering
  <2>4. Sizes' /\ metrics' \in [Counters -> Nat] /\ sem' \in Nat /\ arrived' \in Nat
    BY SMTT(120), <1>2, <2>1, <2>2, AdmissionAssumption DEF AdmitQueued, AdmissionInv, AdmissionTypeOK, Sizes,
       SizesNat, Count, Counters, PermitInv, NoPermit
  <2> QED BY <1>2, <2>3, <2>4 DEF AdmitQueued, AdmissionInv, AdmissionTypeOK, Sizes, NoPermit
<1> QED BY <1>1, <1>2

(* CountUnqueue keeps the invariant. *)
LEMMA CountUnqueueInv ==
    ASSUME AdmissionInv, NEW p \in Requests, CountUnqueue(p)
    PROVE  AdmissionInv'
<1>1. pc[p] = "unqueue" /\ Goto(p, "idle")
  BY DEF CountUnqueue
<1>2. /\ SizesNat /\ SizesNat'
       /\ Many(Holding)' = Many(Holding)
       /\ Many(InQueue)' = Many(InQueue) - 1
       /\ Many(Flying)' = Many(Flying)
       /\ Many({"proving"})' = Many({"proving"})
       /\ Many(Entering)' = Many(Entering) - 1
  BY SMTT(120), <1>1, AllMove DEF AdmissionInv, AdmissionTypeOK, One, Holding, InQueue, Flying,
     Entering, SizesNat
<1>3. PermitInv' /\ pc' \in [Requests -> Steps]
  BY <1>1, PermitStep DEF CountUnqueue, AdmissionInv, PermitInv, AdmissionTypeOK, NoPermit, Steps,
     Entering
<1>4. Sizes' /\ metrics' \in [Counters -> Nat] /\ sem' \in Nat /\ arrived' \in Nat
  BY SMTT(120), <1>1, <1>2, AdmissionAssumption DEF CountUnqueue, AdmissionInv, AdmissionTypeOK, Sizes,
     SizesNat, Count, Counters, PermitInv, NoPermit
<1> QED BY <1>3, <1>4 DEF CountUnqueue, AdmissionInv, AdmissionTypeOK, Sizes, NoPermit

(* StartProve keeps the invariant. *)
LEMMA StartProveInv ==
    ASSUME AdmissionInv, NEW p \in Requests, StartProve(p)
    PROVE  AdmissionInv'
<1>1. pc[p] = "decoding" /\ Goto(p, "proving")
  BY DEF StartProve
<1>2. /\ SizesNat /\ SizesNat'
       /\ Many(Holding)' = Many(Holding)
       /\ Many(InQueue)' = Many(InQueue)
       /\ Many(Flying)' = Many(Flying)
       /\ Many({"proving"})' = Many({"proving"}) + 1
       /\ Many(Entering)' = Many(Entering)
  BY SMTT(120), <1>1, AllMove DEF AdmissionInv, AdmissionTypeOK, One, Holding, InQueue, Flying,
     Entering, SizesNat
<1>3. PermitInv' /\ pc' \in [Requests -> Steps]
  BY <1>1, PermitStep DEF StartProve, AdmissionInv, PermitInv, AdmissionTypeOK, NoPermit, Steps,
     Entering
<1>4. Sizes' /\ metrics' \in [Counters -> Nat] /\ sem' \in Nat /\ arrived' \in Nat
  BY <1>1, <1>2, AdmissionAssumption DEF StartProve, AdmissionInv, AdmissionTypeOK, Sizes,
     SizesNat, Count, Counters, PermitInv, NoPermit
<1> QED BY <1>3, <1>4 DEF StartProve, AdmissionInv, AdmissionTypeOK, Sizes, NoPermit

(* Release keeps the invariant. *)
LEMMA ReleaseInv ==
    ASSUME AdmissionInv, NEW p \in Requests, Release(p)
    PROVE  AdmissionInv'
<1>1. CASE pc[p] = "decoding"
  <2>1. pc[p] = "decoding" /\ Goto(p, "freeing")
    BY <1>1 DEF Release
  <2>2. /\ SizesNat /\ SizesNat'
         /\ Many(Holding)' = Many(Holding)
         /\ Many(InQueue)' = Many(InQueue)
         /\ Many(Flying)' = Many(Flying) - 1
         /\ Many({"proving"})' = Many({"proving"})
         /\ Many(Entering)' = Many(Entering)
    BY SMTT(120), <2>1, AllMove DEF AdmissionInv, AdmissionTypeOK, One, Holding, InQueue, Flying,
       Entering, SizesNat
  <2>3. PermitInv' /\ pc' \in [Requests -> Steps]
    BY <1>1, <2>1, PermitStep DEF Release, AdmissionInv, PermitInv, AdmissionTypeOK, NoPermit, Steps,
       Entering
  <2>4. Sizes' /\ metrics' \in [Counters -> Nat] /\ sem' \in Nat /\ arrived' \in Nat
    BY SMTT(120), <1>1, <2>1, <2>2, AdmissionAssumption DEF Release, AdmissionInv, AdmissionTypeOK, Sizes,
       SizesNat, Count, Counters, PermitInv, NoPermit
  <2> QED BY <1>1, <2>3, <2>4 DEF Release, AdmissionInv, AdmissionTypeOK, Sizes, NoPermit
<1>2. CASE pc[p] = "proving"
  <2>1. pc[p] = "proving" /\ Goto(p, "freeing")
    BY <1>2 DEF Release
  <2>2. /\ SizesNat /\ SizesNat'
         /\ Many(Holding)' = Many(Holding)
         /\ Many(InQueue)' = Many(InQueue)
         /\ Many(Flying)' = Many(Flying) - 1
         /\ Many({"proving"})' = Many({"proving"}) - 1
         /\ Many(Entering)' = Many(Entering)
    BY SMTT(120), <2>1, AllMove DEF AdmissionInv, AdmissionTypeOK, One, Holding, InQueue, Flying,
       Entering, SizesNat
  <2>3. PermitInv' /\ pc' \in [Requests -> Steps]
    BY <1>2, <2>1, PermitStep DEF Release, AdmissionInv, PermitInv, AdmissionTypeOK, NoPermit, Steps,
       Entering
  <2>4. Sizes' /\ metrics' \in [Counters -> Nat] /\ sem' \in Nat /\ arrived' \in Nat
    BY SMTT(120), <1>2, <2>1, <2>2, AdmissionAssumption DEF Release, AdmissionInv, AdmissionTypeOK, Sizes,
       SizesNat, Count, Counters, PermitInv, NoPermit
  <2> QED BY <1>2, <2>3, <2>4 DEF Release, AdmissionInv, AdmissionTypeOK, Sizes, NoPermit
<1> QED BY <1>1, <1>2 DEF Release

(* Receive keeps the invariant. *)
LEMMA ReceiveInv ==
    ASSUME AdmissionInv, NEW p \in Requests, Receive(p)
    PROVE  AdmissionInv'
<1>1. pc[p] = "freeing" /\ Goto(p, "idle")
  BY DEF Receive
<1>2. /\ SizesNat /\ SizesNat'
       /\ Many(Holding)' = Many(Holding) - 1
       /\ Many(InQueue)' = Many(InQueue)
       /\ Many(Flying)' = Many(Flying)
       /\ Many({"proving"})' = Many({"proving"})
       /\ Many(Entering)' = Many(Entering)
  BY SMTT(120), <1>1, AllMove DEF AdmissionInv, AdmissionTypeOK, One, Holding, InQueue, Flying,
     Entering, SizesNat
<1>3. PermitInv' /\ pc' \in [Requests -> Steps]
  BY <1>1, PermitStep DEF Receive, AdmissionInv, PermitInv, AdmissionTypeOK, NoPermit, Steps,
     Entering
<1>4. Sizes' /\ metrics' \in [Counters -> Nat] /\ sem' \in Nat /\ arrived' \in Nat
  BY SMTT(120), <1>1, <1>2, AdmissionAssumption DEF Receive, AdmissionInv, AdmissionTypeOK, Sizes,
     SizesNat, Count, Counters, PermitInv, NoPermit
<1> QED BY <1>3, <1>4 DEF Receive, AdmissionInv, AdmissionTypeOK, Sizes, NoPermit

(* Losing a caller changes nothing that is counted. *)
LEMMA CancelInv ==
    ASSUME AdmissionInv, NEW p \in Requests, Cancel(p)
    PROVE  AdmissionInv'
<1>1. UNCHANGED <<pc, sem, permit, metrics, arrived>> /\ canceled' \subseteq Requests
  BY DEF Cancel, AdmissionInv, AdmissionTypeOK
<1> QED BY <1>1 DEF AdmissionInv, AdmissionTypeOK, PermitInv, Sizes, Many, At

(* An idle service satisfies the invariant. *)
LEMMA AdmissionInitInv == Init => AdmissionInv
<1> SUFFICES ASSUME Init PROVE AdmissionInv
  OBVIOUS
<1>1. AdmissionTypeOK /\ PermitInv
  BY DEF Init, AdmissionTypeOK, PermitInv, Steps, Counters, NoPermit, Entering
<1>2. \A S \in {Holding, InQueue, Flying, {"proving"}, Entering} : Many(S) = 0
  <2>1. \A S \in {Holding, InQueue, Flying, {"proving"}, Entering} : At(S) = {}
    BY DEF Init, At, Holding, InQueue, Flying, Entering
  <2> QED BY <2>1, FS_EmptySet DEF Many
<1>3. Sizes
  BY <1>2, AdmissionAssumption DEF Init, Sizes, Counters
<1> QED BY <1>1, <1>3 DEF AdmissionInv

-----------------------------------------------------------------------------
(* The inductive invariant holds whatever callers and goroutines do. *)
THEOREM AdmissionSafety == Spec => []AdmissionInv
<1>1. AdmissionInv /\ [Next]_vars => AdmissionInv'
  <2> SUFFICES ASSUME AdmissionInv, [Next]_vars PROVE AdmissionInv'
    OBVIOUS
  <2>1. CASE UNCHANGED vars
    BY <2>1 DEF vars, AdmissionInv, AdmissionTypeOK, PermitInv, Sizes, Many, At
  <2>2. ASSUME NEW p \in Requests, Arrive(p) \/ Cancel(p) \/ Serve(p)
        PROVE  AdmissionInv'
    <3>1. ASSUME Acquire(p) PROVE AdmissionInv'
      BY <3>1, CheckContextInv, TrySendInv, AdmitInv, CountUndoInv, EnqueueInv, WaitSendInv,
         WaitCanceledInv, AdmitQueuedInv, CountUnqueueInv DEF Acquire
    <3> QED BY <2>2, <3>1, ArriveInv, CancelInv, StartProveInv, ReleaseInv, ReceiveInv DEF Serve
  <2> QED BY <2>1, <2>2 DEF Next
<1> QED BY <1>1, AdmissionInitInv, PTL DEF Spec

(* Counters stay natural numbers: none is decremented below zero. *)
THEOREM AdmissionTypeCorrect == Spec => []AdmissionTypeOK
<1>1. AdmissionInv => AdmissionTypeOK
  BY DEF AdmissionInv
<1> QED BY <1>1, AdmissionSafety, PTL

(* No token of the semaphore channel leaks or is freed twice. *)
THEOREM SemaphoreSafe == Spec => []SemaphoreExact
<1>1. AdmissionInv => SemaphoreExact
  BY DEF AdmissionInv, Sizes, SemaphoreExact, Many, Holding
<1> QED BY <1>1, AdmissionSafety, PTL

(* The prover never runs more proofs than the circuit's limit. *)
THEOREM CapacitySafe == Spec => []ProvingWithinCapacity
<1>1. AdmissionInv => ProvingWithinCapacity
  <2> SUFFICES ASSUME AdmissionInv PROVE ProvingWithinCapacity
    OBVIOUS
  <2>1. At(Flying) \subseteq At(Holding)
    BY DEF At, Flying, Holding
  <2>2. Many(Flying) <= Many(Holding)
    BY <2>1, ManyNat, FS_Subset DEF Many
  <2>3. Many(Flying) \in Nat /\ Many(Holding) \in Nat /\ Many(Holding) <= MaxInFlight
    BY ManyNat DEF AdmissionInv, Sizes
  <2>4. Many(Flying) <= MaxInFlight
    BY SMTT(120), <2>2, <2>3, AdmissionAssumption
  <2> QED BY <2>4 DEF ProvingWithinCapacity, Many, Flying
<1> QED BY <1>1, AdmissionSafety, PTL

(* No more than MaxQueued callers wait. *)
THEOREM QueueSafe == Spec => []QueueBounded
<1>1. AdmissionInv => QueueBounded
  BY DEF AdmissionInv, Sizes, QueueBounded, Many, InQueue
<1> QED BY <1>1, AdmissionSafety, PTL

(* Every snapshot of the metrics accounts for every request. *)
THEOREM MetricsSafe == Spec => []MetricsAddUp
<1>1. AdmissionInv => MetricsAddUp
  BY DEF AdmissionInv, Sizes, MetricsAddUp, Many, Flying, Entering
<1> QED BY <1>1, AdmissionSafety, PTL

-----------------------------------------------------------------------------
(* The endpoints a payload may be sent to. *)
Boundary ==
    IF pool.optIn = NoOptIn THEN DOMAIN pool.ids
    ELSE {i \in DOMAIN pool.ids : pool.ids[i] \in Range(pool.optIn.ids)}

RequestType ==
    [pc : {"idle", "try", "wait", "run"}, todo : Seq(Nat), busy : Seq(Nat), at : Nat,
     canceled : BOOLEAN, reached : Seq(Nat)]

(* The endpoint a request waits for is in neither of its lists.             *)
WaitsFor(r) == IF r.pc = "wait" THEN {r.at} ELSE {}

(* The endpoints of a request are apart: each is still to be tried, known   *)
(* to be busy, waited for, or has received the payload.                     *)
Apart(r) ==
    /\ IsInjective(r.todo) /\ IsInjective(r.busy) /\ IsInjective(r.reached)
    /\ Range(r.todo) \cap Range(r.busy) = {}
    /\ Range(r.todo) \cap Range(r.reached) = {}
    /\ Range(r.busy) \cap Range(r.reached) = {}
    /\ WaitsFor(r) \cap (Range(r.todo) \cup Range(r.busy) \cup Range(r.reached)) = {}
    /\ r.pc = "run" => r.at \in Range(r.reached)

Endpoints(r) == Range(r.todo) \cup Range(r.busy) \cup Range(r.reached) \cup WaitsFor(r)

Within(r) == Endpoints(r) \subseteq Boundary

(* Without an opt-in a request has one endpoint in all. *)
OneEndpoint(r) == pool.optIn = NoOptIn => \A i, j \in Endpoints(r) : i = j

PoolInv ==
    /\ pool \in Configurations
    /\ next \in Nat
    /\ request \in [Workers -> RequestType]
    /\ \A w \in Workers :
         /\ request[w].pc # "idle" => Configured
         /\ request[w].pc = "idle" => request[w] = NoRequest
         /\ Apart(request[w]) /\ Within(request[w]) /\ OneEndpoint(request[w])

(* Taking the first endpoint off a list without repetition. *)
LEMMA TakeFirst ==
    ASSUME NEW s \in Seq(Nat), s # <<>>, IsInjective(s)
    PROVE  /\ Tail(s) \in Seq(Nat) /\ Head(s) \in Nat /\ IsInjective(Tail(s))
           /\ Range(s) = Range(Tail(s)) \cup {Head(s)} /\ Head(s) \notin Range(Tail(s))
           /\ Len(s) = Len(Tail(s)) + 1 /\ Len(Tail(s)) \in Nat
<1> DEFINE n == Len(s)
           t == Tail(s)
<1>1. /\ n \in Nat /\ n >= 1 /\ 1 \in 1 .. n /\ Head(s) = s[1] /\ DOMAIN s = 1 .. n
      /\ t \in Seq(Nat) /\ Len(t) = n - 1 /\ DOMAIN t = 1 .. n - 1
      /\ \A i \in 1 .. n - 1 : t[i] = s[i + 1]
  OBVIOUS
<1> HIDE DEF n, t
<1>2. \A i \in 1 .. n - 1 : i + 1 \in 1 .. n /\ i + 1 # 1
  BY <1>1
<1>3. \A i \in 1 .. n : i # 1 => i - 1 \in 1 .. n - 1 /\ (i - 1) + 1 = i
  BY SMTT(120), <1>1
<1>4. IsInjective(t)
  <2> SUFFICES ASSUME NEW i \in 1 .. n - 1, NEW j \in 1 .. n - 1, t[i] = t[j] PROVE i = j
    BY <1>1 DEF IsInjective
  <2>1. s[i + 1] = s[j + 1] /\ i + 1 \in 1 .. n /\ j + 1 \in 1 .. n
    BY <1>1, <1>2
  <2>2. i + 1 = j + 1
    BY <1>1, <2>1 DEF IsInjective
  <2> QED BY <2>2
<1>5. \A i \in 1 .. n - 1 : t[i] \in Range(s) /\ t[i] # s[1]
  <2> SUFFICES ASSUME NEW i \in 1 .. n - 1 PROVE t[i] \in Range(s) /\ t[i] # s[1]
    OBVIOUS
  <2>1. t[i] = s[i + 1] /\ i + 1 \in DOMAIN s /\ i + 1 # 1 /\ 1 \in DOMAIN s
    BY <1>1, <1>2
  <2> QED BY <2>1 DEF Range, IsInjective
<1>6. \A i \in 1 .. n : s[i] = s[1] \/ s[i] \in Range(t)
  <2> SUFFICES ASSUME NEW i \in 1 .. n, i # 1 PROVE s[i] \in Range(t)
    OBVIOUS
  <2>1. t[i - 1] = s[i] /\ i - 1 \in 1 .. n - 1
    BY <1>1, <1>3
  <2> QED BY <1>1, <2>1 DEF Range
<1>7. s[1] \in Range(s) /\ s[1] \in Nat
  BY SMTT(120), <1>1 DEF Range
<1>8. Range(s) = Range(t) \cup {s[1]} /\ s[1] \notin Range(t)
  BY ZenonT(120), <1>1, <1>5, <1>6, <1>7 DEF Range
<1>9. n = (n - 1) + 1 /\ n - 1 \in Nat
  BY SMTT(120), <1>1
<1> QED BY <1>1, <1>4, <1>7, <1>8, <1>9 DEF n, t

(* Putting a new endpoint at the end of a list without repetition. *)
LEMMA PutLast ==
    ASSUME NEW s \in Seq(Nat), IsInjective(s), NEW e \in Nat, e \notin Range(s)
    PROVE  /\ Append(s, e) \in Seq(Nat) /\ IsInjective(Append(s, e))
           /\ Range(Append(s, e)) = Range(s) \cup {e}
           /\ Len(Append(s, e)) = Len(s) + 1 /\ Len(s) \in Nat
<1> DEFINE n == Len(s)
           t == Append(s, e)
<1>1. /\ n \in Nat /\ DOMAIN s = 1 .. n
      /\ t \in Seq(Nat) /\ Len(t) = n + 1 /\ DOMAIN t = 1 .. n + 1
      /\ \A i \in 1 .. n : t[i] = s[i]
      /\ t[n + 1] = e
  OBVIOUS
<1> HIDE DEF n, t
<1>2. \A i \in 1 .. n + 1 : i \in 1 .. n \/ i = n + 1
  BY <1>1
<1>3. 1 .. n \subseteq 1 .. n + 1 /\ n + 1 \in 1 .. n + 1
  BY <1>1
<1>4. \A i \in 1 .. n : s[i] # e
  BY <1>1 DEF Range
<1>5. IsInjective(t)
  BY <1>1, <1>2, <1>4 DEF IsInjective
<1>6. Range(t) = Range(s) \cup {e}
  BY <1>1, <1>2, <1>3 DEF Range
<1> QED BY <1>1, <1>5, <1>6 DEF n, t

(* Rotating a list keeps its elements, each once. *)
LEMMA RotatedApart ==
    ASSUME NEW s \in Seq(Nat), IsInjective(s), NEW k \in 0 .. Len(s) - 1
    PROVE  Rotated(s, k) \in Seq(Nat) /\ IsInjective(Rotated(s, k)) /\ Range(Rotated(s, k)) \subseteq Range(s)
<1> DEFINE n == Len(s)
           a == SubSeq(s, k + 1, n)
           b == SubSeq(s, 1, k)
           t == a \o b
           from(i) == IF i <= n - k THEN i + k ELSE i - (n - k)
<1>1. n \in Nat /\ k \in Nat /\ k < n /\ DOMAIN s = 1 .. n
  OBVIOUS
<1>2. /\ a \in Seq(Nat) /\ Len(a) = n - k
      /\ \A i \in 1 .. n - k : a[i] = s[i + k]
  <2>1. k + 1 \in 1 .. n + 1 /\ n \in k .. n
    BY <1>1
  <2>2. /\ SubSeq(s, k + 1, n) \in Seq(Nat)
        /\ Len(SubSeq(s, k + 1, n)) = (IF k + 1 <= n THEN n - (k + 1) + 1 ELSE 0)
        /\ \A i \in 1 .. n - (k + 1) + 1 : SubSeq(s, k + 1, n)[i] = s[(k + 1) + i - 1]
    BY <1>1, <2>1
  <2>3. n - (k + 1) + 1 = n - k /\ k + 1 <= n /\ \A i \in 1 .. n - k : (k + 1) + i - 1 = i + k
    BY <1>1
  <2> QED BY <2>2, <2>3
<1>3. /\ b \in Seq(Nat) /\ Len(b) = k
      /\ \A i \in 1 .. k : b[i] = s[i]
  BY <1>1
<1> HIDE DEF a, b, n
<1>4. /\ t \in Seq(Nat) /\ Len(t) = n /\ DOMAIN t = 1 .. n
      /\ \A i \in 1 .. n : t[i] = IF i <= n - k THEN a[i] ELSE b[i - (n - k)]
  <2>0. a \in Seq(Nat) /\ b \in Seq(Nat)
    BY <1>2, <1>3
  <2>1. t \in Seq(Nat) /\ Len(t) = Len(a) + Len(b) /\ DOMAIN t = 1 .. Len(a) + Len(b)
    BY <2>0
  <2>2. \A i \in 1 .. Len(a) + Len(b) : t[i] = IF i <= Len(a) THEN a[i] ELSE b[i - Len(a)]
    BY <2>0
  <2>3. Len(a) + Len(b) = n /\ Len(a) = n - k
    BY SMTT(120), <1>1, <1>2, <1>3
  <2> HIDE DEF t
  <2> QED BY <2>1, <2>2, <2>3
<1>5. ASSUME NEW i \in 1 .. n PROVE from(i) \in 1 .. n /\ t[i] = s[from(i)]
  <2>1. CASE i <= n - k
    BY SMTT(120), <1>1, <1>2, <1>4, <2>1
  <2>2. CASE ~(i <= n - k)
    <3>1. i - (n - k) \in 1 .. k /\ i - (n - k) \in 1 .. n
      BY <1>1, <2>2
    <3> QED BY <1>3, <1>4, <2>2, <3>1
  <2> QED BY <2>1, <2>2
<1>6. \A i, j \in 1 .. n : from(i) = from(j) => i = j
  BY <1>1
<1> HIDE DEF from, t
<1>7. IsInjective(t)
  BY SMTT(120), <1>1, <1>4, <1>5, <1>6 DEF IsInjective
<1>8. Range(t) \subseteq Range(s)
  BY SMTT(120), <1>1, <1>4, <1>5 DEF Range
<1>9. Rotated(s, k) = t
  BY DEF Rotated, t, a, b, n
<1> QED BY <1>4, <1>7, <1>8, <1>9

(* The endpoints a request selects are of the boundary, each once; without  *)
(* an opt-in there is one.                                                  *)
LEMMA SelectionInBoundary ==
    ASSUME pool \in Configurations, Configured, next \in Nat
    PROVE  LET s == IndicesForRequest(NextEndpointIndex)
           IN  /\ s \in Seq(Nat) /\ IsInjective(s) /\ Range(s) \subseteq Boundary
               /\ pool.optIn = NoOptIn => Len(s) = 1
               /\ Len(FailoverEndpointIndices) \in Nat \ {0}
<1> DEFINE F == FailoverEndpointIndices
           s == IndicesForRequest(NextEndpointIndex)
<1>1. pool.ids \in Seq(STRING) /\ pool.ids # <<>>
  BY PoolAssumption DEF Configured
<1>2. /\ F \in Seq(Nat) /\ Len(F) \in Nat \ {0} /\ IsInjective(F) /\ Range(F) \subseteq Boundary
  <2>1. CASE pool.optIn = NoOptIn
    <3>1. F = [i \in 1 .. Len(pool.ids) |-> i] /\ Len(pool.ids) \in Nat \ {0}
      BY <1>1, <2>1 DEF FailoverEndpointIndices
    <3>2. F \in Seq(Nat) /\ Len(F) = Len(pool.ids)
      BY <3>1
    <3> QED BY SMTT(120), <1>1, <2>1, <3>1, <3>2 DEF Range, IsInjective, Boundary
  <2>2. CASE pool.optIn # NoOptIn
    <3> DEFINE o == pool.optIn.ids
    <3>1. /\ o \in Seq(STRING) /\ Len(o) \in Nat /\ Len(o) >= 2 /\ IsInjective(o)
          /\ \A id \in Range(o) : Cardinality(Indices(id)) = 1
      BY <2>2, PoolAssumption DEF Configured
    <3>2. \A id \in Range(o) : Indices(id) # {}
      <4>1. Cardinality({}) = 0
        BY FS_EmptySet
      <4>2. ASSUME NEW id \in Range(o), Indices(id) = {} PROVE FALSE
        <5>1. Cardinality(Indices(id)) = 1
          BY <3>1, <4>2
        <5> QED BY <4>1, <4>2, <5>1
      <4> QED BY <4>2
    <3>3. F = [i \in 1 .. Len(o) |-> CHOOSE j \in Indices(o[i]) : TRUE]
      BY SMTT(120), <2>2, <3>1 DEF FailoverEndpointIndices
    <3>4. ASSUME NEW i \in 1 .. Len(o)
          PROVE  F[i] \in DOMAIN pool.ids /\ pool.ids[F[i]] = o[i] /\ o[i] \in Range(o)
      <4>1. o[i] \in Range(o)
        BY <3>1 DEF Range
      <4>2. F[i] \in Indices(o[i])
        BY <3>2, <3>3, <4>1
      <4> QED BY <4>1, <4>2 DEF Indices
    <3>5. DOMAIN pool.ids \subseteq Nat
      BY <1>1
    <3> HIDE DEF o
    <3>6. F \in [1 .. Len(o) -> Nat] /\ DOMAIN F = 1 .. Len(o)
      BY <3>3, <3>4, <3>5
    <3>7. F \in Seq(Nat) /\ Len(F) = Len(o)
      BY SMTT(120), <3>1, <3>6
    <3>8. IsInjective(F)
      BY SMTT(120), <3>1, <3>4, <3>6 DEF IsInjective
    <3>9. Range(F) \subseteq Boundary
      BY ZenonT(120), <2>2, <3>4, <3>6 DEF Range, Boundary, o
    <3> QED BY SMTT(120), <3>1, <3>7, <3>8, <3>9
  <2> QED BY <2>1, <2>2
<1>3. NextEndpointIndex \in 0 .. Len(F) - 1
  <2> HIDE DEF F
  <2>1. \A x \in Nat, y \in Nat \ {0} : x % y \in 0 .. y - 1
    OBVIOUS
  <2> QED BY <1>2, <2>1 DEF NextEndpointIndex, F
<1>4. CASE pool.optIn = NoOptIn
  <2> DEFINE k == NextEndpointIndex
  <2>1. s = <<F[k + 1]>>
    BY <1>4 DEF IndicesForRequest
  <2> HIDE DEF F, k
  <2>2. k + 1 \in 1 .. Len(F)
    BY <1>2, <1>3 DEF k
  <2>3. F[k + 1] \in Nat /\ F[k + 1] \in Range(F)
    BY <1>2, <2>2 DEF Range
  <2> HIDE DEF s
  <2> QED BY SMTT(120), <1>2, <2>1, <2>3 DEF IsInjective, Range, F, s
<1>5. CASE pool.optIn # NoOptIn
  <2>1. s = Rotated(F, NextEndpointIndex)
    BY <1>5 DEF IndicesForRequest
  <2> HIDE DEF F, s
  <2> QED BY <1>2, <1>3, <1>5, <2>1, RotatedApart DEF F, s
<1> QED BY <1>4, <1>5

(* What the invariant says of one request. *)
RequestOK(r) ==
    /\ r \in RequestType
    /\ r.pc # "idle" => Configured
    /\ r.pc = "idle" => r = NoRequest
    /\ Apart(r) /\ Within(r) /\ OneEndpoint(r)

(* An idle worker has sent nothing. *)
LEMMA NoRequestOK == RequestOK(NoRequest)
<1>1. <<>> \in Seq(Nat) /\ Range(<<>>) = {} /\ IsInjective(<<>>) /\ Len(<<>>) = 0
  BY DEF Range, IsInjective
<1>2. NoRequest \in RequestType
  BY <1>1 DEF NoRequest, RequestType
<1> QED BY <1>1, <1>2 DEF RequestOK, NoRequest, Apart, Within, OneEndpoint, Endpoints, WaitsFor

(* A step of one worker keeps the invariant when it leaves its request so. *)
LEMMA OneRequest ==
    ASSUME PoolInv, NEW w \in Workers, NEW r, RequestOK(r), Become(w, r), UNCHANGED pool, next' \in Nat
    PROVE  PoolInv'
<1>1. request' = [request EXCEPT ![w] = r] /\ pool' = pool
  BY DEF Become
<1>2. request' \in [Workers -> RequestType]
  BY <1>1 DEF PoolInv, RequestOK
<1>3. ASSUME NEW v \in Workers PROVE request'[v] = r \/ request'[v] = request[v]
  BY <1>1 DEF PoolInv
<1>4. \A v \in Workers : RequestOK(request[v])
  BY DEF PoolInv, RequestOK
<1>5. \A v \in Workers : RequestOK(request'[v])
  BY <1>3, <1>4
<1>6. Configured' = Configured /\ Boundary' = Boundary
  BY <1>1 DEF Configured, Boundary, Indices
<1>7. ASSUME NEW v \in Workers
      PROVE  /\ request'[v].pc # "idle" => Configured'
             /\ request'[v].pc = "idle" => request'[v] = NoRequest
             /\ Apart(request[v])' /\ Within(request[v])' /\ OneEndpoint(request[v])'
  BY ZenonT(120), <1>1, <1>5, <1>6 DEF RequestOK, Apart, Within, OneEndpoint, Endpoints, WaitsFor
<1> QED BY <1>1, <1>2, <1>7 DEF PoolInv

(* Trying the next endpoint moves it to the busy ones or to those that      *)
(* received the payload, or drops it.                                       *)
LEMMA TryOK ==
    ASSUME NEW r, RequestOK(r), r.pc = "try", r.todo # <<>>
    PROVE  LET i == Head(r.todo)
               rest == [r EXCEPT !.todo = Tail(@)]
           IN  /\ RequestOK(rest)
               /\ RequestOK([rest EXCEPT !.pc = "run", !.at = i, !.reached = Append(@, i)])
               /\ RequestOK([rest EXCEPT !.busy = Append(@, i)])
<1> DEFINE i == Head(r.todo)
           t == Tail(r.todo)
           rest == [r EXCEPT !.todo = t]
           ran == [rest EXCEPT !.pc = "run", !.at = i, !.reached = Append(@, i)]
           put == [rest EXCEPT !.busy = Append(@, i)]
<1>1. /\ r \in RequestType /\ r.todo \in Seq(Nat) /\ r.busy \in Seq(Nat) /\ r.reached \in Seq(Nat)
      /\ Configured /\ Apart(r) /\ Within(r) /\ OneEndpoint(r)
  BY DEF RequestOK, RequestType
<1>2. /\ t \in Seq(Nat) /\ i \in Nat /\ IsInjective(t)
      /\ Range(r.todo) = Range(t) \cup {i} /\ i \notin Range(t)
      /\ Len(r.todo) = Len(t) + 1 /\ Len(t) \in Nat
  BY <1>1, TakeFirst DEF Apart
<1> HIDE DEF i, t
<1>3. /\ rest \in RequestType /\ rest.todo = t /\ rest.busy = r.busy /\ rest.reached = r.reached
      /\ rest.pc = "try"
  BY <1>1, <1>2 DEF RequestType
<1>4. i \notin Range(r.busy) /\ i \notin Range(r.reached) /\ i \in Boundary
  BY <1>1, <1>2 DEF Apart, Within, Endpoints
<1>5. /\ Append(r.reached, i) \in Seq(Nat) /\ IsInjective(Append(r.reached, i))
      /\ Range(Append(r.reached, i)) = Range(r.reached) \cup {i}
      /\ Len(Append(r.reached, i)) = Len(r.reached) + 1 /\ Len(r.reached) \in Nat
  BY <1>1, <1>2, <1>4, PutLast DEF Apart
<1>6. /\ Append(r.busy, i) \in Seq(Nat) /\ IsInjective(Append(r.busy, i))
      /\ Range(Append(r.busy, i)) = Range(r.busy) \cup {i}
      /\ Len(Append(r.busy, i)) = Len(r.busy) + 1 /\ Len(r.busy) \in Nat
  BY <1>1, <1>2, <1>4, PutLast DEF Apart
<1>7. /\ ran \in RequestType /\ ran.todo = t /\ ran.busy = r.busy
      /\ ran.reached = Append(r.reached, i) /\ ran.pc = "run" /\ ran.at = i
  BY <1>1, <1>2, <1>5 DEF RequestType
<1>8. /\ put \in RequestType /\ put.todo = t /\ put.busy = Append(r.busy, i)
      /\ put.reached = r.reached /\ put.pc = "try"
  BY <1>1, <1>2, <1>6 DEF RequestType
<1> HIDE DEF rest, ran, put
<1>9. Apart(rest) /\ Apart(ran) /\ Apart(put)
  BY ZenonT(120), <1>1, <1>2, <1>3, <1>4, <1>5, <1>6, <1>7, <1>8 DEF Apart, WaitsFor
<1>10. Within(rest) /\ Within(ran) /\ Within(put)
  BY <1>1, <1>2, <1>3, <1>4, <1>5, <1>6, <1>7, <1>8 DEF Within, Endpoints, WaitsFor
<1>11. OneEndpoint(rest) /\ OneEndpoint(ran) /\ OneEndpoint(put)
  BY ZenonT(120), <1>1, <1>2, <1>3, <1>5, <1>6, <1>7, <1>8 DEF OneEndpoint, Endpoints, WaitsFor
<1> QED BY <1>1, <1>3, <1>7, <1>8, <1>9, <1>10, <1>11 DEF RequestOK, i, t, rest, ran, put

(* Waiting for the first busy endpoint, and being let in. *)
LEMMA WaitOK ==
    ASSUME NEW r, RequestOK(r)
    PROVE  /\ r.pc = "try" /\ r.busy # <<>> =>
                RequestOK([r EXCEPT !.pc = "wait", !.at = Head(r.busy), !.busy = Tail(@)])
           /\ r.pc = "wait" => RequestOK([r EXCEPT !.pc = "run", !.reached = Append(@, r.at)])
           /\ r.pc \in {"wait", "run"} => RequestOK([r EXCEPT !.pc = "try"])
           /\ r.pc # "idle" => RequestOK([r EXCEPT !.canceled = TRUE])
<1>1. /\ r \in RequestType /\ r.todo \in Seq(Nat) /\ r.busy \in Seq(Nat) /\ r.reached \in Seq(Nat)
      /\ Apart(r) /\ Within(r) /\ OneEndpoint(r) /\ (r.pc # "idle" => Configured) /\ r.at \in Nat
      /\ Len(r.todo) \in Nat /\ Len(r.busy) \in Nat /\ Len(r.reached) \in Nat
  BY SMTT(120) DEF RequestOK, RequestType
<1>2. ASSUME r.pc = "try", r.busy # <<>>
      PROVE  RequestOK([r EXCEPT !.pc = "wait", !.at = Head(r.busy), !.busy = Tail(@)])
  <2> DEFINE i == Head(r.busy)
             b == Tail(r.busy)
             new == [r EXCEPT !.pc = "wait", !.at = i, !.busy = b]
  <2>1. /\ b \in Seq(Nat) /\ i \in Nat /\ IsInjective(b)
        /\ Range(r.busy) = Range(b) \cup {i} /\ i \notin Range(b)
        /\ Len(r.busy) = Len(b) + 1 /\ Len(b) \in Nat
    BY <1>1, <1>2, TakeFirst DEF Apart
  <2> HIDE DEF i, b
  <2>2. /\ new \in RequestType /\ new.todo = r.todo /\ new.busy = b /\ new.reached = r.reached
        /\ new.pc = "wait" /\ new.at = i
    BY <1>1, <2>1 DEF RequestType
  <2> HIDE DEF new
  <2>3. Apart(new)
    BY ZenonT(120), <1>1, <1>2, <2>1, <2>2 DEF Apart, WaitsFor
  <2>4. Within(new)
    BY <1>1, <1>2, <2>1, <2>2 DEF Within, Endpoints, WaitsFor
  <2>5. OneEndpoint(new)
    BY SMTT(120), <1>1, <1>2, <2>1, <2>2 DEF OneEndpoint, Endpoints, WaitsFor
  <2> QED BY <1>1, <1>2, <2>2, <2>3, <2>4, <2>5 DEF RequestOK, new, i, b
<1>3. ASSUME r.pc = "wait"
      PROVE  RequestOK([r EXCEPT !.pc = "run", !.reached = Append(@, r.at)])
  <2> DEFINE a == Append(r.reached, r.at)
             new == [r EXCEPT !.pc = "run", !.reached = a]
  <2>1. r.at \notin Range(r.reached) /\ r.at \notin Range(r.todo) /\ r.at \notin Range(r.busy)
    BY <1>1, <1>3 DEF Apart, WaitsFor
  <2>2. /\ a \in Seq(Nat) /\ IsInjective(a) /\ Range(a) = Range(r.reached) \cup {r.at}
        /\ Len(a) = Len(r.reached) + 1
    BY <1>1, <2>1, PutLast DEF Apart
  <2> HIDE DEF a
  <2>3. /\ new \in RequestType /\ new.todo = r.todo /\ new.busy = r.busy /\ new.reached = a
        /\ new.pc = "run" /\ new.at = r.at
    BY <1>1, <2>2 DEF RequestType
  <2> HIDE DEF new
  <2>4. Apart(new)
    BY <1>1, <2>1, <2>2, <2>3 DEF Apart, WaitsFor
  <2>5. Within(new)
    BY <1>1, <1>3, <2>2, <2>3 DEF Within, Endpoints, WaitsFor
  <2>6. OneEndpoint(new)
    <3>1. Endpoints(new) = Endpoints(r)
      BY <1>3, <2>2, <2>3 DEF Endpoints, WaitsFor
    <3> QED BY <1>1, <3>1 DEF OneEndpoint
  <2> QED BY <1>1, <1>3, <2>3, <2>4, <2>5, <2>6 DEF RequestOK, new, a
<1>4. ASSUME r.pc \in {"wait", "run"} PROVE RequestOK([r EXCEPT !.pc = "try"])
  <2> DEFINE new == [r EXCEPT !.pc = "try"]
  <2>1. /\ new \in RequestType /\ new.todo = r.todo /\ new.busy = r.busy /\ new.reached = r.reached
        /\ new.pc = "try"
    BY <1>1 DEF RequestType
  <2> HIDE DEF new
  <2>2. Apart(new) /\ Within(new)
    BY <1>1, <2>1 DEF Apart, Within, Endpoints, WaitsFor
  <2>3. OneEndpoint(new)
    BY SMTT(120), <1>1, <2>1 DEF OneEndpoint, Endpoints, WaitsFor
  <2> QED BY <1>1, <1>4, <2>1, <2>2, <2>3 DEF RequestOK, new
<1>5. ASSUME r.pc # "idle" PROVE RequestOK([r EXCEPT !.canceled = TRUE])
  <2> DEFINE new == [r EXCEPT !.canceled = TRUE]
  <2>1. /\ new \in RequestType /\ new.todo = r.todo /\ new.busy = r.busy /\ new.reached = r.reached
        /\ new.pc = r.pc /\ new.at = r.at
    BY <1>1 DEF RequestType
  <2> HIDE DEF new
  <2>2. Apart(new) /\ Within(new) /\ OneEndpoint(new)
    BY ZenonT(120), <1>1, <2>1 DEF Apart, Within, Endpoints, WaitsFor, OneEndpoint
  <2> QED BY <1>1, <1>5, <2>1, <2>2 DEF RequestOK, new
<1> QED BY <1>2, <1>3, <1>4, <1>5

(* Every step of the pool keeps every request within its endpoints. *)
LEMMA PoolStepInv == PoolInv /\ [PoolNext]_poolVars => PoolInv'
<1> SUFFICES ASSUME PoolInv, [PoolNext]_poolVars PROVE PoolInv'
  OBVIOUS
<1>1. ASSUME NEW w \in Workers PROVE RequestOK(request[w])
  BY DEF PoolInv, RequestOK
<1>2. next \in Nat /\ pool \in Configurations
  BY DEF PoolInv
<1>3. ASSUME NEW w \in Workers, Request(w) PROVE PoolInv'
  <2> DEFINE s == IndicesForRequest(NextEndpointIndex)
             new == [NoRequest EXCEPT !.pc = "try", !.todo = s]
  <2>1. Configured /\ Become(w, new) /\ UNCHANGED pool
    BY <1>3 DEF Request
  <2>2. /\ s \in Seq(Nat) /\ IsInjective(s) /\ Range(s) \subseteq Boundary
        /\ pool.optIn = NoOptIn => Len(s) = 1
        /\ Len(FailoverEndpointIndices) \in Nat \ {0}
    BY <1>2, <2>1, SelectionInBoundary
  <2>3. next' \in Nat
    <3>1. \A x \in Nat, y \in Nat \ {0} : x % y \in Nat
      OBVIOUS
    <3>2. NextEndpointIndex \in Nat
      BY <1>2, <2>2, <3>1 DEF NextEndpointIndex
    <3> QED BY SMTT(120), <1>3, <2>2, <3>1, <3>2 DEF Request
  <2> HIDE DEF s
  <2>4. <<>> \in Seq(Nat) /\ Range(<<>>) = {} /\ IsInjective(<<>>) /\ Len(<<>>) = 0
    BY DEF Range, IsInjective
  <2>5. /\ new \in RequestType /\ new.todo = s /\ new.busy = <<>> /\ new.reached = <<>>
        /\ new.pc = "try"
    BY <2>2, <2>4 DEF RequestType, NoRequest
  <2> HIDE DEF new
  <2>6. Apart(new) /\ Within(new) /\ OneEndpoint(new)
    <3>1. pool.optIn = NoOptIn => \A i, j \in Range(s) : i = j
      BY SMTT(120), <2>2 DEF Range
    <3>2. Endpoints(new) = Range(s)
      BY <2>4, <2>5 DEF Endpoints, WaitsFor
    <3>3. Apart(new)
      BY <2>2, <2>4, <2>5 DEF Apart, WaitsFor
    <3> QED BY <2>2, <3>1, <3>2, <3>3 DEF Within, OneEndpoint
  <2>7. RequestOK(new)
    BY <2>1, <2>5, <2>6 DEF RequestOK
  <2> QED BY <2>1, <2>3, <2>7, OneRequest DEF new, s
<1>4. ASSUME NEW w \in Workers, CancelRequest(w) PROVE PoolInv'
  BY <1>1, <1>2, <1>4, WaitOK, OneRequest DEF CancelRequest
<1>5. ASSUME NEW w \in Workers, Try(w) PROVE PoolInv'
  <2>1. request[w].pc = "try" /\ request[w].todo # <<>> /\ UNCHANGED <<pool, next>>
    BY <1>5 DEF Try
  <2> DEFINE i == Head(request[w].todo)
             rest == [request[w] EXCEPT !.todo = Tail(@)]
  <2>2. \/ Become(w, rest)
        \/ Become(w, [rest EXCEPT !.pc = "run", !.at = i, !.reached = Append(@, i)])
        \/ Become(w, [rest EXCEPT !.busy = Append(@, i)])
    BY <1>5 DEF Try
  <2>3. /\ RequestOK(rest)
        /\ RequestOK([rest EXCEPT !.pc = "run", !.at = i, !.reached = Append(@, i)])
        /\ RequestOK([rest EXCEPT !.busy = Append(@, i)])
    BY <1>1, <2>1, TryOK
  <2> HIDE DEF i, rest
  <2> QED BY <1>2, <2>1, <2>2, <2>3, OneRequest
<1>6. ASSUME NEW w \in Workers, AwaitBusy(w) PROVE PoolInv'
  BY <1>1, <1>2, <1>6, WaitOK, OneRequest DEF AwaitBusy
<1>7. ASSUME NEW w \in Workers, Acquired(w) PROVE PoolInv'
  BY <1>1, <1>2, <1>7, WaitOK, OneRequest DEF Acquired
<1>8. ASSUME NEW w \in Workers, WaitEnds(w) PROVE PoolInv'
  BY <1>1, <1>2, <1>8, WaitOK, NoRequestOK, OneRequest DEF WaitEnds
<1>9. ASSUME NEW w \in Workers, Attempted(w) PROVE PoolInv'
  BY <1>1, <1>2, <1>9, WaitOK, NoRequestOK, OneRequest DEF Attempted
<1>10. ASSUME NEW w \in Workers, Fail(w) PROVE PoolInv'
  BY <1>2, <1>10, NoRequestOK, OneRequest DEF Fail
<1>11. CASE UNCHANGED poolVars
  <2>1. pool' = pool /\ next' = next /\ request' = request
    BY <1>11 DEF poolVars
  <2>2. Configured' = Configured /\ Boundary' = Boundary
    BY <2>1 DEF Configured, Indices, Boundary
  <2>3. ASSUME NEW w \in Workers
        PROVE  (Apart(request[w]) /\ Within(request[w]) /\ OneEndpoint(request[w]))'
    <3>1. WaitsFor(request[w])' = WaitsFor(request[w])
      BY <2>1 DEF WaitsFor
    <3>2. Endpoints(request[w])' = Endpoints(request[w])
      BY <2>1, <3>1 DEF Endpoints
    <3>3. Apart(request[w])' = Apart(request[w])
      BY <2>1, <3>1 DEF Apart
    <3>4. Within(request[w])' /\ OneEndpoint(request[w])'
      BY <2>1, <2>2, <3>2 DEF PoolInv, Within, OneEndpoint
    <3> QED BY <3>3, <3>4 DEF PoolInv
  <2> QED BY <2>1, <2>2, <2>3 DEF PoolInv
<1> QED BY <1>3, <1>4, <1>5, <1>6, <1>7, <1>8, <1>9, <1>10, <1>11 DEF PoolNext, Proceed, Refuse

(* The invariant of the pool. *)
THEOREM PoolSafety == PoolSpec => []PoolInv
<1>1. PoolInit => PoolInv
  <2> SUFFICES ASSUME PoolInit PROVE PoolInv
    OBVIOUS
  <2>1. \A w \in Workers : request[w] = NoRequest /\ RequestOK(request[w])
    BY NoRequestOK DEF PoolInit
  <2>2. request \in [Workers -> RequestType] /\ pool \in Configurations /\ next \in Nat
    BY NoRequestOK DEF PoolInit, RequestOK
  <2> QED BY <2>1, <2>2 DEF PoolInv, RequestOK
<1> QED BY <1>1, PoolStepInv, PTL DEF PoolSpec

(* For every configuration of the pool, a payload reaches one endpoint, or, *)
(* with an acknowledged opt-in, those the opt-in lists, each at most once.  *)
THEOREM BoundarySafe == PoolSpec => []PayloadStaysInBoundary
<1>1. PoolInv => PayloadStaysInBoundary
  <2> SUFFICES ASSUME PoolInv, NEW w \in Workers
               PROVE  /\ IsInjective(request[w].reached)
                      /\ pool.optIn = NoOptIn => Len(request[w].reached) <= 1
                      /\ pool.optIn # NoOptIn =>
                           \A i \in Range(request[w].reached) :
                               pool.optIn.acknowledged /\ pool.ids[i] \in Range(pool.optIn.ids)
    BY DEF PayloadStaysInBoundary
  <2>1. /\ request[w] \in RequestType /\ Apart(request[w]) /\ Within(request[w])
        /\ OneEndpoint(request[w])
    BY DEF PoolInv
  <2>2. ASSUME pool.optIn = NoOptIn PROVE Len(request[w].reached) <= 1
    <3> DEFINE s == request[w].reached
    <3>1. s \in Seq(Nat) /\ Len(s) \in Nat /\ DOMAIN s = 1 .. Len(s)
      BY SMTT(120), <2>1 DEF RequestType
    <3>2. \A i, j \in DOMAIN s : s[i] = s[j]
      BY <2>1, <2>2 DEF OneEndpoint, Endpoints, Range
    <3>3. \A i, j \in DOMAIN s : i = j
      BY <2>1, <3>2 DEF Apart, IsInjective
    <3> HIDE DEF s
    <3>4. CASE Len(s) >= 2
      <4>1. 1 \in 1 .. Len(s) /\ 2 \in 1 .. Len(s)
        BY <3>1, <3>4
      <4> QED BY <3>1, <3>3, <4>1
    <3> QED BY <3>1, <3>4 DEF s
  <2>3. ASSUME pool.optIn # NoOptIn, NEW i \in Range(request[w].reached)
        PROVE  pool.optIn.acknowledged /\ pool.ids[i] \in Range(pool.optIn.ids)
    <3>1. i \in Boundary
      BY <2>1 DEF Within, Endpoints
    <3>2. request[w].pc # "idle"
      <4>1. Range(NoRequest.reached) = {}
        BY DEF NoRequest, Range
      <4> QED BY <2>3, <4>1 DEF PoolInv
    <3>3. pool.optIn.acknowledged
      BY <2>3, <3>2 DEF PoolInv, Configured
    <3> QED BY <2>3, <3>1, <3>3 DEF Boundary
  <2> QED BY <2>1, <2>2, <2>3 DEF Apart
<1> QED BY <1>1, PoolSafety, PTL

-----------------------------------------------------------------------------
(* With a limit, every slot taken is that of a proof that runs, and no      *)
(* endpoint runs more than MaxConcurrencyPerEndpoint proofs of the pool: no *)
(* path of a request, failing, timed out or canceled, loses a slot or frees *)
(* one twice.  Without one no slot is taken.                                *)
RunningAt(i) == {w \in Workers : request[w].pc = "run" /\ request[w].at = i}

SlotsExact ==
    \A i \in DOMAIN pool.ids :
        IF Unlimited THEN slots[i] = 0
        ELSE slots[i] = Cardinality(RunningAt(i)) /\ slots[i] <= pool.limit

SlotsInv == slots \in [DOMAIN pool.ids -> Nat] /\ SlotsExact

(* The sets of running proofs are finite. *)
LEMMA RunningFinite == \A i : IsFiniteSet(RunningAt(i)) /\ Cardinality(RunningAt(i)) \in Nat
<1>1. \A i : RunningAt(i) \subseteq Workers
  BY DEF RunningAt
<1>2. \A i : IsFiniteSet(RunningAt(i))
  BY <1>1, PoolAssumption, FS_Subset
<1> QED BY <1>2, FS_CardinalityType

(* Without a limit the slots stay as they are, all empty. *)
LEMMA NoSemaphore ==
    ASSUME SlotsInv, Unlimited, UNCHANGED <<pool, slots>>
    PROVE  SlotsInv'
BY DEF SlotsInv, SlotsExact, Unlimited

(* tryAcquireEndpoint and acquireEndpoint: the slot taken is the worker's.  *)
LEMMA SlotTaken ==
    ASSUME PoolInv, SlotsInv, NEW w \in Workers, NEW r, NEW i \in DOMAIN pool.ids, Become(w, r),
           request[w].pc # "run", r.pc = "run", r.at = i, HasSlot(i),
           slots' = Taken(i), UNCHANGED pool
    PROVE  SlotsInv'
<1>a. CASE Unlimited
  BY <1>a, NoSemaphore DEF Taken
<1> SUFFICES ASSUME ~Unlimited PROVE SlotsInv'
  BY <1>a
<1>b. /\ slots[i] < pool.limit /\ slots' = [slots EXCEPT ![i] = @ + 1]
      /\ pool.limit \in Nat /\ ~Unlimited'
  BY PoolAssumption DEF HasSlot, Taken, Unlimited, PoolInv
<1>1. request'[w] = r /\ \A v \in Workers \ {w} : request'[v] = request[v]
  BY DEF Become, PoolInv
<1>2. RunningAt(i)' = RunningAt(i) \cup {w} /\ w \notin RunningAt(i)
  BY <1>1 DEF RunningAt
<1>3. \A j : j # i => RunningAt(j)' = RunningAt(j)
  BY <1>1 DEF RunningAt
<1>4. Cardinality(RunningAt(i)') = Cardinality(RunningAt(i)) + 1
  BY <1>2, RunningFinite, FS_AddElement
<1>5. slots \in [DOMAIN pool.ids -> Nat] /\ slots[i] \in Nat
  BY DEF SlotsInv
<1>6. /\ slots' \in [DOMAIN pool.ids -> Nat] /\ slots'[i] = slots[i] + 1
      /\ \A j \in DOMAIN pool.ids : j # i => slots'[j] = slots[j]
  BY SMTT(120), <1>5, <1>b
<1>7. slots'[i] <= pool.limit
  BY SMTT(120), <1>5, <1>6, <1>b
<1>8. slots'[i] = Cardinality(RunningAt(i)')
  BY <1>4, <1>6 DEF SlotsInv, SlotsExact
<1>9. ASSUME NEW j \in DOMAIN pool.ids
      PROVE  slots'[j] = Cardinality(RunningAt(j)') /\ slots'[j] <= pool.limit
  BY <1>3, <1>6, <1>7, <1>8 DEF SlotsInv, SlotsExact
<1> QED BY <1>6, <1>9, <1>b DEF SlotsInv, SlotsExact

(* The deferred release of runProverEndpointAttempt: the slot of the worker. *)
LEMMA SlotFreed ==
    ASSUME PoolInv, SlotsInv, NEW w \in Workers, NEW r, Become(w, r), UNCHANGED pool,
           request[w].pc = "run", r.pc # "run", request[w].at \in DOMAIN pool.ids,
           slots' = Released(w)
    PROVE  SlotsInv'
<1>a. CASE Unlimited
  BY <1>a, NoSemaphore DEF Released
<1> SUFFICES ASSUME ~Unlimited PROVE SlotsInv'
  BY <1>a
<1>b. pool.limit \in Nat /\ ~Unlimited'
  BY PoolAssumption DEF Unlimited, PoolInv
<1>0. PICK i \in DOMAIN pool.ids : i = request[w].at
  OBVIOUS
<1>1. request'[w] = r /\ \A v \in Workers \ {w} : request'[v] = request[v]
  BY DEF Become, PoolInv
<1>2. RunningAt(i)' = RunningAt(i) \ {w} /\ w \in RunningAt(i)
  BY <1>0, <1>1 DEF RunningAt
<1>3. \A j : j # i => RunningAt(j)' = RunningAt(j)
  BY <1>0, <1>1 DEF RunningAt
<1>4. Cardinality(RunningAt(i)') = Cardinality(RunningAt(i)) - 1
  BY <1>2, RunningFinite, FS_RemoveElement
<1>5. Cardinality(RunningAt(i)) \in Nat /\ Cardinality(RunningAt(i)') \in Nat
  <2>1. IsFiniteSet(RunningAt(i) \ {w})
    BY RunningFinite, FS_Subset
  <2> QED BY <1>2, <2>1, RunningFinite, FS_CardinalityType
<1>6. slots \in [DOMAIN pool.ids -> Nat] /\ slots[i] \in Nat
      /\ slots[i] = Cardinality(RunningAt(i)) /\ slots[i] <= pool.limit
  BY DEF SlotsInv, SlotsExact
<1>7. slots' = [slots EXCEPT ![i] = @ - 1]
  BY <1>0 DEF Released
<1>8. slots[i] - 1 \in Nat /\ slots[i] - 1 <= pool.limit
  BY SMTT(120), <1>4, <1>5, <1>6, <1>b
<1>9. /\ slots' \in [DOMAIN pool.ids -> Nat] /\ slots'[i] = slots[i] - 1
      /\ \A j \in DOMAIN pool.ids : j # i => slots'[j] = slots[j]
  BY <1>6, <1>7, <1>8
<1>10. ASSUME NEW j \in DOMAIN pool.ids
       PROVE  slots'[j] = Cardinality(RunningAt(j)') /\ slots'[j] <= pool.limit
  <2>1. CASE j = i
    BY <1>4, <1>6, <1>8, <1>9, <2>1
  <2>2. CASE j # i
    BY <1>3, <1>9, <2>2 DEF SlotsInv, SlotsExact
  <2> QED BY <2>1, <2>2
<1> QED BY <1>9, <1>10, <1>b DEF SlotsInv, SlotsExact

(* Any other step of a request leaves the running proofs and the slots.     *)
LEMMA SlotsKept ==
    ASSUME PoolInv, SlotsInv, NEW w \in Workers, NEW r, Become(w, r), UNCHANGED <<pool, slots>>,
           r.pc = "run" <=> request[w].pc = "run", r.pc = "run" => r.at = request[w].at
    PROVE  SlotsInv'
<1>1. request'[w] = r /\ \A v \in Workers \ {w} : request'[v] = request[v]
  BY DEF Become, PoolInv
<1>2. \A j : RunningAt(j)' = RunningAt(j)
  BY <1>1 DEF RunningAt
<1> QED BY <1>2 DEF SlotsInv, SlotsExact, Unlimited

(* Every step of the pool keeps the slots exact. *)
LEMMA SlotsStepInv == PoolInv /\ SlotsInv /\ [PoolNext]_poolVars => SlotsInv'
<1> SUFFICES ASSUME PoolInv, SlotsInv, [PoolNext]_poolVars PROVE SlotsInv'
  OBVIOUS
<1>1. ASSUME NEW w \in Workers
      PROVE  /\ request[w] \in RequestType
             /\ Range(request[w].todo) \subseteq DOMAIN pool.ids
             /\ request[w].pc \in {"wait", "run"} => request[w].at \in DOMAIN pool.ids
  <2>1. request[w] \in RequestType /\ Apart(request[w]) /\ Within(request[w])
    BY DEF PoolInv
  <2>2. Endpoints(request[w]) \subseteq DOMAIN pool.ids
    BY <2>1 DEF Within, Boundary
  <2> QED BY <2>1, <2>2 DEF Apart, Endpoints, WaitsFor
<1>2. ASSUME NEW w \in Workers, Request(w) PROVE SlotsInv'
  <2> DEFINE new == [NoRequest EXCEPT !.pc = "try", !.todo = IndicesForRequest(NextEndpointIndex)]
  <2>1. new.pc = "try" /\ Become(w, new) /\ request[w].pc = "idle" /\ UNCHANGED <<pool, slots>>
    BY <1>2 DEF Request, NoRequest
  <2> HIDE DEF new
  <2> QED BY <2>1, SlotsKept
<1>3. ASSUME NEW w \in Workers, CancelRequest(w) PROVE SlotsInv'
  <2> DEFINE new == [request[w] EXCEPT !.canceled = TRUE]
  <2>1. /\ new.pc = request[w].pc /\ new.at = request[w].at /\ Become(w, new)
        /\ UNCHANGED <<pool, slots>>
    BY <1>1, <1>3 DEF CancelRequest, RequestType
  <2> HIDE DEF new
  <2> QED BY <2>1, SlotsKept
<1>4. ASSUME NEW w \in Workers, Try(w) PROVE SlotsInv'
  <2> DEFINE i == Head(request[w].todo)
             rest == [request[w] EXCEPT !.todo = Tail(@)]
             ran == [rest EXCEPT !.pc = "run", !.at = i, !.reached = Append(@, i)]
             put == [rest EXCEPT !.busy = Append(@, i)]
  <2>1. request[w].pc = "try" /\ request[w].todo # <<>> /\ UNCHANGED <<pool, next>>
    BY <1>4 DEF Try
  <2>2. \/ Become(w, rest) /\ UNCHANGED slots
        \/ HasSlot(i) /\ slots' = Taken(i) /\ Become(w, ran)
        \/ Become(w, put) /\ UNCHANGED slots
    BY <1>4 DEF Try
  <2>3. rest.pc = "try" /\ ran.pc = "run" /\ ran.at = i /\ put.pc = "try"
    BY <1>1, <2>1 DEF RequestType
  <2>4. i \in DOMAIN pool.ids
    <3>1. request[w].todo \in Seq(Nat) /\ IsInjective(request[w].todo)
      BY <1>1 DEF RequestType, PoolInv, Apart
    <3>2. i \in Range(request[w].todo)
      BY <2>1, <3>1, TakeFirst
    <3> QED BY <1>1, <3>2
  <2> HIDE DEF i, rest, ran, put
  <2> QED BY <2>1, <2>2, <2>3, <2>4, SlotsKept, SlotTaken
<1>5. ASSUME NEW w \in Workers, AwaitBusy(w) PROVE SlotsInv'
  <2> DEFINE new == [request[w] EXCEPT !.pc = "wait", !.at = Head(request[w].busy), !.busy = Tail(@)]
  <2>1. new.pc = "wait" /\ Become(w, new) /\ request[w].pc = "try" /\ UNCHANGED <<pool, slots>>
    BY <1>1, <1>5 DEF AwaitBusy, RequestType
  <2> HIDE DEF new
  <2> QED BY <2>1, SlotsKept
<1>6. ASSUME NEW w \in Workers, Acquired(w) PROVE SlotsInv'
  <2> DEFINE i == request[w].at
             new == [request[w] EXCEPT !.pc = "run", !.reached = Append(@, i)]
  <2>1. /\ request[w].pc = "wait" /\ HasSlot(i) /\ Become(w, new)
        /\ slots' = Taken(i) /\ UNCHANGED pool
    BY <1>6 DEF Acquired
  <2>2. new.pc = "run" /\ new.at = i
    BY <1>1 DEF RequestType
  <2>3. i \in DOMAIN pool.ids
    BY <1>1, <2>1
  <2> HIDE DEF i, new
  <2> QED BY <2>1, <2>2, <2>3, SlotTaken
<1>7. ASSUME NEW w \in Workers, WaitEnds(w) PROVE SlotsInv'
  <2> DEFINE new == [request[w] EXCEPT !.pc = "try"]
  <2>1. new.pc = "try" /\ NoRequest.pc = "idle"
    BY <1>1 DEF RequestType, NoRequest
  <2>2. /\ Become(w, NoRequest) \/ Become(w, new)
        /\ request[w].pc = "wait" /\ UNCHANGED <<pool, slots>>
    BY <1>7 DEF WaitEnds
  <2> HIDE DEF new
  <2> QED BY <2>1, <2>2, SlotsKept
<1>8. ASSUME NEW w \in Workers, Attempted(w) PROVE SlotsInv'
  <2> DEFINE new == [request[w] EXCEPT !.pc = "try"]
  <2>1. new.pc = "try" /\ NoRequest.pc = "idle"
    BY <1>1 DEF RequestType, NoRequest
  <2>2. /\ Become(w, NoRequest) \/ Become(w, new)
        /\ request[w].pc = "run" /\ UNCHANGED pool /\ slots' = Released(w)
    BY <1>8 DEF Attempted
  <2>3. request[w].at \in DOMAIN pool.ids
    BY <1>1, <2>2
  <2> HIDE DEF new
  <2> QED BY <2>1, <2>2, <2>3, SlotFreed
<1>9. ASSUME NEW w \in Workers, Fail(w) PROVE SlotsInv'
  BY <1>9, SlotsKept DEF Fail, NoRequest
<1>10. CASE UNCHANGED poolVars
  BY <1>10 DEF poolVars, SlotsInv, SlotsExact, RunningAt, Unlimited
<1> QED BY <1>2, <1>3, <1>4, <1>5, <1>6, <1>7, <1>8, <1>9, <1>10 DEF PoolNext, Proceed, Refuse

(* For every pool and number of workers, the semaphores of the endpoints    *)
(* count the running proofs exactly and never pass their limit, and a pool  *)
(* without a limit takes no slot.                                           *)
THEOREM SlotsSafe == PoolSpec => []SlotsExact
<1>1. PoolInit => SlotsInv
  <2> SUFFICES ASSUME PoolInit PROVE SlotsInv
    OBVIOUS
  <2>1. slots = [i \in DOMAIN pool.ids |-> 0]
    BY DEF PoolInit
  <2>2. \A i : RunningAt(i) = {}
    BY DEF PoolInit, NoRequest, RunningAt
  <2>3. Cardinality({}) = 0 /\ pool.limit \in Nat
    BY FS_EmptySet, PoolAssumption DEF PoolInit
  <2>4. 0 <= pool.limit
    BY SMTT(120), <2>3
  <2> QED BY <2>1, <2>2, <2>3, <2>4 DEF SlotsInv, SlotsExact
<1>2. SlotsInv => SlotsExact
  BY DEF SlotsInv
<1> QED BY <1>1, <1>2, PoolSafety, SlotsStepInv, PTL DEF PoolSpec

-----------------------------------------------------------------------------
Told == {"ok", "refused", "conflict", "error", "lost"}

Renamed == [call : Calls, content : Contents]

FilePC == {"idle", "begin", "mutated", "writing", "renamed"}

SqlPC == {"idle", "begin", "locked", "mutated"}

DurableTypeOK ==
    /\ stable \in Contents
    /\ applied \subseteq Calls
    /\ answer \in [Calls -> {"new", "open"} \cup Told]
    /\ backend \in {"file", "sql"}
    /\ pending \in Seq(Renamed)
    /\ lock \in Processes \cup {None}
    /\ proc \in [Processes -> [pc     : IF backend = "file" THEN FilePC ELSE SqlPC,
                               call   : Calls \cup {None},
                               before : Contents]]

(* A handle that is not idle runs a call of its own, whose caller waits.    *)
OwnCall ==
    /\ \A p \in Processes :
         IF proc[p].pc = "idle" THEN proc[p] = Idle
         ELSE proc[p].call \in Calls /\ answer[proc[p].call] = "open"
    /\ \A p, q \in Processes :
         (proc[p].pc # "idle" /\ proc[p].call = proc[q].call) => p = q

(* The renames that are not written back are a chain of effects on the      *)
(* stable content: of distinct calls that are not in it, none of which was  *)
(* told that it succeeded or that it was refused.                           *)
PendingChain ==
    /\ backend = "sql" => pending = <<>>
    /\ \A i \in 1 .. Len(pending) :
         /\ pending[i].content \in
              Apply(pending[i].call, IF i = 1 THEN stable ELSE pending[i - 1].content)
         /\ pending[i].call \notin applied
         /\ answer[pending[i].call] \in {"open", "error", "lost"}
         /\ \A j \in 1 .. Len(pending) : pending[i].call = pending[j].call => i = j

Waiting == {pending[i].call : i \in 1 .. Len(pending)}

(* A call has no effect before its rename or its commit, and has one after. *)
EffectInPlace ==
    /\ \A c \in Calls : answer[c] = "new" => c \notin applied
    /\ \A p \in Processes :
         /\ proc[p].pc \in {"begin", "locked", "mutated", "writing"} =>
              proc[p].call \notin applied /\ proc[p].call \notin Waiting
         /\ proc[p].pc = "renamed" => proc[p].call \in applied \/ proc[p].call \in Waiting

(* The snapshot a call is about to replace is the one it was computed from. *)
LockHeld ==
    \A p \in Processes :
        /\ backend = "file" /\ proc[p].pc \in {"writing", "renamed"} => lock = p
        /\ backend = "sql" /\ proc[p].pc \in {"locked", "mutated"} => lock = p
        /\ proc[p].pc = "writing" => proc[p].before = OnDisk
        /\ backend = "sql" /\ proc[p].pc = "mutated" => proc[p].before = stable

DurableInv == DurableTypeOK /\ OwnCall /\ PendingChain /\ EffectInPlace /\ LockHeld

-----------------------------------------------------------------------------
(* What a busy handle runs, read off the invariant. *)
LEMMA Busy ==
    ASSUME DurableInv, NEW p \in Processes, proc[p].pc # "idle"
    PROVE  /\ proc[p].call \in Calls /\ answer[proc[p].call] = "open" /\ proc[p] # Idle
           /\ \A q \in Processes \ {p} : proc[q].call # proc[p].call
  BY SMTT(120) DEF DurableInv, OwnCall, Idle

(* The renames waiting for the write-back are snapshots of calls. *)
LEMMA PendingTyped ==
    ASSUME DurableInv, NEW i \in 1 .. Len(pending)
    PROVE  pending[i].call \in Calls /\ pending[i].content \in Contents
<1>1. pending[i] \in Renamed
  BY SMTT(120) DEF DurableInv, DurableTypeOK
<1> QED BY <1>1 DEF Renamed

(* Returning an answer keeps the invariant when the answer is one the       *)
(* effect of the call allows and the lock is given up by its holder only.   *)
LEMMA ReturnInv ==
    ASSUME DurableInv, NEW p \in Processes, proc[p].pc # "idle", NEW told \in Told, Return(p, told),
           told \in {"ok", "refused", "conflict"} => proc[p].call \notin Waiting,
           UNCHANGED <<stable, applied, backend, pending>>,
           lock' = lock \/ (lock = p /\ lock' = None)
    PROVE  DurableInv'
<1> DEFINE c == proc[p].call
<1>1. /\ c \in Calls /\ answer[c] = "open"
      /\ \A q \in Processes \ {p} : proc[q].call # c
  BY Busy
<1>2. /\ proc'[p] = Idle
      /\ \A q \in Processes \ {p} : proc'[q] = proc[q]
      /\ answer'[c] = told
      /\ \A d \in Calls \ {c} : answer'[d] = answer[d]
  BY <1>1 DEF Return, DurableInv, DurableTypeOK
<1>3. DurableTypeOK'
  <2>1. Idle \in [pc : IF backend = "file" THEN FilePC ELSE SqlPC, call : Calls \cup {None},
                  before : Contents]
    BY ContentsAssumption DEF Idle, FilePC, SqlPC
  <2> QED BY <1>1, <2>1 DEF Return, DurableInv, DurableTypeOK
<1> HIDE DEF c
<1>4. OwnCall'
  BY SMTT(120), <1>1, <1>2, ContentsAssumption DEF DurableInv, OwnCall, Idle, DurableTypeOK
<1>5. PendingChain'
  <2>1. ASSUME NEW i \in 1 .. Len(pending)
        PROVE  answer'[pending[i].call] \in {"open", "error", "lost"}
    <3>1. pending[i].call \in Calls
      BY PendingTyped
    <3> QED BY SMTT(120), <1>2, <3>1 DEF DurableInv, PendingChain, Waiting, Told, c
  <2> QED BY ZenonT(120), <2>1 DEF DurableInv, PendingChain
<1>6. EffectInPlace'
  BY SMTT(120), <1>1, <1>2 DEF DurableInv, EffectInPlace, Waiting, Idle, Told
<1>7. LockHeld'
  BY SMTT(120), <1>2 DEF DurableInv, LockHeld, Idle, OnDisk
<1> QED BY <1>3, <1>4, <1>5, <1>6, <1>7 DEF DurableInv

(* A call that goes on before its effect: only its own pc and copy change.  *)
LEMMA ContinueInv ==
    ASSUME DurableInv, NEW p \in Processes, proc[p].pc \in {"begin", "locked", "mutated"},
           NEW step \in {"locked", "mutated", "writing"}, NEW before \in Contents,
           proc' = [proc EXCEPT ![p].pc = step, ![p].before = before],
           step \in IF backend = "file" THEN FilePC ELSE SqlPC,
           UNCHANGED <<stable, applied, answer, backend, pending>>,
           lock' = lock \/ (lock = None /\ lock' = p),
           step = "writing" => lock' = p /\ before = OnDisk,
           backend = "sql" => lock' = p /\ (step = "mutated" => before = stable)
    PROVE  DurableInv'
<1>1. /\ proc'[p].pc = step /\ proc'[p].call = proc[p].call /\ proc'[p].before = before
      /\ \A q \in Processes \ {p} : proc'[q] = proc[q]
  BY DEF DurableInv, DurableTypeOK
<1>2. DurableTypeOK'
  BY ZenonT(120) DEF DurableInv, DurableTypeOK
<1>3. OwnCall'
  <2>1. /\ proc[p].call \in Calls /\ answer[proc[p].call] = "open" /\ step # "idle"
        /\ \A q \in Processes \ {p} : proc[q].call # proc[p].call
    BY Busy
  <2>2. ASSUME NEW q \in Processes
        PROVE  IF proc'[q].pc = "idle" THEN proc'[q] = Idle
               ELSE proc'[q].call \in Calls /\ answer'[proc'[q].call] = "open"
    <3>1. CASE q = p
      BY <1>1, <2>1, <3>1
    <3>2. CASE q # p
      BY <1>1, <3>2, ZenonT(120) DEF DurableInv, OwnCall
    <3> QED BY <3>1, <3>2
  <2>3. ASSUME NEW q \in Processes, NEW r \in Processes,
               proc'[q].pc # "idle", proc'[q].call = proc'[r].call
        PROVE  q = r
    <3>1. CASE q = p /\ r # p
      BY SMTT(120), <1>1, <2>1, <2>3, <3>1
    <3>2. CASE q # p /\ r = p
      BY SMTT(120), <1>1, <2>1, <2>3, <3>2
    <3>3. CASE q # p /\ r # p
      BY SMTT(120), <1>1, <2>3, <3>3 DEF DurableInv, OwnCall
    <3> QED BY <3>1, <3>2, <3>3
  <2> QED BY <2>2, <2>3 DEF OwnCall
<1>4. PendingChain'
  BY ZenonT(120) DEF DurableInv, PendingChain
<1>5. EffectInPlace'
  <2>1. Waiting' = Waiting
    BY DEF Waiting
  <2>2. ASSUME NEW q \in Processes
        PROVE  /\ proc'[q].pc \in {"begin", "locked", "mutated", "writing"} =>
                    proc'[q].call \notin applied' /\ proc'[q].call \notin Waiting'
               /\ proc'[q].pc = "renamed" => proc'[q].call \in applied' \/ proc'[q].call \in Waiting'
    <3>1. CASE q = p
      <4>1. proc[p].call \notin applied /\ proc[p].call \notin Waiting
        BY DEF DurableInv, EffectInPlace
      <4> QED BY SMTT(120), <1>1, <2>1, <3>1, <4>1
    <3>2. CASE q # p
      <4>1. proc'[q] = proc[q] /\ applied' = applied
        BY <1>1, <3>2
      <4>2. /\ proc[q].pc \in {"begin", "locked", "mutated", "writing"} =>
                 proc[q].call \notin applied /\ proc[q].call \notin Waiting
            /\ proc[q].pc = "renamed" => proc[q].call \in applied \/ proc[q].call \in Waiting
        BY DEF DurableInv, EffectInPlace
      <4> QED BY SMTT(120), <2>1, <4>1, <4>2
    <3> QED BY <3>1, <3>2
  <2> QED BY <2>2 DEF DurableInv, EffectInPlace
<1>6. LockHeld'
  <2>1. OnDisk' = OnDisk
    BY DEF OnDisk
  <2>2. ASSUME NEW q \in Processes
        PROVE  /\ backend = "file" /\ proc'[q].pc \in {"writing", "renamed"} => lock' = q
               /\ backend = "sql" /\ proc'[q].pc \in {"locked", "mutated"} => lock' = q
               /\ proc'[q].pc = "writing" => proc'[q].before = OnDisk
               /\ backend = "sql" /\ proc'[q].pc = "mutated" => proc'[q].before = stable
    <3>1. CASE q = p
      BY <1>1, <3>1
    <3>2. CASE q # p
      <4>1. proc'[q] = proc[q]
        BY <1>1, <3>2
      <4>2. lock = q => lock' = q
        BY ContentsAssumption
      <4>3. /\ backend = "file" /\ proc[q].pc \in {"writing", "renamed"} => lock = q
            /\ backend = "sql" /\ proc[q].pc \in {"locked", "mutated"} => lock = q
            /\ proc[q].pc = "writing" => proc[q].before = OnDisk
            /\ backend = "sql" /\ proc[q].pc = "mutated" => proc[q].before = stable
        BY DEF DurableInv, LockHeld
      <4> QED BY <4>1, <4>2, <4>3, ZenonT(120)
    <3> QED BY <3>1, <3>2
  <2> QED BY <2>1, <2>2 DEF LockHeld
<1> QED BY <1>2, <1>3, <1>4, <1>5, <1>6 DEF DurableInv

(* A new call has had no effect. *)
LEMMA BeginInv ==
    ASSUME DurableInv, NEW p \in Processes, NEW c \in Calls, Begin(p, c)
    PROVE  DurableInv'
<1>1. /\ proc'[p] = [pc |-> "begin", call |-> c, before |-> Empty]
      /\ \A q \in Processes \ {p} : proc'[q] = proc[q]
      /\ answer'[c] = "open" /\ answer[c] = "new"
      /\ \A d \in Calls \ {c} : answer'[d] = answer[d]
      /\ UNCHANGED <<stable, applied, backend, pending, lock>>
  BY DEF Begin, DurableInv, DurableTypeOK
<1>2. \A q \in Processes \ {p} : proc[q].pc # "idle" => proc[q].call # c
  BY <1>1 DEF DurableInv, OwnCall
<1>3. c # None
  BY ContentsAssumption
<1>4. DurableTypeOK'
  BY ZenonT(120), ContentsAssumption DEF Begin, DurableInv, DurableTypeOK, FilePC, SqlPC
<1>5. OwnCall'
  BY SMTT(120), <1>1, <1>2, <1>3 DEF DurableInv, OwnCall, Idle
<1>6. c \notin Waiting
  BY ZenonT(120), <1>1 DEF DurableInv, PendingChain, Waiting
<1>7. PendingChain'
  <2>1. ASSUME NEW i \in 1 .. Len(pending)
        PROVE  answer'[pending[i].call] = answer[pending[i].call]
    BY <1>1, <1>6, PendingTyped DEF Waiting
  <2> QED BY ZenonT(120), <1>1, <2>1 DEF DurableInv, PendingChain
<1>8. EffectInPlace'
  BY SMTT(120), <1>1, <1>6 DEF DurableInv, EffectInPlace, Waiting
<1>9. LockHeld'
  BY SMTT(120), <1>1 DEF DurableInv, LockHeld, OnDisk
<1> QED BY <1>4, <1>5, <1>7, <1>8, <1>9 DEF DurableInv

(* A rename adds one effect to the end of the chain: the snapshot was       *)
(* computed from the file it replaces.                                      *)
LEMMA RenameInv ==
    ASSUME DurableInv, NEW p \in Processes, Rename(p)
    PROVE  DurableInv'
<1> DEFINE c == proc[p].call
           n == Len(pending)
<1>1. /\ backend = "file" /\ proc[p].pc = "writing" /\ lock = p /\ proc[p].before = OnDisk
      /\ c \notin applied /\ c \notin Waiting
      /\ UNCHANGED <<stable, applied, answer, backend, lock>>
  BY DEF Rename, Stands, DurableInv, LockHeld, EffectInPlace
<1>2. /\ c \in Calls /\ answer[c] = "open"
      /\ \A q \in Processes \ {p} : proc[q].call # c
  BY <1>1, Busy
<1>3. PICK new \in Apply(c, OnDisk) : pending' = Append(pending, [call |-> c, content |-> new])
  BY <1>1 DEF Rename
<1>4. /\ proc'[p].pc = "renamed" /\ proc'[p].call = c
      /\ \A q \in Processes \ {p} : proc'[q] = proc[q]
  BY DEF Rename, Continue, DurableInv, DurableTypeOK
<1>5. OnDisk \in Contents
  <2>1. pending \in Seq(Renamed) /\ stable \in Contents
    BY DEF DurableInv, DurableTypeOK
  <2>2. CASE pending # <<>>
    <3>1. Len(pending) \in 1 .. Len(pending)
      BY SMTT(120), <2>1, <2>2
    <3> QED BY <2>2, <3>1, PendingTyped DEF OnDisk
  <2> QED BY <2>1, <2>2 DEF OnDisk
<1>6. new \in Contents /\ pending \in Seq(Renamed) /\ n \in Nat /\ backend' = "file"
  BY SMTT(120), <1>1, <1>2, <1>3, <1>5, ContentsAssumption DEF DurableInv, DurableTypeOK
<1>7. /\ Len(pending') = n + 1
      /\ \A i \in 1 .. n : pending'[i] = pending[i]
      /\ pending'[n + 1].call = c /\ pending'[n + 1].content = new
  BY <1>3, <1>6
<1>8. DurableTypeOK'
  <2>1. pending' \in Seq(Renamed)
    BY SMTT(120), <1>2, <1>3, <1>6 DEF Renamed
  <2>2. proc' \in [Processes -> [pc : IF backend = "file" THEN FilePC ELSE SqlPC,
                                 call : Calls \cup {None}, before : Contents]]
    BY ZenonT(120), <1>1 DEF Rename, Continue, DurableInv, DurableTypeOK, FilePC
  <2> QED BY <1>1, <2>1, <2>2 DEF DurableInv, DurableTypeOK
<1>9. Waiting' = Waiting \cup {c}
  <2>1. \A i \in 1 .. n + 1 : i \in 1 .. n \/ i = n + 1
    BY <1>6
  <2>2. 1 .. n \subseteq 1 .. n + 1 /\ n + 1 \in 1 .. n + 1
    BY <1>6
  <2> QED BY <1>7, <2>1, <2>2 DEF Waiting
<1> HIDE DEF c, n
<1>10. OwnCall'
  <2>1. ASSUME NEW q \in Processes
        PROVE  IF proc'[q].pc = "idle" THEN proc'[q] = Idle
               ELSE proc'[q].call \in Calls /\ answer'[proc'[q].call] = "open"
    <3>1. CASE q = p
      BY <1>1, <1>2, <1>4, <3>1
    <3>2. CASE q # p
      BY ZenonT(120), <1>1, <1>4, <3>2 DEF DurableInv, OwnCall
    <3> QED BY <3>1, <3>2
  <2>2. ASSUME NEW q \in Processes, NEW r \in Processes,
               proc'[q].pc # "idle", proc'[q].call = proc'[r].call
        PROVE  q = r
    <3>1. CASE q = p /\ r # p
      BY <1>2, <1>4, <2>2, <3>1
    <3>2. CASE q # p /\ r = p
      BY <1>2, <1>4, <2>2, <3>2
    <3>3. CASE q # p /\ r # p
      BY ZenonT(120), <1>4, <2>2, <3>3 DEF DurableInv, OwnCall
    <3> QED BY <3>1, <3>2, <3>3
  <2> QED BY <2>1, <2>2 DEF OwnCall
<1>11. PendingChain'
  <2>1. OnDisk = IF n = 0 THEN stable ELSE pending[n].content
    BY <1>6 DEF OnDisk, n
  <2>2. \A i \in 1 .. n : pending[i].call \in Waiting
    BY DEF Waiting, n
  <2>3. ASSUME NEW i \in 1 .. n + 1
        PROVE  /\ pending'[i].content \in
                    Apply(pending'[i].call, IF i = 1 THEN stable ELSE pending'[i - 1].content)
               /\ pending'[i].call \notin applied
               /\ answer[pending'[i].call] \in {"open", "error", "lost"}
    <3>1. CASE i \in 1 .. n
      <4>1. i # 1 => i - 1 \in 1 .. n
        BY SMTT(120), <1>6, <3>1
      <4> QED BY <1>7, <3>1, <4>1 DEF DurableInv, PendingChain, n
    <3>2. CASE i = n + 1
      <4>1. (i = 1 <=> n = 0) /\ i - 1 = n /\ (n # 0 => n \in 1 .. n)
        BY <1>6, <3>2
      <4> QED BY ZenonT(120), <1>1, <1>2, <1>3, <1>7, <2>1, <3>2, <4>1
    <3> QED BY <1>6, <3>1, <3>2
  <2>4. ASSUME NEW i \in 1 .. n + 1, NEW j \in 1 .. n + 1, pending'[i].call = pending'[j].call
        PROVE  i = j
    <3>1. CASE i \in 1 .. n /\ j \in 1 .. n
      BY <1>7, <2>4, <3>1 DEF DurableInv, PendingChain, n
    <3>2. CASE i \in 1 .. n /\ j = n + 1
      BY <1>1, <1>7, <2>2, <2>4, <3>2
    <3>3. CASE i = n + 1 /\ j \in 1 .. n
      BY <1>1, <1>7, <2>2, <2>4, <3>3
    <3> QED BY <1>6, <3>1, <3>2, <3>3
  <2> QED BY <1>1, <1>6, <1>7, <2>3, <2>4 DEF PendingChain
<1>12. EffectInPlace'
  <2>1. ASSUME NEW q \in Processes
        PROVE  /\ proc'[q].pc \in {"begin", "locked", "mutated", "writing"} =>
                    proc'[q].call \notin applied /\ proc'[q].call \notin Waiting'
               /\ proc'[q].pc = "renamed" => proc'[q].call \in applied \/ proc'[q].call \in Waiting'
    <3>1. CASE q = p
      BY <1>4, <1>9, <3>1
    <3>2. CASE q # p
      <4>1. /\ proc[q].pc \in {"begin", "locked", "mutated", "writing"} =>
                 proc[q].call \notin applied /\ proc[q].call \notin Waiting
            /\ proc[q].pc = "renamed" => proc[q].call \in applied \/ proc[q].call \in Waiting
        BY DEF DurableInv, EffectInPlace
      <4>2. proc'[q] = proc[q] /\ proc[q].call # c
        BY <1>2, <1>4, <3>2
      <4> QED BY <1>9, <4>1, <4>2
    <3> QED BY <3>1, <3>2
  <2> QED BY <1>1, <2>1 DEF DurableInv, EffectInPlace
<1>13. LockHeld'
  <2>1. ASSUME NEW q \in Processes
        PROVE  /\ proc'[q].pc \in {"writing", "renamed"} => lock = q
               /\ proc'[q].pc # "writing"
    BY <1>1, <1>4 DEF DurableInv, LockHeld
  <2> QED BY <1>1, <2>1 DEF LockHeld
<1> QED BY <1>8, <1>10, <1>11, <1>12, <1>13 DEF DurableInv

(* The write-back of the oldest rename keeps the chain and the file every   *)
(* process reads.                                                           *)
LEMMA WriteBackInv ==
    ASSUME DurableInv, WriteBack
    PROVE  DurableInv'
<1> DEFINE n == Len(pending)
           c == pending[1].call
<1>1. /\ pending \in Seq(Renamed) /\ pending # <<>> /\ n \in Nat /\ n >= 1 /\ 1 \in 1 .. n
      /\ stable' = pending[1].content
      /\ applied' = applied \cup {c}
      /\ pending' = Tail(pending)
      /\ UNCHANGED <<answer, backend, lock, proc>>
  BY SMTT(120) DEF WriteBack, DurableInv, DurableTypeOK
<1>2. /\ pending' \in Seq(Renamed) /\ Len(pending') = n - 1
      /\ \A i \in 1 .. n - 1 : pending'[i] = pending[i + 1] /\ i + 1 \in 1 .. n
  BY <1>1
<1>3. c \in Calls /\ pending[1].content \in Contents
  BY <1>1, PendingTyped
<1>4. answer[c] \in {"open", "error", "lost"}
  BY <1>1 DEF DurableInv, PendingChain
<1>5. backend = "file"
  BY <1>1 DEF DurableInv, PendingChain, DurableTypeOK
<1>6. DurableTypeOK'
  BY <1>1, <1>2, <1>3 DEF DurableInv, DurableTypeOK
<1>7. Waiting \subseteq Waiting' \cup {c} /\ Waiting' \subseteq Waiting
  <2>1. ASSUME NEW i \in 1 .. n PROVE pending[i].call \in Waiting' \cup {c}
    <3>1. CASE i # 1
      <4>1. i - 1 \in 1 .. n - 1 /\ (i - 1) + 1 = i
        BY SMTT(120), <1>1, <3>1
      <4>2. pending'[i - 1] = pending[i]
        BY <1>2, <4>1
      <4> QED BY <1>2, <4>1, <4>2 DEF Waiting
    <3> QED BY <3>1
  <2>2. ASSUME NEW i \in 1 .. n - 1 PROVE pending'[i].call \in Waiting
    BY <1>2 DEF Waiting
  <2> QED BY <1>2, <2>1, <2>2 DEF Waiting
<1>8. c \in Waiting
  BY <1>1 DEF Waiting
<1>9. OnDisk' = OnDisk
  <2>1. CASE n = 1
    <3>1. pending' = <<>>
      BY SMTT(120), <1>2, <2>1
    <3> QED BY <1>1, <2>1, <3>1 DEF OnDisk
  <2>2. CASE n # 1
    <3>1. Len(pending') = n - 1 /\ pending' # <<>> /\ n - 1 \in 1 .. n - 1 /\ (n - 1) + 1 = n
      <4> HIDE DEF n
      <4>1. n - 1 \in 1 .. n - 1 /\ (n - 1) + 1 = n /\ n - 1 # 0
        BY SMTT(120), <1>1, <2>2
      <4> QED BY <1>2, <4>1
    <3>2. pending'[n - 1] = pending[n]
      BY <1>2, <3>1
    <3> QED BY <1>1, <3>1, <3>2 DEF OnDisk
  <2> QED BY <2>1, <2>2
<1> HIDE DEF n, c
<1>10. OwnCall'
  BY <1>1 DEF DurableInv, OwnCall
<1>11. PendingChain'
  <2>1. ASSUME NEW i \in 1 .. n - 1
        PROVE  /\ pending'[i].content \in
                    Apply(pending'[i].call, IF i = 1 THEN stable' ELSE pending'[i - 1].content)
               /\ pending'[i].call \notin applied'
               /\ answer[pending'[i].call] \in {"open", "error", "lost"}
    <3>1. /\ pending'[i] = pending[i + 1] /\ i + 1 \in 1 .. n /\ i + 1 # 1 /\ (i + 1) - 1 = i
          /\ i \in 1 .. n
      BY SMTT(120), <1>1, <1>2
    <3>2. /\ pending[i + 1].content \in Apply(pending[i + 1].call, pending[i].content)
          /\ pending[i + 1].call \notin applied
          /\ answer[pending[i + 1].call] \in {"open", "error", "lost"}
          /\ pending[i + 1].call # c
      BY <1>1, <3>1 DEF DurableInv, PendingChain, n, c
    <3>3. (IF i = 1 THEN stable' ELSE pending'[i - 1].content) = pending[i].content
      <4>1. CASE i # 1
        <5>1. i - 1 \in 1 .. n - 1 /\ (i - 1) + 1 = i
          BY SMTT(120), <1>1, <4>1
        <5> QED BY <1>2, <4>1, <5>1
      <4> QED BY <1>1, <4>1
    <3> QED BY <1>1, <3>1, <3>2, <3>3
  <2>2. ASSUME NEW i \in 1 .. n - 1, NEW j \in 1 .. n - 1, pending'[i].call = pending'[j].call
        PROVE  i = j
    <3>1. i + 1 \in 1 .. n /\ j + 1 \in 1 .. n /\ pending[i + 1].call = pending[j + 1].call
      BY <1>2, <2>2
    <3>2. i + 1 = j + 1
      BY <3>1 DEF DurableInv, PendingChain, n
    <3> QED BY <3>2
  <2> QED BY <1>1, <1>2, <1>5, <2>1, <2>2 DEF PendingChain
<1>12. EffectInPlace'
  <2>1. \A d \in Calls : answer'[d] = "new" => d \notin applied'
    BY <1>1, <1>4 DEF DurableInv, EffectInPlace
  <2>2. ASSUME NEW q \in Processes
        PROVE  /\ proc[q].pc \in {"begin", "locked", "mutated", "writing"} =>
                    proc[q].call \notin applied' /\ proc[q].call \notin Waiting'
               /\ proc[q].pc = "renamed" => proc[q].call \in applied' \/ proc[q].call \in Waiting'
    <3>1. /\ proc[q].pc \in {"begin", "locked", "mutated", "writing"} =>
               proc[q].call \notin applied /\ proc[q].call \notin Waiting
          /\ proc[q].pc = "renamed" => proc[q].call \in applied \/ proc[q].call \in Waiting
      BY DEF DurableInv, EffectInPlace
    <3> QED BY <1>1, <1>7, <1>8, <3>1
  <2> QED BY <1>1, <2>1, <2>2 DEF EffectInPlace
<1>13. LockHeld'
  BY <1>1, <1>5, <1>9 DEF DurableInv, LockHeld
<1> QED BY <1>6, <1>10, <1>11, <1>12, <1>13 DEF DurableInv

(* A commit puts the effect of its call on the content it was computed from. *)
LEMMA CommitInv ==
    ASSUME DurableInv, NEW p \in Processes, Commit(p)
    PROVE  DurableInv'
<1> DEFINE c == proc[p].call
<1>1. /\ backend = "sql" /\ proc[p].pc = "mutated" /\ lock = p /\ lock' = None
      /\ proc[p].before = stable /\ UNCHANGED <<backend, pending>>
  BY DEF Commit, Stands, DurableInv, LockHeld
<1>2. /\ c \in Calls /\ answer[c] = "open"
      /\ \A q \in Processes \ {p} : proc[q].call # c
  BY <1>1, Busy
<1>3. pending = <<>> /\ Waiting = {} /\ pending' = <<>> /\ Waiting' = {}
  BY SMTT(120), <1>1 DEF DurableInv, PendingChain, Waiting
<1>4. CASE Return(p, "error") /\ UNCHANGED <<stable, applied>>
  BY <1>1, <1>3, <1>4, ReturnInv DEF Told
<1>5. ASSUME NEW new \in Apply(c, stable), NEW told \in {"ok", "error"},
             stable' = new, applied' = applied \cup {c}, Return(p, told)
      PROVE  DurableInv'
  <2>1. /\ proc'[p] = Idle
        /\ \A q \in Processes \ {p} : proc'[q] = proc[q]
        /\ answer'[c] = told
        /\ \A d \in Calls \ {c} : answer'[d] = answer[d]
    BY <1>2, <1>5 DEF Return, DurableInv, DurableTypeOK
  <2>2. DurableTypeOK'
    <3>1. Idle \in [pc : IF backend = "file" THEN FilePC ELSE SqlPC, call : Calls \cup {None},
                    before : Contents]
      BY ContentsAssumption DEF Idle, FilePC, SqlPC
    <3>2. new \in Contents
      BY <1>2, ContentsAssumption DEF DurableInv, DurableTypeOK
    <3> QED BY <1>1, <1>2, <1>5, <3>1, <3>2 DEF Return, DurableInv, DurableTypeOK, Told
  <2> HIDE DEF c
  <2>3. OwnCall'
    BY SMTT(120), <1>2, <2>1, ContentsAssumption DEF DurableInv, OwnCall, Idle, DurableTypeOK
  <2>4. PendingChain'
    BY SMTT(120), <1>3 DEF PendingChain
  <2>5. EffectInPlace'
    <3>1. ASSUME NEW q \in Processes
          PROVE  /\ proc'[q].pc \in {"begin", "locked", "mutated", "writing"} =>
                      proc'[q].call \notin applied'
                 /\ proc'[q].pc # "renamed"
      <4>1. proc'[q].pc # "idle" => q # p /\ proc'[q] = proc[q] /\ proc[q].call # c
        <5>1. CASE q = p
          BY <2>1, <5>1, SMTT(120) DEF Idle
        <5>2. CASE q # p
          BY <1>2, <2>1, <5>2, ZenonT(120)
        <5> QED BY ZenonT(120), <5>1, <5>2
      <4>2. proc[q].pc # "renamed"
        BY <1>1 DEF DurableInv, DurableTypeOK, SqlPC
      <4>3. proc[q].pc \in {"begin", "locked", "mutated", "writing"} => proc[q].call \notin applied
        BY DEF DurableInv, EffectInPlace
      <4> QED BY <1>5, <4>1, <4>2, <4>3
    <3>2. \A d \in Calls : answer'[d] = "new" => d \notin applied'
      BY <1>2, <1>5, <2>1 DEF DurableInv, EffectInPlace
    <3> QED BY <1>3, <3>1, <3>2 DEF EffectInPlace
  <2>6. LockHeld'
    <3>1. ASSUME NEW q \in Processes
          PROVE  proc'[q].pc \notin {"locked", "mutated", "writing"}
      BY SMTT(120), <1>1, <2>1 DEF DurableInv, LockHeld, Idle, DurableTypeOK, SqlPC
    <3> QED BY ZenonT(120), <1>1, <3>1 DEF LockHeld
  <2> QED BY <2>2, <2>3, <2>4, <2>5, <2>6 DEF DurableInv
<1> QED BY <1>1, <1>4, <1>5 DEF Commit

(* A crash of the machine leaves the stable content and no running call. *)
LEMMA MachineCrashInv ==
    ASSUME DurableInv, MachineCrash
    PROVE  DurableInv'
<1>1. /\ \A p \in Processes : proc'[p] = Idle
      /\ pending' = <<>> /\ lock' = None
      /\ UNCHANGED <<stable, applied, backend>>
      /\ \A c \in Calls : answer'[c] = "new" => answer[c] = "new"
  BY DEF MachineCrash
<1>2. DurableTypeOK'
  <2>1. Idle \in [pc : IF backend = "file" THEN FilePC ELSE SqlPC, call : Calls \cup {None},
                  before : Contents]
    BY ContentsAssumption DEF Idle, FilePC, SqlPC
  <2>2. proc' \in [Processes -> [pc : IF backend = "file" THEN FilePC ELSE SqlPC,
                                 call : Calls \cup {None}, before : Contents]]
    BY <2>1 DEF MachineCrash
  <2>3. answer' \in [Calls -> {"new", "open"} \cup Told]
    BY DEF MachineCrash, DurableInv, DurableTypeOK, Told
  <2> QED BY SMTT(120), <1>1, <2>2, <2>3 DEF DurableInv, DurableTypeOK
<1>3. OwnCall' /\ LockHeld'
  BY SMTT(120), <1>1 DEF OwnCall, LockHeld, Idle
<1>4. PendingChain'
  BY SMTT(120), <1>1 DEF PendingChain
<1>5. EffectInPlace'
  BY <1>1 DEF DurableInv, EffectInPlace, Idle
<1> QED BY <1>2, <1>3, <1>4, <1>5 DEF DurableInv

-----------------------------------------------------------------------------
(* A caller is told that its call was refused or lost a race only when the  *)
(* call had not reached its rename or commit.                               *)
LEMMA NotYet ==
    ASSUME DurableInv, NEW p \in Processes, proc[p].pc \in {"begin", "locked", "mutated", "writing"}
    PROVE  proc[p].call \notin applied /\ proc[p].call \notin Waiting
  BY DEF DurableInv, EffectInPlace

(* Every step of a process before or after its effect keeps the invariant. *)
LEMMA QuietStepInv ==
    ASSUME DurableInv, NEW p \in Processes,
           Refresh(p) \/ PersistMutation(p) \/ SyncDirectory(p) \/ LockStoreTx(p) \/ LoadMemoryTx(p)
    PROVE  DurableInv'
<1>1. CASE Refresh(p)
  <2>1. CASE Return(p, "refused")
    BY <1>1, <2>1, NotYet, ReturnInv DEF Refresh, Stands, Told
  <2>2. CASE proc' = [proc EXCEPT ![p].pc = "mutated", ![p].before = OnDisk] /\ UNCHANGED answer
    <3>1. OnDisk \in Contents
      <4>1. pending \in Seq(Renamed) /\ stable \in Contents
        BY DEF DurableInv, DurableTypeOK
      <4>2. CASE pending # <<>>
        <5>1. Len(pending) \in 1 .. Len(pending)
          BY <4>1, <4>2
        <5> QED BY <4>2, <5>1, PendingTyped DEF OnDisk
      <4> QED BY <4>1, <4>2 DEF OnDisk
    <3>2. "mutated" \in IF backend = "file" THEN FilePC ELSE SqlPC
      BY DEF FilePC, SqlPC
    <3> QED BY <1>1, <2>2, <3>1, <3>2, ContinueInv DEF Refresh, Stands
  <2> QED BY <1>1, <2>1, <2>2 DEF Refresh
<1>2. CASE PersistMutation(p)
  <2>1. CASE Return(p, "conflict") /\ UNCHANGED lock
    BY <1>2, <2>1, NotYet, ReturnInv DEF PersistMutation, Stands, Told
  <2>2. CASE OnDiskSnapshotMatches(p) /\ lock' = p /\ Continue(p, "writing") /\ UNCHANGED answer
    <3>1. proc' = [proc EXCEPT ![p].pc = "writing", ![p].before = proc[p].before]
      BY <2>2 DEF Continue, DurableInv, DurableTypeOK
    <3>2. proc[p].before \in Contents
      BY DEF DurableInv, DurableTypeOK
    <3>3. backend = "file" /\ "writing" \in IF backend = "file" THEN FilePC ELSE SqlPC
      BY <1>2 DEF FilePC, PersistMutation, Stands
    <3>4. proc[p].pc \in {"begin", "locked", "mutated"} /\ lock = None
      BY <1>2 DEF PersistMutation, Stands
    <3>5. UNCHANGED <<stable, applied, backend, pending>> /\ proc[p].before = OnDisk
      BY <1>2, <2>2 DEF PersistMutation, OnDiskSnapshotMatches
    <3> QED BY <2>2, <3>1, <3>2, <3>3, <3>4, <3>5, ContinueInv
  <2> QED BY <1>2, <2>1, <2>2 DEF PersistMutation
<1>3. CASE SyncDirectory(p)
  <2>1. /\ proc[p].pc = "renamed" /\ lock = p /\ lock' = None
        /\ UNCHANGED <<stable, applied, backend, pending>>
    BY <1>3 DEF SyncDirectory, Stands, DurableInv, LockHeld
  <2>2. CASE DirectorySynced /\ Return(p, "ok")
    <3>1. Waiting = {}
      BY SMTT(120), <2>2 DEF DirectorySynced, Waiting
    <3> QED BY <2>1, <2>2, <3>1, ReturnInv DEF Told
  <2>3. CASE Return(p, "error")
    BY <2>1, <2>3, ReturnInv DEF Told
  <2> QED BY <1>3, <2>2, <2>3 DEF SyncDirectory
<1>4. CASE LockStoreTx(p)
  <2>1. proc' = [proc EXCEPT ![p].pc = "locked", ![p].before = proc[p].before]
    BY <1>4 DEF LockStoreTx, Continue, DurableInv, DurableTypeOK
  <2>2. proc[p].before \in Contents
    BY DEF DurableInv, DurableTypeOK
  <2>3. backend = "sql" /\ "locked" \in IF backend = "file" THEN FilePC ELSE SqlPC
    BY <1>4 DEF SqlPC, LockStoreTx, Stands
  <2>4. /\ proc[p].pc \in {"begin", "locked", "mutated"} /\ lock = None /\ lock' = p
        /\ UNCHANGED <<stable, applied, answer, backend, pending>>
    BY <1>4 DEF LockStoreTx, Stands, LockRowFree
  <2> QED BY <2>1, <2>2, <2>3, <2>4, ContinueInv
<1>5. CASE LoadMemoryTx(p)
  <2>1. /\ proc[p].pc = "locked" /\ backend = "sql" /\ lock = p
        /\ UNCHANGED <<stable, applied, backend, pending>>
    BY <1>5 DEF LoadMemoryTx, Stands, DurableInv, LockHeld
  <2>2. CASE Return(p, "refused") /\ lock' = None
    BY <2>1, <2>2, NotYet, ReturnInv DEF Told
  <2>3. CASE proc' = [proc EXCEPT ![p].pc = "mutated", ![p].before = stable] /\ UNCHANGED <<answer, lock>>
    <3>1. stable \in Contents
      BY DEF DurableInv, DurableTypeOK
    <3>2. "mutated" \in IF backend = "file" THEN FilePC ELSE SqlPC
      BY DEF FilePC, SqlPC
    <3> QED BY <2>1, <2>3, <3>1, <3>2, ContinueInv
  <2> QED BY <1>5, <2>2, <2>3 DEF LoadMemoryTx
<1> QED BY <1>1, <1>2, <1>3, <1>4, <1>5

(* A failed step or a crash of one process keeps the invariant. *)
LEMMA FailedStepInv ==
    ASSUME DurableInv, NEW p \in Processes, FileError(p) \/ Rollback(p) \/ Crash(p)
    PROVE  DurableInv'
<1>1. proc[p].pc # "idle"
  BY DEF FileError, Rollback, Crash, Stands, DurableInv, OwnCall
<1>2. PICK told \in {"error", "lost"} : Return(p, told)
  BY DEF FileError, Rollback, Crash
<1>3. /\ UNCHANGED <<stable, applied, backend, pending>>
      /\ lock' = lock \/ (lock = p /\ lock' = None)
  BY DEF FileError, Rollback, Crash
<1> QED BY <1>1, <1>2, <1>3, ReturnInv DEF Told

(* An empty disk and idle processes satisfy the invariant. *)
LEMMA DurableInitInv == DurableInit => DurableInv
<1> SUFFICES ASSUME DurableInit PROVE DurableInv
  OBVIOUS
<1>1. DurableTypeOK
  <2>1. Idle \in [pc : IF backend = "file" THEN FilePC ELSE SqlPC, call : Calls \cup {None},
                  before : Contents]
    BY ContentsAssumption DEF Idle, FilePC, SqlPC
  <2>2. pending \in Seq(Renamed)
    BY SMTT(120) DEF DurableInit
  <2> QED BY <2>1, <2>2, ContentsAssumption DEF DurableInit, DurableTypeOK
<1>2. OwnCall /\ PendingChain /\ EffectInPlace /\ LockHeld
  BY SMTT(120) DEF DurableInit, OwnCall, PendingChain, EffectInPlace, LockHeld, Idle
<1> QED BY <1>1, <1>2 DEF DurableInv

(* Every step of the file and SQL backends, of a crash or of the disk keeps *)
(* the invariant.                                                           *)
LEMMA DurableStepInv == DurableInv /\ [DurableNext]_durableVars => DurableInv'
<1> SUFFICES ASSUME DurableInv, [DurableNext]_durableVars PROVE DurableInv'
  OBVIOUS
<1>1. ASSUME NEW p \in Processes, NEW c \in Calls, Begin(p, c) PROVE DurableInv'
  BY <1>1, BeginInv
<1>2. ASSUME NEW p \in Processes, Step(p) PROVE DurableInv'
  BY <1>2, QuietStepInv, RenameInv, CommitInv DEF Step
<1>3. ASSUME NEW p \in Processes, FileError(p) \/ Rollback(p) \/ Crash(p) PROVE DurableInv'
  BY <1>3, FailedStepInv
<1>4. CASE WriteBack
  BY <1>4, WriteBackInv
<1>5. CASE MachineCrash
  BY <1>5, MachineCrashInv
<1>6. CASE UNCHANGED durableVars
  <2>1. /\ stable' = stable /\ applied' = applied /\ answer' = answer /\ backend' = backend
        /\ pending' = pending /\ lock' = lock /\ proc' = proc
    BY <1>6 DEF durableVars
  <2>2. DurableTypeOK' /\ OwnCall'
    BY <2>1, ZenonT(120) DEF DurableInv, DurableTypeOK, OwnCall
  <2>3. PendingChain'
    BY <2>1, ZenonT(120) DEF DurableInv, PendingChain
  <2>4. EffectInPlace'
    BY <2>1, ZenonT(120) DEF DurableInv, EffectInPlace, Waiting
  <2>5. LockHeld'
    BY <2>1, ZenonT(120) DEF DurableInv, LockHeld, OnDisk
  <2> QED BY <2>2, <2>3, <2>4, <2>5 DEF DurableInv
<1> QED BY <1>1, <1>2, <1>3, <1>4, <1>5, <1>6 DEF DurableNext

(* DurableInv is an invariant of both backends. *)
THEOREM DurableSafety == DurableSpec => []DurableInv
<1> QED BY DurableInitInv, DurableStepInv, PTL DEF DurableSpec

-----------------------------------------------------------------------------
(* An answer of one caller is an answer of the abstract store, when it is   *)
(* one the effect of the call allows.                                       *)
LEMMA ReturnAnswers ==
    ASSUME DurableInv, NEW p \in Processes, proc[p].pc # "idle", NEW told \in Told, Return(p, told),
           told = "ok" => proc[p].call \in applied,
           told \in {"refused", "conflict"} => proc[p].call \notin applied,
           UNCHANGED <<stable, applied>>
    PROVE  Store!AtomicNext
<1> DEFINE c == proc[p].call
           S == {c}
           f == [d \in S |-> told]
<1>1. c \in Calls /\ answer[c] = "open"
  BY Busy
<1>2. answer' = [d \in Calls |-> IF d \in S THEN f[d] ELSE answer[d]]
  BY <1>1 DEF Return, DurableInv, DurableTypeOK
<1>3. f \in [S -> Store!Answers] /\ \A d \in S : f[d] = told
  BY DEF Store!Answers, Told
<1>4. Store!Answer(S)
  <2> HIDE DEF f
  <2> QED BY <1>1, <1>2, <1>3 DEF Store!Answer
<1> QED BY <1>1, <1>4 DEF Store!AtomicNext

(* Every step of DurableStore is a step of AtomicStore on the stable        *)
(* content, or changes nothing that AtomicStore sees.                       *)
LEMMA DurableStepRefines ==
    DurableInv /\ [DurableNext]_durableVars => [Store!AtomicNext]_Store!atomicVars
<1> SUFFICES ASSUME DurableInv, [DurableNext]_durableVars
             PROVE  Store!AtomicNext \/ UNCHANGED <<stable, applied, answer>>
  BY DEF Store!atomicVars
<1>1. ASSUME NEW p \in Processes, NEW c \in Calls, Begin(p, c) PROVE Store!AtomicNext
  BY <1>1 DEF Begin, Store!AtomicNext, Store!Call
<1>2. ASSUME NEW p \in Processes, Refresh(p)
      PROVE  Store!AtomicNext \/ UNCHANGED <<stable, applied, answer>>
  BY <1>2, NotYet, ReturnAnswers DEF Refresh, Stands, Told
<1>3. ASSUME NEW p \in Processes, PersistMutation(p)
      PROVE  Store!AtomicNext \/ UNCHANGED <<stable, applied, answer>>
  BY <1>3, NotYet, ReturnAnswers DEF PersistMutation, Stands, Told
<1>4. ASSUME NEW p \in Processes, Rename(p) PROVE UNCHANGED <<stable, applied, answer>>
  BY <1>4 DEF Rename
<1>5. ASSUME NEW p \in Processes, SyncDirectory(p) PROVE Store!AtomicNext
  <2>1. proc[p].pc = "renamed" /\ UNCHANGED <<stable, applied>>
    BY <1>5 DEF SyncDirectory, Stands
  <2>2. CASE DirectorySynced /\ Return(p, "ok")
    <3>1. Waiting = {}
      BY SMTT(120), <2>2 DEF DirectorySynced, Waiting
    <3>2. proc[p].call \in applied
      BY <2>1, <3>1 DEF DurableInv, EffectInPlace
    <3> QED BY <2>1, <2>2, <3>2, ReturnAnswers DEF Told
  <2>3. CASE Return(p, "error")
    BY <2>1, <2>3, ReturnAnswers DEF Told
  <2> QED BY <1>5, <2>2, <2>3 DEF SyncDirectory
<1>6. ASSUME NEW p \in Processes, LockStoreTx(p) PROVE UNCHANGED <<stable, applied, answer>>
  BY <1>6 DEF LockStoreTx
<1>7. ASSUME NEW p \in Processes, LoadMemoryTx(p)
      PROVE  Store!AtomicNext \/ UNCHANGED <<stable, applied, answer>>
  BY <1>7, NotYet, ReturnAnswers DEF LoadMemoryTx, Stands, Told
<1>8. ASSUME NEW p \in Processes, Commit(p) PROVE Store!AtomicNext
  <2>1. /\ backend = "sql" /\ proc[p].pc = "mutated" /\ proc[p].before = stable
        /\ proc[p].call \notin applied
    BY <1>8, NotYet DEF Commit, Stands, DurableInv, LockHeld
  <2>2. CASE Return(p, "error") /\ UNCHANGED <<stable, applied>>
    BY <2>1, <2>2, ReturnAnswers DEF Told
  <2>3. ASSUME NEW new \in Apply(proc[p].call, stable), NEW told \in {"ok", "error"},
               stable' = new, applied' = applied \cup {proc[p].call}, Return(p, told)
        PROVE  Store!AtomicNext
    <3>1. proc[p].call \in Calls /\ answer[proc[p].call] = "open"
      BY <2>1, Busy
    <3>2. Store!EffectAndAnswer(proc[p].call)
      BY <2>1, <2>3, <3>1 DEF Store!EffectAndAnswer, Store!OpenOutcome, Return
    <3> QED BY <3>1, <3>2 DEF Store!AtomicNext
  <2> QED BY <1>8, <2>1, <2>2, <2>3 DEF Commit
<1>9. ASSUME NEW p \in Processes, FileError(p) \/ Rollback(p) \/ Crash(p) PROVE Store!AtomicNext
  <2>1. proc[p].pc # "idle"
    BY <1>9 DEF FileError, Rollback, Crash, Stands, DurableInv, OwnCall
  <2>2. PICK told \in {"error", "lost"} : Return(p, told)
    BY <1>9 DEF FileError, Rollback, Crash
  <2>3. UNCHANGED <<stable, applied>>
    BY <1>9 DEF FileError, Rollback, Crash
  <2> QED BY <2>1, <2>2, <2>3, ReturnAnswers DEF Told
<1>10. CASE WriteBack
  <2> DEFINE c == pending[1].call
  <2>1. /\ pending \in Seq(Renamed) /\ 1 \in 1 .. Len(pending)
        /\ stable' = pending[1].content /\ applied' = applied \cup {c} /\ UNCHANGED answer
    BY SMTT(120), <1>10 DEF WriteBack, DurableInv, DurableTypeOK
  <2>2. /\ c \in Calls /\ c \notin applied /\ pending[1].content \in Apply(c, stable)
        /\ answer[c] \in {"open", "error", "lost"}
    BY <2>1, PendingTyped DEF DurableInv, PendingChain
  <2>3. Store!Effect(c)
    BY <2>1, <2>2 DEF Store!Effect, Store!OpenOutcome
  <2> QED BY <2>2, <2>3 DEF Store!AtomicNext
<1>11. CASE MachineCrash
  <2> DEFINE S == {c \in Calls : answer[c] = "open"}
             f == [c \in S |-> "lost"]
  <2>1. PICK p \in Processes : proc[p] # Idle
    BY <1>11 DEF MachineCrash
  <2>2. proc[p].call \in S
    BY <2>1 DEF DurableInv, OwnCall
  <2>3. f \in [S -> Store!Answers] /\ \A c \in S : f[c] = "lost"
    BY DEF Store!Answers
  <2>4. answer' = [c \in Calls |-> IF c \in S THEN f[c] ELSE answer[c]]
    BY <1>11 DEF MachineCrash
  <2>5. UNCHANGED <<stable, applied>>
    BY <1>11 DEF MachineCrash
  <2>6. Store!Answer(S)
    <3>1. S # {} /\ \A c \in S : answer[c] = "open"
      BY <2>2
    <3> HIDE DEF f, S
    <3> QED BY <2>3, <2>4, <2>5, <3>1 DEF Store!Answer
  <2> QED BY <2>6 DEF Store!AtomicNext
<1>12. CASE UNCHANGED durableVars
  BY <1>12 DEF durableVars
<1> QED BY ZenonT(120), <1>1, <1>2, <1>3, <1>4, <1>5, <1>6, <1>7, <1>8, <1>9, <1>10, <1>11, <1>12
        DEF DurableNext, Step

(* Both backends implement the atomic store, whatever processes, calls and  *)
(* contents there are: no interleaving of DurableFileStore handles, no      *)
(* failed commit of SQLStore and no crash loses, repeats or splits a call.  *)
THEOREM DurableRefinement == DurableSpec => ImplementsAtomicStore
<1>1. DurableInit => Store!AtomicInit
  BY DEF DurableInit, Store!AtomicInit
<1> QED BY <1>1, DurableSafety, DurableStepRefines, PTL
        DEF DurableSpec, ImplementsAtomicStore, Store!AtomicSpec
=============================================================================
