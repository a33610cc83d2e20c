------------------------- MODULE MerkleTreeProofs --------------------------
(***************************************************************************)
(* Proofs about MerkleTree, for every depth, rebuild bound and set of      *)
(* commitments, in the legacy and the audit lane.                          *)
(*                                                                         *)
(* The reference is the full binary tree over the leaves padded with       *)
(* zeros.  Each algorithm of the code is shown to compute nodes of it: the *)
(* layers of a rebuild, the frontier of the export, and the climb from a   *)
(* leaf to the root that an append, a rebuilt path and the circuits share. *)
(* The stores then keep TreeInv: every node that is stored is the node of  *)
(* the reference tree, and the recorded roots are those of the prefixes.   *)
(***************************************************************************)
EXTENDS MerkleTree, FiniteSetTheorems, WellFoundedInduction, TLAPS

(* The provers tried on a leaf that names none, and their time limits. *)
USE ZenonT(120), SMTT(120)

-----------------------------------------------------------------------------
(* Induction over 0 .. N: a set that contains 0 and with i also i + 1 is    *)
(* all of it.                                                               *)
LEMMA UpTo ==
  ASSUME NEW N \in Nat, NEW S, 0 \in S, \A i \in 0 .. N - 1 : i \in S => i + 1 \in S
  PROVE  \A i \in 0 .. N : i \in S
  <1> SUFFICES ASSUME NEW j \in 0 .. N, j \notin S PROVE FALSE
    OBVIOUS
  <1> DEFINE T == {i \in 0 .. N : i \notin S}
  <1>1. T \subseteq Nat /\ T # {}
    BY SMTT(120)
  <1>2. PICK x \in T : \A y \in T : ~ (<<y, x>> \in OpToRel(<, Nat))
    <2> HIDE DEF T
    <2> QED BY <1>1, NatLessThanWellFounded, WFMin
  <1>3. x # 0 /\ x \in Nat /\ x - 1 \in 0 .. N - 1 /\ x - 1 \in Nat
    BY SMTT(120)
  <1>4. x - 1 \in T
    BY <1>3, SMTT(120)
  <1>5. <<x - 1, x>> \in OpToRel(<, Nat)
    BY <1>3, SMTT(120) DEF OpToRel
  <1> QED BY <1>2, <1>4, <1>5

(* The recursion of Pow2. *)
LEMMA Pow2Rec ==
  /\ Pow2[0] = 1
  /\ \A n \in 0 .. Depth - 1 : Pow2[n + 1] = 2 * Pow2[n]
  <1> DEFINE Eq(f, m) == f = [n \in 0 .. m |-> IF n = 0 THEN 1 ELSE 2 * f[n - 1]]
             S == {m \in 0 .. Depth : \E f : Eq(f, m)}
  <1>1. Depth \in Nat
    BY TreeAssumption
  <1>2. 0 \in S
    <2>1. Eq([n \in 0 .. 0 |-> 1], 0)
      BY SMTT(120)
    <2> HIDE DEF Eq
    <2> QED BY <1>1, <2>1, 0 \in 0 .. Depth
  <1>3. ASSUME NEW m \in 0 .. Depth - 1, m \in S PROVE m + 1 \in S
    <2>1. PICK f : Eq(f, m)
      BY <1>3
    <2> DEFINE g == [n \in 0 .. m + 1 |-> IF n = m + 1 THEN 2 * f[m] ELSE f[n]]
    <2>2. Eq(g, m + 1)
      BY <2>1, SMTT(120)
    <2>3. m + 1 \in 0 .. Depth
      BY <1>1
    <2> HIDE DEF Eq, g
    <2> QED BY <2>2, <2>3
  <1>4. Depth \in S
    <2> HIDE DEF S
    <2> QED BY SMTT(120), <1>1, <1>2, <1>3, UpTo
  <1>5. PICK f : Eq(f, Depth)
    BY <1>4
  <1>6. Eq(Pow2, Depth)
    BY <1>5 DEF Pow2
  <1> QED BY <1>1, <1>6, SMTT(120)

(* The recursion of EmptyNode. *)
LEMMA EmptyNodeRec ==
  /\ EmptyNode[0] = Zero
  /\ \A n \in 0 .. Depth - 1 : EmptyNode[n + 1] = HashNodes(n, EmptyNode[n], EmptyNode[n])
  <1> DEFINE N == Depth
             z == Zero
             Step(n, x) == HashNodes(n - 1, x, x)
             Eq(f, m) == f = [n \in 0 .. m |-> IF n = 0 THEN z ELSE Step(n, f[n - 1])]
             S == {m \in 0 .. N : \E f : Eq(f, m)}
             F == EmptyNode
  <1>1. N \in Nat
    BY TreeAssumption
  <1>2. (\E f : Eq(f, N)) => Eq(F, N)
    BY ZenonT(120) DEF EmptyNode
  <1>3. F[0] = z /\ (\A n \in 0 .. N - 1 : F[n + 1] = Step(n + 1, F[n])) => /\ EmptyNode[0] = Zero
          /\ \A n \in 0 .. Depth - 1 : EmptyNode[n + 1] = HashNodes(n, EmptyNode[n], EmptyNode[n])
    BY <1>1, SMTT(120)
  <1> HIDE DEF N, z, Step, F
  <1>4. 0 \in S
    <2>1. Eq([n \in 0 .. 0 |-> z], 0)
      BY SMTT(120)
    <2> HIDE DEF Eq
    <2> QED BY <1>1, <2>1, 0 \in 0 .. N
  <1>5. ASSUME NEW m \in 0 .. N - 1, m \in S PROVE m + 1 \in S
    <2>1. PICK f : Eq(f, m)
      BY <1>5
    <2> DEFINE g == [n \in 0 .. m + 1 |-> IF n = m + 1 THEN Step(m + 1, f[m]) ELSE f[n]]
    <2>2. Eq(g, m + 1)
      BY <2>1, SMTT(120)
    <2>3. m + 1 \in 0 .. N
      BY <1>1
    <2> HIDE DEF Eq, g
    <2> QED BY <2>2, <2>3
  <1>6. N \in S
    <2> HIDE DEF S
    <2>1. \A i \in 0 .. N : i \in S
      BY <1>1, <1>4, <1>5, UpTo, ZenonT(120)
    <2> QED BY <1>1, <2>1
  <1>7. Eq(F, N)
    BY <1>2, <1>6
  <1>8. F[0] = z /\ \A n \in 0 .. N - 1 : F[n + 1] = Step(n + 1, F[n])
    BY <1>1, <1>7, SMTT(120)
  <1> QED BY <1>3, <1>8

(* The recursion of Climb. *)
LEMMA ClimbRec ==
  ASSUME NEW c, NEW index, NEW sibling PROVE
  /\ Climb(c, index, sibling)[0] = c
  /\ \A n \in 0 .. Depth - 1 : Climb(c, index, sibling)[n + 1] = Parent(index, n, Climb(c, index, sibling)[n], sibling[n])
  <1> DEFINE N == Depth
             z == c
             Step(n, x) == Parent(index, n - 1, x, sibling[n - 1])
             Eq(f, m) == f = [n \in 0 .. m |-> IF n = 0 THEN z ELSE Step(n, f[n - 1])]
             S == {m \in 0 .. N : \E f : Eq(f, m)}
             F == Climb(c, index, sibling)
  <1>1. N \in Nat
    BY TreeAssumption
  <1>2. (\E f : Eq(f, N)) => Eq(F, N)
    BY ZenonT(120) DEF Climb
  <1>3. F[0] = z /\ (\A n \in 0 .. N - 1 : F[n + 1] = Step(n + 1, F[n])) => /\ Climb(c, index, sibling)[0] = c
          /\ \A n \in 0 .. Depth - 1 : Climb(c, index, sibling)[n + 1] = Parent(index, n, Climb(c, index, sibling)[n], sibling[n])
    BY <1>1, SMTT(120)
  <1> HIDE DEF N, z, Step, F
  <1>4. 0 \in S
    <2>1. Eq([n \in 0 .. 0 |-> z], 0)
      BY SMTT(120)
    <2> HIDE DEF Eq
    <2> QED BY <1>1, <2>1, 0 \in 0 .. N
  <1>5. ASSUME NEW m \in 0 .. N - 1, m \in S PROVE m + 1 \in S
    <2>1. PICK f : Eq(f, m)
      BY <1>5
    <2> DEFINE g == [n \in 0 .. m + 1 |-> IF n = m + 1 THEN Step(m + 1, f[m]) ELSE f[n]]
    <2>2. Eq(g, m + 1)
      BY <2>1, SMTT(120)
    <2>3. m + 1 \in 0 .. N
      BY <1>1
    <2> HIDE DEF Eq, g
    <2> QED BY <2>2, <2>3
  <1>6. N \in S
    <2> HIDE DEF S
    <2>1. \A i \in 0 .. N : i \in S
      BY <1>1, <1>4, <1>5, UpTo, ZenonT(120)
    <2> QED BY <1>1, <2>1
  <1>7. Eq(F, N)
    BY <1>2, <1>6
  <1>8. F[0] = z /\ \A n \in 0 .. N - 1 : F[n + 1] = Step(n + 1, F[n])
    BY <1>1, <1>7, SMTT(120)
  <1> QED BY <1>3, <1>8

(* The recursion of Rebuilt. *)
LEMMA RebuiltRec ==
  ASSUME NEW V, NEW s \in Seq(V), NEW old PROVE
  /\ Rebuilt(old, s)[0] = old
  /\ \A n \in 0 .. Len(s) - 1 : Rebuilt(old, s)[n + 1] = WritePath(Rebuilt(old, s)[n], s[n + 1], n, Len(s))
  <1> DEFINE N == Len(s)
             z == old
             Step(n, x) == WritePath(x, s[n], n - 1, Len(s))
             Eq(f, m) == f = [n \in 0 .. m |-> IF n = 0 THEN z ELSE Step(n, f[n - 1])]
             S == {m \in 0 .. N : \E f : Eq(f, m)}
             F == Rebuilt(old, s)
  <1>1. N \in Nat
    BY SMTT(120)
  <1>2. (\E f : Eq(f, N)) => Eq(F, N)
    BY ZenonT(120) DEF Rebuilt
  <1>3. F[0] = z /\ (\A n \in 0 .. N - 1 : F[n + 1] = Step(n + 1, F[n])) => /\ Rebuilt(old, s)[0] = old
          /\ \A n \in 0 .. Len(s) - 1 : Rebuilt(old, s)[n + 1] = WritePath(Rebuilt(old, s)[n], s[n + 1], n, Len(s))
    BY <1>1, SMTT(120)
  <1> HIDE DEF N, z, Step, F
  <1>4. 0 \in S
    <2>1. Eq([n \in 0 .. 0 |-> z], 0)
      BY SMTT(120)
    <2> HIDE DEF Eq
    <2> QED BY <1>1, <2>1, 0 \in 0 .. N
  <1>5. ASSUME NEW m \in 0 .. N - 1, m \in S PROVE m + 1 \in S
    <2>1. PICK f : Eq(f, m)
      BY <1>5
    <2> DEFINE g == [n \in 0 .. m + 1 |-> IF n = m + 1 THEN Step(m + 1, f[m]) ELSE f[n]]
    <2>2. Eq(g, m + 1)
      BY <2>1, SMTT(120)
    <2>3. m + 1 \in 0 .. N
      BY <1>1
    <2> HIDE DEF Eq, g
    <2> QED BY <2>2, <2>3
  <1>6. N \in S
    <2> HIDE DEF S
    <2>1. \A i \in 0 .. N : i \in S
      BY <1>1, <1>4, <1>5, UpTo, ZenonT(120)
    <2> QED BY <1>1, <2>1
  <1>7. Eq(F, N)
    BY <1>2, <1>6
  <1>8. F[0] = z /\ \A n \in 0 .. N - 1 : F[n + 1] = Step(n + 1, F[n])
    BY <1>1, <1>7, SMTT(120)
  <1> QED BY <1>3, <1>8

(* The recursion of Layers. *)
LEMMA LayersRec ==
  ASSUME NEW s PROVE
  /\ Layers(s)[0] = s
  /\ \A n \in 0 .. Depth - 1 : Layers(s)[n + 1] = NextLayer(n, Layers(s)[n])
  <1> DEFINE N == Depth
             z == s
             Step(n, x) == NextLayer(n - 1, x)
             Eq(f, m) == f = [n \in 0 .. m |-> IF n = 0 THEN z ELSE Step(n, f[n - 1])]
             S == {m \in 0 .. N : \E f : Eq(f, m)}
             F == Layers(s)
  <1>1. N \in Nat
    BY TreeAssumption
  <1>2. (\E f : Eq(f, N)) => Eq(F, N)
    BY ZenonT(120) DEF Layers
  <1>3. F[0] = z /\ (\A n \in 0 .. N - 1 : F[n + 1] = Step(n + 1, F[n])) => /\ Layers(s)[0] = s
          /\ \A n \in 0 .. Depth - 1 : Layers(s)[n + 1] = NextLayer(n, Layers(s)[n])
    BY <1>1, SMTT(120)
  <1> HIDE DEF N, z, Step, F
  <1>4. 0 \in S
    <2>1. Eq([n \in 0 .. 0 |-> z], 0)
      BY SMTT(120)
    <2> HIDE DEF Eq
    <2> QED BY <1>1, <2>1, 0 \in 0 .. N
  <1>5. ASSUME NEW m \in 0 .. N - 1, m \in S PROVE m + 1 \in S
    <2>1. PICK f : Eq(f, m)
      BY <1>5
    <2> DEFINE g == [n \in 0 .. m + 1 |-> IF n = m + 1 THEN Step(m + 1, f[m]) ELSE f[n]]
    <2>2. Eq(g, m + 1)
      BY <2>1, SMTT(120)
    <2>3. m + 1 \in 0 .. N
      BY <1>1
    <2> HIDE DEF Eq, g
    <2> QED BY <2>2, <2>3
  <1>6. N \in S
    <2> HIDE DEF S
    <2>1. \A i \in 0 .. N : i \in S
      BY <1>1, <1>4, <1>5, UpTo, ZenonT(120)
    <2> QED BY <1>1, <2>1
  <1>7. Eq(F, N)
    BY <1>2, <1>6
  <1>8. F[0] = z /\ \A n \in 0 .. N - 1 : F[n + 1] = Step(n + 1, F[n])
    BY <1>1, <1>7, SMTT(120)
  <1> QED BY <1>3, <1>8

(* The recursion of FrontierSteps. *)
LEMMA FrontierRec ==
  ASSUME NEW V, NEW s \in Seq(V) PROVE
  /\ FrontierSteps(s)[0] = [root |-> EmptyNode[Depth], frontier |-> [level \in 0 .. Depth - 1 |-> Zero]]
  /\ \A n \in 0 .. Len(s) - 1 : FrontierSteps(s)[n + 1] = FrontierStep(FrontierSteps(s)[n].frontier, s[n + 1], n)
  <1> DEFINE N == Len(s)
             z == [root |-> EmptyNode[Depth], frontier |-> [level \in 0 .. Depth - 1 |-> Zero]]
             Step(n, x) == FrontierStep(x.frontier, s[n], n - 1)
             Eq(f, m) == f = [n \in 0 .. m |-> IF n = 0 THEN z ELSE Step(n, f[n - 1])]
             S == {m \in 0 .. N : \E f : Eq(f, m)}
             F == FrontierSteps(s)
  <1>1. N \in Nat
    BY SMTT(120)
  <1>2. (\E f : Eq(f, N)) => Eq(F, N)
    BY ZenonT(120) DEF FrontierSteps
  <1>3. F[0] = z /\ (\A n \in 0 .. N - 1 : F[n + 1] = Step(n + 1, F[n])) => /\ FrontierSteps(s)[0] = [root |-> EmptyNode[Depth], frontier |-> [level \in 0 .. Depth - 1 |-> Zero]]
          /\ \A n \in 0 .. Len(s) - 1 : FrontierSteps(s)[n + 1] = FrontierStep(FrontierSteps(s)[n].frontier, s[n + 1], n)
    BY <1>1, SMTT(120)
  <1> HIDE DEF N, z, Step, F
  <1>4. 0 \in S
    <2>1. Eq([n \in 0 .. 0 |-> z], 0)
      BY SMTT(120)
    <2> HIDE DEF Eq
    <2> QED BY <1>1, <2>1, 0 \in 0 .. N
  <1>5. ASSUME NEW m \in 0 .. N - 1, m \in S PROVE m + 1 \in S
    <2>1. PICK f : Eq(f, m)
      BY <1>5
    <2> DEFINE g == [n \in 0 .. m + 1 |-> IF n = m + 1 THEN Step(m + 1, f[m]) ELSE f[n]]
    <2>2. Eq(g, m + 1)
      BY <2>1, SMTT(120)
    <2>3. m + 1 \in 0 .. N
      BY <1>1
    <2> HIDE DEF Eq, g
    <2> QED BY <2>2, <2>3
  <1>6. N \in S
    <2> HIDE DEF S
    <2>1. \A i \in 0 .. N : i \in S
      BY <1>1, <1>4, <1>5, UpTo, ZenonT(120)
    <2> QED BY <1>1, <2>1
  <1>7. Eq(F, N)
    BY <1>2, <1>6
  <1>8. F[0] = z /\ \A n \in 0 .. N - 1 : F[n + 1] = Step(n + 1, F[n])
    BY <1>1, <1>7, SMTT(120)
  <1> QED BY <1>3, <1>8

(* The recursion of ReferenceNodes. *)
LEMMA ReferenceRec ==
  ASSUME NEW s PROVE
  /\ ReferenceNodes(s)[0] = PaddedLeaves(s)
  /\ \A n \in 0 .. Depth - 1 : ReferenceNodes(s)[n + 1] = Parents(n, ReferenceNodes(s)[n])
  <1> DEFINE N == Depth
             z == PaddedLeaves(s)
             Step(n, x) == Parents(n - 1, x)
             Eq(f, m) == f = [n \in 0 .. m |-> IF n = 0 THEN z ELSE Step(n, f[n - 1])]
             S == {m \in 0 .. N : \E f : Eq(f, m)}
             F == ReferenceNodes(s)
  <1>1. N \in Nat
    BY TreeAssumption
  <1>2. (\E f : Eq(f, N)) => Eq(F, N)
    BY ZenonT(120) DEF ReferenceNodes
  <1>3. F[0] = z /\ (\A n \in 0 .. N - 1 : F[n + 1] = Step(n + 1, F[n])) => /\ ReferenceNodes(s)[0] = PaddedLeaves(s)
          /\ \A n \in 0 .. Depth - 1 : ReferenceNodes(s)[n + 1] = Parents(n, ReferenceNodes(s)[n])
    BY <1>1, SMTT(120)
  <1> HIDE DEF N, z, Step, F
  <1>4. 0 \in S
    <2>1. Eq([n \in 0 .. 0 |-> z], 0)
      BY SMTT(120)
    <2> HIDE DEF Eq
    <2> QED BY <1>1, <2>1, 0 \in 0 .. N
  <1>5. ASSUME NEW m \in 0 .. N - 1, m \in S PROVE m + 1 \in S
    <2>1. PICK f : Eq(f, m)
      BY <1>5
    <2> DEFINE g == [n \in 0 .. m + 1 |-> IF n = m + 1 THEN Step(m + 1, f[m]) ELSE f[n]]
    <2>2. Eq(g, m + 1)
      BY <2>1, SMTT(120)
    <2>3. m + 1 \in 0 .. N
      BY <1>1
    <2> HIDE DEF Eq, g
    <2> QED BY <2>2, <2>3
  <1>6. N \in S
    <2> HIDE DEF S
    <2>1. \A i \in 0 .. N : i \in S
      BY <1>1, <1>4, <1>5, UpTo, ZenonT(120)
    <2> QED BY <1>1, <2>1
  <1>7. Eq(F, N)
    BY <1>2, <1>6
  <1>8. F[0] = z /\ \A n \in 0 .. N - 1 : F[n + 1] = Step(n + 1, F[n])
    BY <1>1, <1>7, SMTT(120)
  <1> QED BY <1>3, <1>8

-----------------------------------------------------------------------------
(* Indices and populated counts level by level.                             *)

(* Powers are positive. *)
LEMMA Pow2Type == Depth \in Nat /\ \A n \in 0 .. Depth : Pow2[n] \in Nat /\ Pow2[n] > 0
  <1> DEFINE S == {n \in 0 .. Depth : Pow2[n] \in Nat /\ Pow2[n] > 0}
  <1>1. Depth \in Nat
    BY TreeAssumption
  <1>2. 0 \in S
    BY <1>1, Pow2Rec, SMTT(120)
  <1>3. ASSUME NEW i \in 0 .. Depth - 1, i \in S PROVE i + 1 \in S
    BY <1>1, <1>3, Pow2Rec, SMTT(120)
  <1>4. \A i \in 0 .. Depth : i \in S
    <2> HIDE DEF S
    <2> QED BY <1>1, <1>2, <1>3, UpTo
  <1> QED BY <1>1, <1>4

(* currentIndex /= 2 at each level. *)
LEMMA AtRec ==
  ASSUME NEW k \in Nat
  PROVE  /\ At(k, 0) = k
         /\ \A l \in 0 .. Depth : At(k, l) \in Nat
         /\ \A l \in 0 .. Depth - 1 : At(k, l + 1) = At(k, l) \div 2
  <1>1. Pow2[0] = 1
    BY Pow2Rec
  <1>2. At(k, 0) = k
    BY <1>1, SMTT(120) DEF At
  <1>3. ASSUME NEW p \in Nat, p > 0
        PROVE  k \div p \in Nat /\ k \div (2 * p) = (k \div p) \div 2
    BY <1>3, SMTT(120)
  <1>4. \A l \in 0 .. Depth : At(k, l) \in Nat
    BY <1>3, Pow2Type DEF At
  <1>5. ASSUME NEW l \in 0 .. Depth - 1 PROVE At(k, l + 1) = At(k, l) \div 2
    <2>1. l \in 0 .. Depth /\ Pow2[l + 1] = 2 * Pow2[l]
      BY Pow2Type, Pow2Rec, SMTT(120)
    <2> QED BY <1>3, <2>1, Pow2Type DEF At
  <1> QED BY <1>2, <1>4, <1>5

(* The root is the only node of its level. *)
LEMMA AtRoot ==
  ASSUME NEW k \in Nat, k < MaxMerkleLeaves
  PROVE  At(k, Depth) = 0
  <1>1. ASSUME NEW p \in Nat, p > 0, k < p PROVE k \div p = 0
    BY <1>1, SMTT(120)
  <1> QED BY SMTT(120), <1>1, Pow2Type DEF MaxMerkleLeaves, At

(* The populated nodes of a level are those up to the one above the last    *)
(* leaf.                                                                    *)
LEMMA PopulatedAt ==
  ASSUME NEW l \in 0 .. Depth
  PROVE  /\ PopulatedNodeCountAtLevel(0, l) = 0
         /\ \A k \in Nat : PopulatedNodeCountAtLevel(k + 1, l) = At(k, l) + 1
  <1>1. ASSUME NEW p \in Nat, p > 0
        PROVE  /\ (0 + p - 1) \div p = 0
               /\ \A k \in Nat : ((k + 1) + p - 1) \div p = (k \div p) + 1
    BY <1>1, SMTT(120)
  <1> QED BY <1>1, Pow2Type DEF PopulatedNodeCountAtLevel, At

(* populatedNodeCountAtLevel halves the count at each level, rounding up.   *)
LEMMA PopulatedRec ==
  ASSUME NEW count \in Nat
  PROVE  /\ PopulatedNodeCountAtLevel(count, 0) = count
         /\ \A l \in 0 .. Depth : PopulatedNodeCountAtLevel(count, l) \in Nat
         /\ \A l \in 0 .. Depth - 1 :
              PopulatedNodeCountAtLevel(count, l + 1) = (PopulatedNodeCountAtLevel(count, l) + 1) \div 2
  <1>1. CASE count = 0
    <2>1. \A l \in 0 .. Depth : PopulatedNodeCountAtLevel(count, l) = 0
      BY <1>1, PopulatedAt
    <2> HIDE DEF PopulatedNodeCountAtLevel
    <2> QED BY <1>1, <2>1, Pow2Type, SMTT(120)
  <1>2. CASE count # 0
    <2> DEFINE k == count - 1
    <2>1. k \in Nat /\ count = k + 1
      BY <1>2
    <2> HIDE DEF k
    <2>2. \A l \in 0 .. Depth : PopulatedNodeCountAtLevel(count, l) = At(k, l) + 1
      BY <2>1, PopulatedAt
    <2>3. \A l \in 0 .. Depth - 1 : l \in 0 .. Depth /\ l + 1 \in 0 .. Depth
      BY Pow2Type
    <2>4. /\ At(k, 0) = k /\ \A l \in 0 .. Depth : At(k, l) \in Nat
          /\ \A l \in 0 .. Depth - 1 : At(k, l + 1) = At(k, l) \div 2
      BY <2>1, AtRec
    <2>5. \A a \in Nat : (a \div 2) + 1 = ((a + 1) + 1) \div 2
      BY SMTT(120)
    <2>6. 0 \in 0 .. Depth
      BY Pow2Type
    <2> QED BY SMTT(120), <2>1, <2>2, <2>3, <2>4, <2>5, <2>6
  <1> QED BY <1>1, <1>2

(* More leaves populate no fewer nodes. *)
LEMMA PopulatedGrows ==
  ASSUME NEW a \in Nat, NEW b \in Nat, a <= b, NEW l \in 0 .. Depth
  PROVE  PopulatedNodeCountAtLevel(a, l) <= PopulatedNodeCountAtLevel(b, l)
  <1>1. ASSUME NEW p \in Nat, p > 0
        PROVE  (a + p - 1) \div p <= (b + p - 1) \div p
    BY <1>1, SMTT(120)
  <1> QED BY <1>1, Pow2Type DEF PopulatedNodeCountAtLevel

(* The node above the next leaf is the same or the next one. *)
LEMMA AtNext ==
  ASSUME NEW k \in Nat, NEW l \in 0 .. Depth
  PROVE  At(k + 1, l) = At(k, l) \/ At(k + 1, l) = At(k, l) + 1
  <1>1. ASSUME NEW p \in Nat, p > 0
        PROVE  (k + 1) \div p = k \div p \/ (k + 1) \div p = (k \div p) + 1
    BY <1>1, SMTT(120)
  <1> QED BY <1>1, Pow2Type DEF At

-----------------------------------------------------------------------------
(* The reference tree.                                                      *)

(* Its nodes, one by one. *)
LEMMA RefNode ==
  ASSUME NEW s
  PROVE  /\ \A i \in Nat : ReferenceNodes(s)[0][i] = IF i < Len(s) THEN s[i + 1] ELSE Zero
         /\ \A l \in 0 .. Depth - 1, i \in Nat :
              ReferenceNodes(s)[l + 1][i]
                = HashNodes(l, ReferenceNodes(s)[l][2 * i], ReferenceNodes(s)[l][2 * i + 1])
  <1>1. ReferenceNodes(s)[0] = PaddedLeaves(s)
    BY ReferenceRec
  <1>2. \A l \in 0 .. Depth - 1 : ReferenceNodes(s)[l + 1] = Parents(l, ReferenceNodes(s)[l])
    BY ReferenceRec
  <1>3. \A i \in Nat : PaddedLeaves(s)[i] = IF i < Len(s) THEN s[i + 1] ELSE Zero
    BY DEF PaddedLeaves
  <1>4. ASSUME NEW l, NEW row, NEW i \in Nat
        PROVE  Parents(l, row)[i] = HashNodes(l, row[2 * i], row[2 * i + 1])
    BY DEF Parents
  <1>5. \A i \in Nat : ReferenceNodes(s)[0][i] = IF i < Len(s) THEN s[i + 1] ELSE Zero
    BY <1>1, <1>3, ZenonT(120)
  <1>6. ASSUME NEW l \in 0 .. Depth - 1, NEW i \in Nat
        PROVE  ReferenceNodes(s)[l + 1][i]
                 = HashNodes(l, ReferenceNodes(s)[l][2 * i], ReferenceNodes(s)[l][2 * i + 1])
    <2>1. ReferenceNodes(s)[l + 1] = Parents(l, ReferenceNodes(s)[l])
      BY <1>2
    <2>2. Parents(l, ReferenceNodes(s)[l])[i]
            = HashNodes(l, ReferenceNodes(s)[l][2 * i], ReferenceNodes(s)[l][2 * i + 1])
      BY SMTT(120), <1>4
    <2> QED BY <2>1, <2>2
  <1> QED BY <1>5, <1>6

(* Beyond the populated part of a level every node is the empty one. *)
LEMMA RefEmpty ==
  ASSUME NEW s, Len(s) \in Nat
  PROVE  \A l \in 0 .. Depth, i \in Nat :
           i >= PopulatedNodeCountAtLevel(Len(s), l) => ReferenceNodes(s)[l][i] = EmptyNode[l]
  <1> DEFINE R == ReferenceNodes(s)
             P(l) == PopulatedNodeCountAtLevel(Len(s), l)
             S == {l \in 0 .. Depth : \A i \in Nat : i >= P(l) => R[l][i] = EmptyNode[l]}
  <1>1. P(0) = Len(s) /\ (\A l \in 0 .. Depth : P(l) \in Nat)
        /\ \A l \in 0 .. Depth - 1 : P(l + 1) = (P(l) + 1) \div 2
    BY PopulatedRec
  <1>2. /\ \A i \in Nat : R[0][i] = IF i < Len(s) THEN s[i + 1] ELSE Zero
        /\ \A l \in 0 .. Depth - 1, i \in Nat : R[l + 1][i] = HashNodes(l, R[l][2 * i], R[l][2 * i + 1])
    BY RefNode
  <1>3. Depth \in Nat
    BY Pow2Type
  <1> HIDE DEF R, P
  <1>4. 0 \in S
    BY SMTT(120), <1>1, <1>2, <1>3, EmptyNodeRec
  <1>5. ASSUME NEW l \in 0 .. Depth - 1, l \in S PROVE l + 1 \in S
    <2>1. l \in 0 .. Depth /\ l + 1 \in 0 .. Depth
      BY <1>3
    <2>2. P(l) \in Nat /\ P(l + 1) = (P(l) + 1) \div 2
      BY <1>1, <2>1
    <2>3. ASSUME NEW i \in Nat, i >= P(l + 1) PROVE R[l + 1][i] = EmptyNode[l + 1]
      <3>1. 2 * i \in Nat /\ 2 * i + 1 \in Nat /\ 2 * i >= P(l) /\ 2 * i + 1 >= P(l)
        BY <2>2, <2>3, SMTT(120)
      <3>2. R[l][2 * i] = EmptyNode[l] /\ R[l][2 * i + 1] = EmptyNode[l]
        BY <1>5, <3>1
      <3>3. EmptyNode[l + 1] = HashNodes(l, EmptyNode[l], EmptyNode[l])
        BY EmptyNodeRec
      <3> QED BY <1>2, <3>2, <3>3
    <2> QED BY <2>1, <2>3
  <1>6. \A l \in 0 .. Depth : l \in S
    <2> HIDE DEF S
    <2> QED BY <1>3, <1>4, <1>5, UpTo
  <1> QED BY <1>6 DEF R, P

(* Trees that differ in one leaf differ only on the way from it up. *)
LEMMA RefLocal ==
  ASSUME NEW s, NEW t, NEW k \in Nat,
         \A i \in Nat : i # k => ReferenceNodes(s)[0][i] = ReferenceNodes(t)[0][i]
  PROVE  \A l \in 0 .. Depth, i \in Nat :
           i # At(k, l) => ReferenceNodes(s)[l][i] = ReferenceNodes(t)[l][i]
  <1> DEFINE R == ReferenceNodes(s)
             Q == ReferenceNodes(t)
             S == {l \in 0 .. Depth : \A i \in Nat : i # At(k, l) => R[l][i] = Q[l][i]}
  <1>1. /\ \A l \in 0 .. Depth - 1, i \in Nat : R[l + 1][i] = HashNodes(l, R[l][2 * i], R[l][2 * i + 1])
        /\ \A l \in 0 .. Depth - 1, i \in Nat : Q[l + 1][i] = HashNodes(l, Q[l][2 * i], Q[l][2 * i + 1])
        /\ \A i \in Nat : i # k => R[0][i] = Q[0][i]
    BY RefNode
  <1>2. Depth \in Nat
    BY Pow2Type
  <1> HIDE DEF R, Q
  <1>3. 0 \in S
    BY <1>1, <1>2, AtRec
  <1>4. ASSUME NEW l \in 0 .. Depth - 1, l \in S PROVE l + 1 \in S
    <2>1. l \in 0 .. Depth /\ l + 1 \in 0 .. Depth
      BY <1>2
    <2>2. At(k, l) \in Nat /\ At(k, l + 1) = At(k, l) \div 2
      BY <2>1, AtRec
    <2>3. ASSUME NEW i \in Nat, i # At(k, l + 1) PROVE R[l + 1][i] = Q[l + 1][i]
      <3>1. 2 * i \in Nat /\ 2 * i + 1 \in Nat /\ 2 * i # At(k, l) /\ 2 * i + 1 # At(k, l)
        BY <2>2, <2>3, SMTT(120)
      <3>2. R[l][2 * i] = Q[l][2 * i] /\ R[l][2 * i + 1] = Q[l][2 * i + 1]
        BY <1>4, <3>1
      <3> QED BY SMTT(120), <1>1, <3>2
    <2> QED BY <2>1, <2>3
  <1>5. \A l \in 0 .. Depth : l \in S
    <2> HIDE DEF S
    <2> QED BY <1>2, <1>3, <1>4, UpTo
  <1> QED BY <1>5 DEF R, Q

(* up holds the nodes of the tree over t from leaf k to the root. *)
OnPath(up, t, k) == \A l \in 0 .. Depth : up[l] = ReferenceNodes(t)[l][At(k, l)]

(* sibling holds the sibling of each of those nodes. *)
SiblingsRight(sibling, t, k) ==
    \A l \in 0 .. Depth - 1 : sibling[l] = ReferenceNodes(t)[l][Sibling(At(k, l))]

(* A climb from a leaf that is given the reference siblings goes through    *)
(* the reference nodes.                                                     *)
LEMMA ClimbRef ==
  ASSUME NEW s, NEW c, NEW k \in Nat, NEW sibling,
         c = ReferenceNodes(s)[0][k], SiblingsRight(sibling, s, k)
  PROVE  OnPath(Climb(c, k, sibling), s, k)
  <1> DEFINE R == ReferenceNodes(s)
             C == Climb(c, k, sibling)
             S == {l \in 0 .. Depth : C[l] = R[l][At(k, l)]}
  <1>1. /\ \A l \in 0 .. Depth - 1, i \in Nat : R[l + 1][i] = HashNodes(l, R[l][2 * i], R[l][2 * i + 1])
        /\ \A l \in 0 .. Depth - 1 : sibling[l] = R[l][Sibling(At(k, l))]
        /\ R[0][k] = c
    <2>1. \A l \in 0 .. Depth - 1, i \in Nat : R[l + 1][i] = HashNodes(l, R[l][2 * i], R[l][2 * i + 1])
      BY RefNode
    <2>2. \A l \in 0 .. Depth - 1 : sibling[l] = R[l][Sibling(At(k, l))]
      BY DEF SiblingsRight
    <2> HIDE DEF C, S
    <2> QED BY <2>1, <2>2
  <1>2. C[0] = c /\ \A l \in 0 .. Depth - 1 : C[l + 1] = Parent(k, l, C[l], sibling[l])
    BY SMTT(120), ClimbRec
  <1>3. Depth \in Nat
    BY Pow2Type
  <1> HIDE DEF R, C
  <1>4. 0 \in S
    BY SMTT(120), <1>1, <1>2, <1>3, AtRec
  <1>5. ASSUME NEW l \in 0 .. Depth - 1, l \in S PROVE l + 1 \in S
    <2>1. l \in 0 .. Depth /\ l + 1 \in 0 .. Depth
      BY <1>3
    <2>2. At(k, l) \in Nat /\ At(k, l + 1) = At(k, l) \div 2 /\ At(k, l + 1) \in Nat
      BY <2>1, AtRec
    <2>3. R[l + 1][At(k, l + 1)] = HashNodes(l, R[l][2 * At(k, l + 1)], R[l][2 * At(k, l + 1) + 1])
      BY <1>1, <2>2
    <2>4. C[l + 1] = Parent(k, l, R[l][At(k, l)], R[l][Sibling(At(k, l))])
      BY <1>1, <1>2, <1>5
    <2>5. CASE At(k, l) % 2 = 0
      <3>1. 2 * At(k, l + 1) = At(k, l) /\ Sibling(At(k, l)) = 2 * At(k, l + 1) + 1
        BY <2>2, <2>5, SMTT(120) DEF Sibling
      <3> QED BY <2>1, <2>3, <2>4, <2>5, <3>1 DEF Parent
    <2>6. CASE At(k, l) % 2 # 0
      <3>1. 2 * At(k, l + 1) + 1 = At(k, l) /\ Sibling(At(k, l)) = 2 * At(k, l + 1)
        BY <2>2, <2>6, SMTT(120) DEF Sibling
      <3> QED BY <2>1, <2>3, <2>4, <2>6, <3>1 DEF Parent
    <2> QED BY <2>5, <2>6
  <1>6. \A l \in 0 .. Depth : l \in S
    <2> HIDE DEF S
    <2> QED BY <1>3, <1>4, <1>5, UpTo
  <1> QED BY <1>6 DEF R, C, OnPath

(* The layers of RecalculateRoot are the populated part of the tree. *)
LEMMA LayersRef ==
  ASSUME NEW V, NEW s \in Seq(V)
  PROVE  \A l \in 0 .. Depth :
           /\ Len(Layers(s)[l]) = PopulatedNodeCountAtLevel(Len(s), l)
           /\ \A i \in Nat : i < PopulatedNodeCountAtLevel(Len(s), l) =>
                Layers(s)[l][i + 1] = ReferenceNodes(s)[l][i]
  <1> DEFINE R == ReferenceNodes(s)
             L == Layers(s)
             P(l) == PopulatedNodeCountAtLevel(Len(s), l)
             S == {l \in 0 .. Depth : Len(L[l]) = P(l) /\ \A i \in Nat : i < P(l) => L[l][i + 1] = R[l][i]}
  <1>1. Depth \in Nat /\ Len(s) \in Nat
    BY Pow2Type
  <1>2. P(0) = Len(s) /\ (\A l \in 0 .. Depth : P(l) \in Nat)
        /\ \A l \in 0 .. Depth - 1 : P(l + 1) = (P(l) + 1) \div 2
    BY <1>1, PopulatedRec
  <1>3. /\ \A i \in Nat : R[0][i] = IF i < Len(s) THEN s[i + 1] ELSE Zero
        /\ \A l \in 0 .. Depth - 1, i \in Nat : R[l + 1][i] = HashNodes(l, R[l][2 * i], R[l][2 * i + 1])
    BY RefNode
  <1>4. \A l \in 0 .. Depth, i \in Nat : i >= P(l) => R[l][i] = EmptyNode[l]
    BY <1>1, RefEmpty, ZenonT(120)
  <1>5. L[0] = s /\ \A l \in 0 .. Depth - 1 : L[l + 1] = NextLayer(l, L[l])
    BY LayersRec
  <1> HIDE DEF R, L, P
  <1>6. 0 \in S
    BY SMTT(120), <1>1, <1>2, <1>3, <1>5
  <1>7. ASSUME NEW l \in 0 .. Depth - 1, l \in S PROVE l + 1 \in S
    <2>1. l \in 0 .. Depth /\ l + 1 \in 0 .. Depth
      BY <1>1
    <2>2. P(l) \in Nat /\ P(l + 1) = (P(l) + 1) \div 2 /\ P(l + 1) \in Nat
      BY <1>2, <2>1
    <2> DEFINE b == L[l]
               n == P(l + 1)
    <2>3. Len(b) = P(l) /\ \A i \in Nat : i < P(l) => b[i + 1] = R[l][i]
      BY <1>7
    <2>4. L[l + 1] = [j \in 1 .. n |-> HashNodes(l, b[2 * j - 1], IF 2 * j <= Len(b) THEN b[2 * j] ELSE EmptyNode[l])]
      BY <1>5, <2>2, <2>3 DEF NextLayer
    <2>5. Len(L[l + 1]) = n
      <3> HIDE DEF n, b
      <3>1. n \in Nat
        BY <2>2 DEF n
      <3> QED BY <2>4, <3>1, SMTT(120)
    <2>6. ASSUME NEW i \in Nat, i < P(l + 1) PROVE L[l + 1][i + 1] = R[l + 1][i]
      <3>1. /\ i + 1 \in 1 .. n /\ 2 * i \in Nat /\ 2 * i + 1 \in Nat /\ 2 * i < P(l)
            /\ 2 * (i + 1) - 1 = 2 * i + 1 /\ 2 * (i + 1) = (2 * i + 1) + 1
        BY <2>2, <2>6, SMTT(120)
      <3>2. L[l + 1][i + 1] = HashNodes(l, b[2 * i + 1], IF 2 * (i + 1) <= Len(b) THEN b[2 * (i + 1)] ELSE EmptyNode[l])
        BY <2>4, <3>1
      <3>3. b[2 * i + 1] = R[l][2 * i]
        BY <2>3, <3>1
      <3>4. (IF 2 * (i + 1) <= Len(b) THEN b[2 * (i + 1)] ELSE EmptyNode[l]) = R[l][2 * i + 1]
        <4>1. CASE 2 * i + 1 < P(l)
          <5>1. b[(2 * i + 1) + 1] = R[l][2 * i + 1] /\ 2 * (i + 1) <= Len(b)
            BY SMTT(120), <2>2, <2>3, <3>1, <4>1
          <5> QED BY <3>1, <5>1
        <4>2. CASE ~ (2 * i + 1 < P(l))
          <5>1. 2 * i + 1 >= P(l) /\ ~ (2 * (i + 1) <= Len(b))
            BY SMTT(120), <2>2, <2>3, <3>1, <4>2
          <5> QED BY <1>4, <2>1, <3>1, <5>1
        <4> QED BY <4>1, <4>2
      <3> QED BY <1>3, <3>2, <3>3, <3>4
    <2> QED BY <2>1, <2>5, <2>6
  <1>8. \A l \in 0 .. Depth : l \in S
    <2> HIDE DEF S
    <2> QED BY <1>1, <1>6, <1>7, UpTo
  <1> QED BY <1>8 DEF R, L, P

(* RecalculateRoot computes the root of the reference tree. *)
LEMMA RecalculatedRoot ==
  ASSUME NEW V, NEW s \in Seq(V)
  PROVE  RecalculateRoot(s) = ReferenceRoot(s)
  <1>1. Len(s) \in Nat /\ Depth \in 0 .. Depth
    BY Pow2Type
  <1>2. CASE s = << >>
    <2>1. PopulatedNodeCountAtLevel(Len(s), Depth) = 0
      BY <1>1, <1>2, PopulatedAt
    <2> QED BY SMTT(120), <1>1, <1>2, <2>1, RefEmpty DEF RecalculateRoot, ReferenceRoot
  <1>3. CASE s # << >>
    <2>1. Len(s) # 0
      BY <1>3, SMTT(120)
    <2>2. Len(s) - 1 \in Nat /\ Len(s) = (Len(s) - 1) + 1
      BY <1>1, <2>1
    <2>3. PopulatedNodeCountAtLevel(Len(s), Depth) = At(Len(s) - 1, Depth) + 1
      BY <1>1, <2>2, PopulatedAt
    <2>4. At(Len(s) - 1, Depth) \in Nat
      BY <1>1, <2>2, AtRec
    <2>5. 0 < PopulatedNodeCountAtLevel(Len(s), Depth)
      BY <2>3, <2>4
    <2>6. Layers(s)[Depth][0 + 1] = ReferenceNodes(s)[Depth][0]
      BY SMTT(120), <1>1, <2>5, LayersRef
    <2> QED BY <1>3, <2>6 DEF RecalculateRoot, ReferenceRoot
  <1> QED BY <1>2, <1>3

-----------------------------------------------------------------------------
(* The node cache.                                                          *)

(* Every cached node is the node of the tree over s. *)
NodesRight(n, s) ==
    /\ DOMAIN n \subseteq (0 .. Depth) \X Nat
    /\ \A l \in 0 .. Depth, i \in Nat : <<l, i>> \in DOMAIN n => n[<<l, i>>] = ReferenceNodes(s)[l][i]

(* t is s with one leaf more. *)
OneMore(s, t) ==
    Len(s) \in Nat /\ Len(t) = Len(s) + 1 /\ \A i \in 1 .. Len(s) : t[i] = s[i]

(* The left siblings that a climb from leaf k reads are those of t. *)
LeftsRight(n, t, k, count) ==
    \A l \in 0 .. Depth - 1 : At(k, l) % 2 = 1 =>
        NodeOrEmpty(n, l, At(k, l) - 1, count) = ReferenceNodes(t)[l][At(k, l) - 1]

(* The siblings for a climb from the last leaf k: empty on the right, those *)
(* of t on the left.                                                        *)
SiblingsOfLast(sib, t, k) ==
    \A l \in 0 .. Depth - 1 :
        /\ At(k, l) % 2 = 0 => sib[l] = EmptyNode[l]
        /\ At(k, l) % 2 = 1 => sib[l] = ReferenceNodes(t)[l][At(k, l) - 1]

(* W is n with up written on the path from leaf k. *)
PathWritten(W, n, k, up) ==
    /\ DOMAIN W \subseteq (0 .. Depth) \X Nat
    /\ \A l \in 0 .. Depth, i \in Nat :
         /\ <<l, i>> \in DOMAIN W <=> (<<l, i>> \in DOMAIN n \/ i = At(k, l))
         /\ i = At(k, l) => W[<<l, i>>] = up[l]
         /\ (<<l, i>> \in DOMAIN n /\ i # At(k, l)) => W[<<l, i>>] = n[<<l, i>>]

(* getMerkleNodeOrEmpty returns a node of the tree or an error. *)
LEMMA NodeRead ==
  ASSUME NEW n, NEW s, NodesRight(n, s), Len(s) \in Nat, NEW l \in 0 .. Depth, NEW i \in Nat,
         NodeReadable(n, l, i, Len(s))
  PROVE  NodeOrEmpty(n, l, i, Len(s)) = ReferenceNodes(s)[l][i]
  <1> DEFINE p == PopulatedNodeCountAtLevel(Len(s), l)
  <1>1. p \in Nat
    BY PopulatedRec
  <1>2. i < p => <<l, i>> \in DOMAIN n
    BY DEF NodeReadable
  <1>3. NodeOrEmpty(n, l, i, Len(s)) = IF i < p /\ <<l, i>> \in DOMAIN n THEN n[<<l, i>>] ELSE EmptyNode[l]
    BY DEF NodeOrEmpty
  <1>4. i >= p => ReferenceNodes(s)[l][i] = EmptyNode[l]
    BY RefEmpty
  <1>5. <<l, i>> \in DOMAIN n => n[<<l, i>>] = ReferenceNodes(s)[l][i]
    BY DEF NodesRight
  <1> HIDE DEF p
  <1>6. i < p \/ i >= p
    BY SMTT(120), <1>1
  <1> QED BY <1>2, <1>3, <1>4, <1>5, <1>6

(* One leaf more changes only the nodes above it. *)
LEMMA OneMoreLocal ==
  ASSUME NEW s, NEW t, OneMore(s, t)
  PROVE  \A l \in 0 .. Depth, i \in Nat :
           i # At(Len(s), l) => ReferenceNodes(s)[l][i] = ReferenceNodes(t)[l][i]
  <1>1. Len(s) \in Nat /\ Len(t) = Len(s) + 1 /\ \A i \in 1 .. Len(s) : t[i] = s[i]
    BY DEF OneMore
  <1>2. ASSUME NEW i \in Nat, i # Len(s)
        PROVE  ReferenceNodes(s)[0][i] = ReferenceNodes(t)[0][i]
    <2>1. /\ ReferenceNodes(s)[0][i] = IF i < Len(s) THEN s[i + 1] ELSE Zero
          /\ ReferenceNodes(t)[0][i] = IF i < Len(t) THEN t[i + 1] ELSE Zero
      BY RefNode
    <2>2. /\ i < Len(t) <=> i < Len(s)
          /\ i < Len(s) => i + 1 \in 1 .. Len(s)
      BY <1>1, <1>2
    <2> QED BY <1>1, <2>1, <2>2
  <1> QED BY SMTT(120), <1>1, <1>2, RefLocal

(* The climb from the last leaf goes through the tree when the siblings on  *)
(* the left are right: there is nothing on the right yet.                   *)
LEMMA NewLeafClimb ==
  ASSUME NEW t, NEW k \in Nat, Len(t) = k + 1, NEW sib, SiblingsOfLast(sib, t, k)
  PROVE  OnPath(Climb(t[k + 1], k, sib), t, k)
  <1>1. t[k + 1] = ReferenceNodes(t)[0][k]
    <2>1. k < Len(t)
      OBVIOUS
    <2> QED BY <2>1, RefNode
  <1>2. ASSUME NEW l \in 0 .. Depth - 1
        PROVE  sib[l] = ReferenceNodes(t)[l][Sibling(At(k, l))]
    <2>1. l \in 0 .. Depth
      BY Pow2Type
    <2>2. At(k, l) \in Nat
      BY <2>1, AtRec
    <2>3. CASE At(k, l) % 2 = 0
      <3>1. sib[l] = EmptyNode[l] /\ Sibling(At(k, l)) = At(k, l) + 1
        BY <2>3 DEF Sibling, SiblingsOfLast
      <3>2. PopulatedNodeCountAtLevel(Len(t), l) = At(k, l) + 1
        BY <2>1, PopulatedAt
      <3>3. At(k, l) + 1 \in Nat /\ At(k, l) + 1 >= PopulatedNodeCountAtLevel(Len(t), l) /\ Len(t) \in Nat
        BY <2>2, <3>2
      <3> QED BY ZenonT(120), <2>1, <3>1, <3>3, RefEmpty
    <2>4. CASE At(k, l) % 2 # 0
      <3>1. At(k, l) % 2 = 1
        BY <2>2, <2>4
      <3>2. Sibling(At(k, l)) = At(k, l) - 1
        BY <2>4 DEF Sibling
      <3> QED BY <3>1, <3>2 DEF SiblingsOfLast
    <2> QED BY <2>3, <2>4
  <1> DEFINE c == t[k + 1]
  <1>3. c = ReferenceNodes(t)[0][k]
    BY <1>1
  <1> HIDE DEF c
  <1>4. SiblingsRight(sib, t, k)
    BY <1>2 DEF SiblingsRight
  <1>5. OnPath(Climb(c, k, sib), t, k)
    BY <1>3, <1>4, ClimbRef
  <1> QED BY <1>5 DEF c

(* The nodes written for a new leaf are those of the new tree, when the     *)
(* left siblings read are right.                                            *)
LEMMA PathUpRef ==
  ASSUME NEW n, NEW t, NEW k \in Nat, Len(t) = k + 1, NEW count, LeftsRight(n, t, k, count)
  PROVE  OnPath(PathUp(n, t[k + 1], k, count), t, k)
  <1> DEFINE sib == [level \in 0 .. Depth - 1 |->
                       IF At(k, level) % 2 = 0 THEN EmptyNode[level]
                       ELSE NodeOrEmpty(n, level, At(k, level) - 1, count)]
  <1>1. PathUp(n, t[k + 1], k, count) = Climb(t[k + 1], k, sib)
    BY DEF PathUp
  <1>2. ASSUME NEW l \in 0 .. Depth - 1
        PROVE  /\ At(k, l) % 2 = 0 => sib[l] = EmptyNode[l]
               /\ At(k, l) % 2 = 1 => sib[l] = ReferenceNodes(t)[l][At(k, l) - 1]
    BY DEF LeftsRight
  <1> HIDE DEF sib
  <1>3. SiblingsOfLast(sib, t, k)
    BY <1>2 DEF SiblingsOfLast
  <1> QED BY <1>1, <1>3, NewLeafClimb

(* What the writes on a path leave in the cache. *)
LEMMA Written ==
  ASSUME NEW n, NEW c, NEW k \in Nat, NEW count, DOMAIN n \subseteq (0 .. Depth) \X Nat
  PROVE  PathWritten(WritePath(n, c, k, count), n, k, PathUp(n, c, k, count))
  <1> DEFINE up == PathUp(n, c, k, count)
             w == {<<level, At(k, level)>> : level \in 0 .. Depth}
             W == [q \in DOMAIN n \cup w |-> IF q \in w THEN up[q[1]] ELSE n[q]]
  <1>1. WritePath(n, c, k, count) = W
    BY DEF WritePath
  <1>2. \A l \in 0 .. Depth : At(k, l) \in Nat
    BY AtRec
  <1>3. \A l \in 0 .. Depth, i \in Nat : <<l, i>> \in w <=> i = At(k, l)
    OBVIOUS
  <1>4. w \subseteq (0 .. Depth) \X Nat
    BY SMTT(120), <1>2
  <1> HIDE DEF w, up
  <1>5. DOMAIN W = DOMAIN n \cup w
    OBVIOUS
  <1>6. ASSUME NEW l \in 0 .. Depth, NEW i \in Nat
        PROVE  /\ <<l, i>> \in DOMAIN W <=> (<<l, i>> \in DOMAIN n \/ i = At(k, l))
               /\ i = At(k, l) => W[<<l, i>>] = up[l]
               /\ (<<l, i>> \in DOMAIN n /\ i # At(k, l)) => W[<<l, i>>] = n[<<l, i>>]
    <2>1. <<l, i>> \in w <=> i = At(k, l)
      BY <1>3
    <2>2. <<l, i>>[1] = l
      OBVIOUS
    <2> QED BY <2>1, <2>2
  <1>7. DOMAIN W \subseteq (0 .. Depth) \X Nat
    BY <1>4, <1>5
  <1>8. PathWritten(W, n, k, up)
    <2> HIDE DEF W
    <2> QED BY <1>6, <1>7 DEF PathWritten
  <1> QED BY <1>1, <1>8 DEF up

(* appendCommitment on a right cache leaves a right cache of the new tree,  *)
(* and its last hash is the new root.                                       *)
LEMMA AppendedNodes ==
  ASSUME NEW n, NEW s, NEW t, NEW k, k = Len(s),
         NodesRight(n, s), OneMore(s, t), AppendPathReadable(n, k)
  PROVE  /\ NodesRight(WritePath(n, t[k + 1], k, k), t)
         /\ OnPath(PathUp(n, t[k + 1], k, k), t, k)
  <1> DEFINE c == t[k + 1]
             W == WritePath(n, c, k, k)
             up == PathUp(n, c, k, k)
  <1>1. k \in Nat /\ Len(t) = k + 1
    BY DEF OneMore
  <1>2. \A l \in 0 .. Depth, i \in Nat :
          i # At(k, l) => ReferenceNodes(s)[l][i] = ReferenceNodes(t)[l][i]
    BY SMTT(120), OneMoreLocal
  <1>3. ASSUME NEW l \in 0 .. Depth - 1, At(k, l) % 2 = 1
        PROVE  NodeOrEmpty(n, l, At(k, l) - 1, k) = ReferenceNodes(t)[l][At(k, l) - 1]
    <2>1. l \in 0 .. Depth /\ At(k, l) \in Nat
      BY SMTT(120), <1>1, Pow2Type, AtRec
    <2>2. At(k, l) - 1 \in Nat /\ At(k, l) - 1 # At(k, l)
      BY <1>3, <2>1, SMTT(120)
    <2>3. NodeReadable(n, l, At(k, l) - 1, k)
      BY <1>3 DEF AppendPathReadable
    <2>4. NodeOrEmpty(n, l, At(k, l) - 1, k) = ReferenceNodes(s)[l][At(k, l) - 1]
      BY SMTT(120), <1>1, <2>1, <2>2, <2>3, NodeRead
    <2> QED BY <1>2, <2>1, <2>2, <2>4
  <1>4. OnPath(up, t, k)
    <2>1. LeftsRight(n, t, k, k)
      BY <1>3 DEF LeftsRight
    <2> QED BY <1>1, <2>1, PathUpRef
  <1>5. PathWritten(W, n, k, up)
    <2>1. DOMAIN n \subseteq (0 .. Depth) \X Nat
      BY DEF NodesRight
    <2> HIDE DEF c
    <2> QED BY <1>1, <2>1, Written
  <1> HIDE DEF W, up
  <1>6. ASSUME NEW l \in 0 .. Depth, NEW i \in Nat, <<l, i>> \in DOMAIN W
        PROVE  W[<<l, i>>] = ReferenceNodes(t)[l][i]
    <2>1. CASE i = At(k, l)
      <3>1. W[<<l, i>>] = up[l]
        BY <1>5, <2>1 DEF PathWritten
      <3>2. up[l] = ReferenceNodes(t)[l][At(k, l)]
        BY <1>4 DEF OnPath
      <3> QED BY <2>1, <3>1, <3>2
    <2>2. CASE i # At(k, l)
      <3>1. <<l, i>> \in DOMAIN n /\ W[<<l, i>>] = n[<<l, i>>]
        BY <1>5, <1>6, <2>2 DEF PathWritten
      <3>2. n[<<l, i>>] = ReferenceNodes(s)[l][i]
        BY <3>1 DEF NodesRight
      <3> QED BY <1>2, <2>2, <3>1, <3>2
    <2> QED BY <2>1, <2>2
  <1>7. NodesRight(W, t)
    <2>1. DOMAIN W \subseteq (0 .. Depth) \X Nat
      BY <1>5 DEF PathWritten
    <2> QED BY <1>6, <2>1, ZenonT(120) DEF NodesRight
  <1> QED BY <1>4, <1>7 DEF W, up

-----------------------------------------------------------------------------
(* The rebuild of the cache from the leaves.                                *)

(* A prefix and the next one. *)
LEMMA PrefixOneMore ==
  ASSUME NEW V, NEW s \in Seq(V), NEW m \in 0 .. Len(s) - 1
  PROVE  /\ OneMore(SubSeq(s, 1, m), SubSeq(s, 1, m + 1))
         /\ Len(SubSeq(s, 1, m)) = m /\ Len(SubSeq(s, 1, m + 1)) = m + 1
         /\ SubSeq(s, 1, m + 1)[m + 1] = s[m + 1]
  <1>1. m \in Nat /\ Len(s) \in Nat /\ m + 1 <= Len(s)
    OBVIOUS
  <1>2. Len(SubSeq(s, 1, m)) = m /\ \A i \in 1 .. m : SubSeq(s, 1, m)[i] = s[i]
    BY <1>1, SMTT(120)
  <1>3. Len(SubSeq(s, 1, m + 1)) = m + 1 /\ \A i \in 1 .. m + 1 : SubSeq(s, 1, m + 1)[i] = s[i]
    BY <1>1, SMTT(120)
  <1>4. \A i \in 1 .. m : i \in 1 .. m + 1
    BY <1>1
  <1>5. m + 1 \in 1 .. m + 1
    BY <1>1
  <1> QED BY <1>1, <1>2, <1>3, <1>4, <1>5 DEF OneMore

(* The node above the next leaf is at most one beyond the populated ones. *)
LEMMA AtWithin ==
  ASSUME NEW m \in Nat, NEW l \in 0 .. Depth
  PROVE  At(m, l) <= PopulatedNodeCountAtLevel(m, l)
  <1>1. ASSUME NEW p \in Nat, p > 0
        PROVE  m \div p <= (m + p - 1) \div p
    BY <1>1, SMTT(120)
  <1> QED BY <1>1, Pow2Type DEF At, PopulatedNodeCountAtLevel

(* The cache N after the paths of the first m leaves of s were written into *)
(* a cache that was right but not complete: what lies above those leaves is *)
(* the tree over them, the rest is still of the tree over s.                *)
RebuiltTo(N, s, m) ==
    /\ DOMAIN N \subseteq (0 .. Depth) \X Nat
    /\ \A l \in 0 .. Depth, i \in Nat :
         /\ i < PopulatedNodeCountAtLevel(m, l) =>
              <<l, i>> \in DOMAIN N /\ N[<<l, i>>] = ReferenceNodes(SubSeq(s, 1, m))[l][i]
         /\ (i >= PopulatedNodeCountAtLevel(m, l) /\ <<l, i>> \in DOMAIN N) =>
              N[<<l, i>>] = ReferenceNodes(s)[l][i]

(* One leaf of the rebuild: its left siblings are nodes written before. *)
LEMMA RebuildStep ==
  ASSUME NEW V, NEW s \in Seq(V), NEW m \in 0 .. Len(s) - 1, NEW N, RebuiltTo(N, s, m)
  PROVE  RebuiltTo(WritePath(N, s[m + 1], m, Len(s)), s, m + 1)
  <1> DEFINE p == SubSeq(s, 1, m)
             q == SubSeq(s, 1, m + 1)
             c == s[m + 1]
             n == Len(s)
             up == PathUp(N, c, m, n)
             W == WritePath(N, c, m, n)
             P(x, l) == PopulatedNodeCountAtLevel(x, l)
             R(x) == ReferenceNodes(x)
  <1>1. OneMore(p, q) /\ Len(p) = m /\ Len(q) = m + 1 /\ q[m + 1] = c
    BY PrefixOneMore
  <1>2. m \in Nat /\ n \in Nat /\ m + 1 \in Nat /\ m <= n /\ m <= m + 1
    OBVIOUS
  <1>3. \A l \in 0 .. Depth : /\ At(m, l) \in Nat /\ P(m, l) \in Nat /\ P(n, l) \in Nat
                              /\ P(m + 1, l) = At(m, l) + 1 /\ At(m, l) <= P(m, l)
                              /\ P(m, l) <= P(n, l) /\ P(m, l) <= P(m + 1, l)
    <2> SUFFICES ASSUME NEW l \in 0 .. Depth
                 PROVE  /\ At(m, l) \in Nat /\ P(m, l) \in Nat /\ P(n, l) \in Nat
                        /\ P(m + 1, l) = At(m, l) + 1 /\ At(m, l) <= P(m, l)
                        /\ P(m, l) <= P(n, l) /\ P(m, l) <= P(m + 1, l)
      OBVIOUS
    <2>1. At(m, l) \in Nat
      BY <1>2, AtRec
    <2>2. P(m, l) \in Nat /\ P(n, l) \in Nat
      BY <1>2, PopulatedRec
    <2>3. P(m + 1, l) = At(m, l) + 1
      BY <1>2, PopulatedAt
    <2>4. At(m, l) <= P(m, l)
      BY <1>2, AtWithin
    <2>5. P(m, l) <= P(n, l) /\ P(m, l) <= P(m + 1, l)
      BY <1>2, PopulatedGrows
    <2> QED BY <2>1, <2>2, <2>3, <2>4, <2>5
  <1>4. /\ DOMAIN N \subseteq (0 .. Depth) \X Nat
        /\ \A l \in 0 .. Depth, i \in Nat : i < P(m, l) => <<l, i>> \in DOMAIN N /\ N[<<l, i>>] = R(p)[l][i]
        /\ \A l \in 0 .. Depth, i \in Nat :
             (i >= P(m, l) /\ <<l, i>> \in DOMAIN N) => N[<<l, i>>] = R(s)[l][i]
    BY DEF RebuiltTo
  <1>5. \A l \in 0 .. Depth, i \in Nat : i # At(m, l) => R(p)[l][i] = R(q)[l][i]
    <2> HIDE DEF p, q
    <2> QED BY SMTT(120), <1>1, OneMoreLocal
  <1>6. LeftsRight(N, q, m, n)
    <2> SUFFICES ASSUME NEW l \in 0 .. Depth - 1, At(m, l) % 2 = 1
                 PROVE  NodeOrEmpty(N, l, At(m, l) - 1, n) = R(q)[l][At(m, l) - 1]
      BY DEF LeftsRight
    <2> DEFINE i == At(m, l) - 1
    <2>1. l \in 0 .. Depth
      BY SMTT(120), Pow2Type
    <2>2. i \in Nat /\ i # At(m, l) /\ i < P(m, l) /\ i < P(n, l)
      <3> HIDE DEF P, n
      <3>1. /\ At(m, l) \in Nat /\ P(m, l) \in Nat /\ P(n, l) \in Nat
            /\ At(m, l) <= P(m, l) /\ P(m, l) <= P(n, l)
        BY <1>3, <2>1
      <3> QED BY <3>1, SMTT(120)
    <2>3. <<l, i>> \in DOMAIN N /\ N[<<l, i>>] = R(p)[l][i]
      <3> HIDE DEF i, P, R, p
      <3> QED BY <1>4, <2>1, <2>2
    <2>4. R(p)[l][i] = R(q)[l][i]
      <3> HIDE DEF i, R, p, q
      <3> QED BY <1>5, <2>1, <2>2
    <2>5. NodeOrEmpty(N, l, i, n) = N[<<l, i>>]
      <3> HIDE DEF i, n
      <3> QED BY <2>2, <2>3 DEF NodeOrEmpty
    <2> QED BY <2>3, <2>4, <2>5
  <1>7. OnPath(up, q, m)
    <2> HIDE DEF n, q, c
    <2> QED BY <1>1, <1>2, <1>6, PathUpRef
  <1>8. PathWritten(W, N, m, up)
    <2> HIDE DEF n, c
    <2> QED BY <1>2, <1>4, Written
  <1> HIDE DEF p, q, c, n, up, W, P, R
  <1>9. ASSUME NEW l \in 0 .. Depth, NEW i \in Nat
        PROVE  /\ i < P(m + 1, l) => <<l, i>> \in DOMAIN W /\ W[<<l, i>>] = R(q)[l][i]
               /\ (i >= P(m + 1, l) /\ <<l, i>> \in DOMAIN W) => W[<<l, i>>] = R(s)[l][i]
    <2>1. /\ <<l, i>> \in DOMAIN W <=> (<<l, i>> \in DOMAIN N \/ i = At(m, l))
          /\ i = At(m, l) => W[<<l, i>>] = up[l]
          /\ (<<l, i>> \in DOMAIN N /\ i # At(m, l)) => W[<<l, i>>] = N[<<l, i>>]
      BY <1>8 DEF PathWritten
    <2>2. up[l] = R(q)[l][At(m, l)]
      BY <1>7 DEF OnPath, R
    <2>3. /\ i < P(m + 1, l) => i = At(m, l) \/ (i < P(m, l) /\ i # At(m, l))
          /\ i >= P(m + 1, l) => i # At(m, l) /\ i >= P(m, l)
      BY <1>3, SMTT(120)
    <2>4. CASE i = At(m, l)
      BY <2>1, <2>2, <2>3, <2>4
    <2>5. CASE i # At(m, l) /\ i < P(m + 1, l)
      <3>1. <<l, i>> \in DOMAIN N /\ N[<<l, i>>] = R(p)[l][i]
        BY <1>4, <2>3, <2>5
      <3>2. R(p)[l][i] = R(q)[l][i]
        BY <1>5, <2>5
      <3>3. ~ (i >= P(m + 1, l))
        BY <1>3, <2>5, SMTT(120)
      <3> QED BY <2>1, <2>5, <3>1, <3>2, <3>3
    <2>6. CASE i # At(m, l) /\ i >= P(m + 1, l)
      <3>1. ~ (i < P(m + 1, l))
        BY <1>3, <2>6, SMTT(120)
      <3>2. <<l, i>> \in DOMAIN N => N[<<l, i>>] = R(s)[l][i]
        BY <1>4, <2>3, <2>6
      <3> QED BY <2>1, <2>6, <3>1, <3>2
    <2>7. i < P(m + 1, l) \/ i >= P(m + 1, l)
      BY <1>3, SMTT(120)
    <2> QED BY <2>4, <2>5, <2>6, <2>7
  <1>10. DOMAIN W \subseteq (0 .. Depth) \X Nat
    BY <1>8 DEF PathWritten
  <1>11. RebuiltTo(W, s, m + 1)
    BY <1>9, <1>10 DEF RebuiltTo, P, R, q
  <1> QED BY <1>11 DEF W, c, n

(* ensureIncrementalTreeState leaves a right cache. *)
LEMMA RebuiltRight ==
  ASSUME NEW V, NEW s \in Seq(V), NEW old, NodesRight(old, s)
  PROVE  NodesRight(Rebuilt(old, s)[Len(s)], s)
  <1> DEFINE n == Len(s)
             F == Rebuilt(old, s)
             S == {m \in 0 .. n : RebuiltTo(F[m], s, m)}
  <1>1. n \in Nat
    OBVIOUS
  <1>2. F[0] = old /\ \A m \in 0 .. n - 1 : F[m + 1] = WritePath(F[m], s[m + 1], m, n)
    BY RebuiltRec
  <1> HIDE DEF F
  <1>3. RebuiltTo(old, s, 0)
    <2>1. \A l \in 0 .. Depth : PopulatedNodeCountAtLevel(0, l) = 0
      BY PopulatedAt
    <2>2. \A i \in Nat : ~ (i < 0)
      BY SMTT(120)
    <2> QED BY <2>1, <2>2 DEF RebuiltTo, NodesRight
  <1>4. 0 \in S
    BY SMTT(120), <1>1, <1>2, <1>3
  <1>5. ASSUME NEW m \in 0 .. n - 1, m \in S PROVE m + 1 \in S
    <2>1. RebuiltTo(WritePath(F[m], s[m + 1], m, n), s, m + 1)
      BY <1>5, RebuildStep
    <2>2. m + 1 \in 0 .. n
      BY <1>1
    <2> QED BY <1>2, <2>1, <2>2
  <1>6. RebuiltTo(F[n], s, n)
    <2>1. \A m \in 0 .. n : m \in S
      <3> HIDE DEF S, n
      <3> QED BY <1>1, <1>4, <1>5, UpTo
    <2> QED BY <1>1, <2>1
  <1>7. SubSeq(s, 1, n) = s
    BY SMTT(120)
  <1>8. \A l \in 0 .. Depth : PopulatedNodeCountAtLevel(n, l) \in Nat
    BY <1>1, PopulatedRec
  <1>9. ASSUME NEW l \in 0 .. Depth, NEW i \in Nat, <<l, i>> \in DOMAIN F[n]
        PROVE  F[n][<<l, i>>] = ReferenceNodes(s)[l][i]
    <2>1. i < PopulatedNodeCountAtLevel(n, l) \/ i >= PopulatedNodeCountAtLevel(n, l)
      BY <1>8, SMTT(120)
    <2> QED BY <1>6, <1>7, <1>9, <2>1 DEF RebuiltTo
  <1>10. DOMAIN F[n] \subseteq (0 .. Depth) \X Nat
    BY <1>6 DEF RebuiltTo
  <1> QED BY <1>9, <1>10 DEF NodesRight, F

-----------------------------------------------------------------------------
(* The frontier of computeCommitmentPrefixRootsV1.                          *)

(* After leaf k the frontier holds, at each level, the last node that is a  *)
(* left child.                                                              *)
FrontierRight(f, t, k) ==
    \A l \in 0 .. Depth - 1 : f[l] = ReferenceNodes(t)[l][2 * (At(k, l) \div 2)]

(* What the climb from leaf k reads of the frontier. *)
FrontierReads(f, t, k) ==
    \A l \in 0 .. Depth - 1 : At(k, l) % 2 = 1 => f[l] = ReferenceNodes(t)[l][At(k, l) - 1]

(* One leaf of the frontier algorithm. *)
LEMMA FrontierStepRef ==
  ASSUME NEW f, NEW t, NEW k \in Nat, Len(t) = k + 1, FrontierReads(f, t, k)
  PROVE  /\ FrontierStep(f, t[k + 1], k).root = ReferenceNodes(t)[Depth][At(k, Depth)]
         /\ FrontierRight(FrontierStep(f, t[k + 1], k).frontier, t, k)
  <1> DEFINE sib == [level \in 0 .. Depth - 1 |->
                       IF At(k, level) % 2 = 0 THEN EmptyNode[level] ELSE f[level]]
             up == Climb(t[k + 1], k, sib)
             g == [level \in 0 .. Depth - 1 |-> IF At(k, level) % 2 = 0 THEN up[level] ELSE f[level]]
  <1>1. FrontierStep(f, t[k + 1], k) = [root |-> up[Depth], frontier |-> g]
    BY DEF FrontierStep
  <1>2. OnPath(up, t, k)
    <2>1. ASSUME NEW l \in 0 .. Depth - 1
          PROVE  /\ At(k, l) % 2 = 0 => sib[l] = EmptyNode[l]
                 /\ At(k, l) % 2 = 1 => sib[l] = ReferenceNodes(t)[l][At(k, l) - 1]
      BY SMTT(120) DEF FrontierReads
    <2> HIDE DEF sib
    <2> QED BY <2>1, NewLeafClimb DEF SiblingsOfLast
  <1> HIDE DEF up, sib
  <1>3. ASSUME NEW l \in 0 .. Depth - 1
        PROVE  g[l] = ReferenceNodes(t)[l][2 * (At(k, l) \div 2)]
    <2>1. l \in 0 .. Depth
      BY Pow2Type
    <2>2. At(k, l) \in Nat
      BY <2>1, AtRec
    <2>3. CASE At(k, l) % 2 = 0
      <3>1. 2 * (At(k, l) \div 2) = At(k, l)
        BY <2>2, <2>3, SMTT(120)
      <3>2. up[l] = ReferenceNodes(t)[l][At(k, l)]
        BY <1>2, <2>1 DEF OnPath
      <3> QED BY <2>3, <3>1, <3>2
    <2>4. CASE At(k, l) % 2 # 0
      <3>1. 2 * (At(k, l) \div 2) = At(k, l) - 1 /\ At(k, l) % 2 = 1
        BY <2>2, <2>4, SMTT(120)
      <3>2. f[l] = ReferenceNodes(t)[l][At(k, l) - 1]
        BY <3>1 DEF FrontierReads
      <3> QED BY <2>4, <3>1, <3>2
    <2> QED BY <2>3, <2>4
  <1>4. FrontierRight(g, t, k)
    <2> HIDE DEF g
    <2> QED BY <1>3 DEF FrontierRight
  <1>5. up[Depth] = ReferenceNodes(t)[Depth][At(k, Depth)]
    BY SMTT(120), <1>2, Pow2Type DEF OnPath
  <1> HIDE DEF g
  <1> QED BY SMTT(120), <1>1, <1>4, <1>5

(* The frontier after one leaf has what the next one reads. *)
LEMMA FrontierCarries ==
  ASSUME NEW p, NEW q, NEW j \in Nat, Len(p) = j + 1, OneMore(p, q), NEW f, FrontierRight(f, p, j)
  PROVE  FrontierReads(f, q, j + 1)
  <1> SUFFICES ASSUME NEW l \in 0 .. Depth - 1, At(j + 1, l) % 2 = 1
               PROVE  f[l] = ReferenceNodes(q)[l][At(j + 1, l) - 1]
    BY DEF FrontierReads
  <1>1. l \in 0 .. Depth /\ j + 1 \in Nat
    BY Pow2Type
  <1>2. At(j, l) \in Nat
    BY <1>1, AtRec
  <1>3. At(j + 1, l) \in Nat
    BY <1>1, AtRec
  <1>4. At(j + 1, l) = At(j, l) \/ At(j + 1, l) = At(j, l) + 1
    BY <1>1, AtNext
  <1> DEFINE i == At(j + 1, l) - 1
  <1>5. i \in Nat /\ i # At(j + 1, l) /\ 2 * (At(j, l) \div 2) = i
    <2>1. ASSUME NEW a \in Nat, NEW b \in Nat, b = a \/ b = a + 1, b % 2 = 1
          PROVE  b - 1 \in Nat /\ b - 1 # b /\ 2 * (a \div 2) = b - 1
      BY <2>1, SMTT(120)
    <2> QED BY <1>2, <1>3, <1>4, <2>1
  <1> HIDE DEF i
  <1>6. f[l] = ReferenceNodes(p)[l][i]
    BY <1>5 DEF FrontierRight
  <1>7. ReferenceNodes(p)[l][i] = ReferenceNodes(q)[l][i]
    BY SMTT(120), <1>1, <1>5, OneMoreLocal
  <1> QED BY <1>6, <1>7 DEF i

(* The roots computed for the export are those of the prefixes. *)
LEMMA PrefixRootsRef ==
  ASSUME NEW V, NEW s \in Seq(V), Len(s) <= MaxMerkleLeaves
  PROVE  \A m \in 1 .. Len(s) : PrefixRoots(s)[m] = ReferenceRoot(SubSeq(s, 1, m))
  <1> DEFINE n == Len(s)
             F == FrontierSteps(s)
             p(m) == SubSeq(s, 1, m)
             Good(m) == /\ F[m].root = ReferenceNodes(p(m))[Depth][At(m - 1, Depth)]
                        /\ FrontierRight(F[m].frontier, p(m), m - 1)
             S == {m \in 0 .. n : m # 0 => Good(m)}
  <1>1. n \in Nat
    BY SMTT(120)
  <1>2. \A m \in 0 .. n - 1 : F[m + 1] = FrontierStep(F[m].frontier, s[m + 1], m)
    BY FrontierRec
  <1>3. \A m \in 0 .. n - 1 : /\ OneMore(p(m), p(m + 1)) /\ Len(p(m)) = m /\ Len(p(m + 1)) = m + 1
                              /\ p(m + 1)[m + 1] = s[m + 1]
    BY PrefixOneMore
  <1>4. PrefixRoots(s) = [m \in 1 .. n |-> F[m].root]
    BY DEF PrefixRoots
  <1> HIDE DEF F, p
  <1>5. 0 \in S
    BY <1>1
  <1>6. ASSUME NEW m \in 0 .. n - 1, m \in S PROVE m + 1 \in S
    <2>1. m \in Nat /\ m + 1 \in 0 .. n /\ (m + 1) - 1 = m
      BY <1>1
    <2>2. FrontierReads(F[m].frontier, p(m + 1), m)
      <3>1. CASE m = 0
        <4>1. \A l \in 0 .. Depth - 1 : At(m, l) = 0
          <5>1. \A x \in Nat : x > 0 => 0 \div x = 0
            BY SMTT(120)
          <5>2. \A l \in 0 .. Depth - 1 : l \in 0 .. Depth
            BY SMTT(120), Pow2Type
          <5> QED BY <3>1, <5>1, <5>2, Pow2Type DEF At
        <4>2. 0 % 2 # 1
          BY SMTT(120)
        <4> QED BY <4>1, <4>2 DEF FrontierReads
      <3>2. CASE m # 0
        <4> DEFINE j == m - 1
        <4>1. j \in Nat /\ m = j + 1
          BY SMTT(120), <2>1, <3>2
        <4> HIDE DEF j
        <4>2. FrontierRight(F[m].frontier, p(m), j)
          BY <1>6, <3>2 DEF j
        <4>3. OneMore(p(m), p(m + 1)) /\ Len(p(m)) = m
          BY <1>3
        <4> DEFINE a == p(m)
                   b == p(m + 1)
                   f == F[m].frontier
        <4>4. OneMore(a, b) /\ Len(a) = j + 1 /\ FrontierRight(f, a, j)
          BY <4>1, <4>2, <4>3
        <4> HIDE DEF a, b, f
        <4>5. FrontierReads(f, b, j + 1)
          BY <4>1, <4>4, FrontierCarries
        <4> QED BY <4>1, <4>5 DEF b, f
      <3> QED BY <3>1, <3>2
    <2>3. Good(m + 1)
      <3> DEFINE f == F[m].frontier
                 b == p(m + 1)
      <3>1. Len(b) = m + 1 /\ F[m + 1] = FrontierStep(f, b[m + 1], m) /\ FrontierReads(f, b, m)
        BY <1>2, <1>3, <2>2
      <3> HIDE DEF f, b
      <3>2. /\ FrontierStep(f, b[m + 1], m).root = ReferenceNodes(b)[Depth][At(m, Depth)]
            /\ FrontierRight(FrontierStep(f, b[m + 1], m).frontier, b, m)
        BY <2>1, <3>1, FrontierStepRef
      <3> QED BY <2>1, <3>1, <3>2 DEF b
    <2> QED BY <2>1, <2>3
  <1>7. \A m \in 0 .. n : m \in S
    <2> HIDE DEF S, n
    <2> QED BY <1>1, <1>5, <1>6, UpTo
  <1>8. ASSUME NEW m \in 1 .. n
        PROVE  PrefixRoots(s)[m] = ReferenceRoot(SubSeq(s, 1, m))
    <2>1. m \in 0 .. n /\ m # 0 /\ m - 1 \in Nat /\ m - 1 < MaxMerkleLeaves
      BY SMTT(120), <1>1, Pow2Type DEF MaxMerkleLeaves
    <2>2. F[m].root = ReferenceNodes(p(m))[Depth][At(m - 1, Depth)]
      BY <1>7, <2>1
    <2>3. At(m - 1, Depth) = 0
      BY <2>1, AtRoot
    <2> QED BY <1>4, <2>2, <2>3 DEF ReferenceRoot, p
  <1> QED BY <1>8

-----------------------------------------------------------------------------
(* Paths.                                                                   *)

(* The sibling of a node is a node. *)
LEMMA SiblingType ==
  ASSUME NEW i \in Nat PROVE Sibling(i) \in Nat
  BY SMTT(120) DEF Sibling

(* The circuits accept a leaf with the right siblings. *)
LEMMA PathAccepted ==
  ASSUME NEW s, Len(s) \in Nat, Len(s) <= MaxMerkleLeaves, NEW i \in 0 .. Len(s) - 1,
         NEW path, SiblingsRight(path, s, i)
  PROVE  PathRoot(s[i + 1], i, path) = ReferenceRoot(s)
  <1>1. i \in Nat /\ i < Len(s)
    OBVIOUS
  <1>2. i < MaxMerkleLeaves
    BY <1>1, Pow2Type DEF MaxMerkleLeaves
  <1> DEFINE c == s[i + 1]
  <1>3. c = ReferenceNodes(s)[0][i]
    BY <1>1, RefNode
  <1> HIDE DEF c
  <1>4. OnPath(Climb(c, i, path), s, i)
    BY <1>1, <1>3, ClimbRef
  <1>5. Climb(c, i, path)[Depth] = ReferenceNodes(s)[Depth][At(i, Depth)]
    BY SMTT(120), <1>4, Pow2Type DEF OnPath
  <1>6. At(i, Depth) = 0
    BY <1>1, <1>2, AtRoot
  <1> QED BY <1>5, <1>6 DEF PathRoot, ReferenceRoot, c

(* The siblings that GetPath reads from a right cache, unless it refuses.   *)
LEMMA StoredPathRight ==
  ASSUME NEW n, NEW s, NodesRight(n, s), Len(s) \in Nat, NEW i \in Nat,
         StoredPathReadable(n, i, Len(s))
  PROVE  SiblingsRight(StoredPath(n, i, Len(s)), s, i)
  <1> SUFFICES ASSUME NEW l \in 0 .. Depth - 1
               PROVE  StoredPath(n, i, Len(s))[l] = ReferenceNodes(s)[l][Sibling(At(i, l))]
    BY DEF SiblingsRight
  <1> DEFINE j == Sibling(At(i, l))
  <1>1. l \in 0 .. Depth
    BY Pow2Type
  <1>2. j \in Nat
    BY <1>1, AtRec, SiblingType
  <1>3. StoredPath(n, i, Len(s))[l] = NodeOrEmpty(n, l, j, Len(s))
    BY DEF StoredPath
  <1>4. NodeReadable(n, l, j, Len(s))
    BY DEF StoredPathReadable
  <1> HIDE DEF j
  <1>5. NodeOrEmpty(n, l, j, Len(s)) = ReferenceNodes(s)[l][j]
    BY SMTT(120), <1>1, <1>2, <1>4, NodeRead
  <1> QED BY <1>3, <1>5 DEF j

(* The siblings that GetCommitmentPathsAtRootV1 takes from rebuilt layers. *)
LEMMA HistoricalPathRight ==
  ASSUME NEW V, NEW s \in Seq(V), NEW i \in Nat
  PROVE  SiblingsRight(HistoricalPath(s, i), s, i)
  <1> SUFFICES ASSUME NEW l \in 0 .. Depth - 1
               PROVE  HistoricalPath(s, i)[l] = ReferenceNodes(s)[l][Sibling(At(i, l))]
    BY DEF SiblingsRight
  <1> DEFINE j == Sibling(At(i, l))
             p == PopulatedNodeCountAtLevel(Len(s), l)
             layer == Layers(s)[l]
  <1>1. l \in 0 .. Depth /\ Len(s) \in Nat
    BY Pow2Type
  <1>2. j \in Nat
    BY <1>1, AtRec, SiblingType
  <1>3. HistoricalPath(s, i)[l] = IF j < Len(layer) THEN layer[j + 1] ELSE EmptyNode[l]
    BY DEF HistoricalPath
  <1>4. Len(layer) = p /\ \A x \in Nat : x < p => layer[x + 1] = ReferenceNodes(s)[l][x]
    BY <1>1, LayersRef
  <1>5. \A x \in Nat : x >= p => ReferenceNodes(s)[l][x] = EmptyNode[l]
    BY <1>1, RefEmpty
  <1>6. p \in Nat
    BY <1>1, PopulatedRec
  <1> HIDE DEF j, p, layer
  <1>7. j < p \/ (j >= p /\ ~ (j < p))
    BY SMTT(120), <1>2, <1>6
  <1> QED BY <1>2, <1>3, <1>4, <1>5, <1>7 DEF j

-----------------------------------------------------------------------------
(* Roots name their leaves.                                                 *)

(* Trees with the same root have the same leaves, the parent hash being     *)
(* injective.                                                               *)
LEMMA RootLeaves ==
  ASSUME NEW s, NEW t, ReferenceRoot(s) = ReferenceRoot(t), NEW k \in Nat, k < MaxMerkleLeaves
  PROVE  ReferenceNodes(s)[0][k] = ReferenceNodes(t)[0][k]
  <1> DEFINE R == ReferenceNodes(s)
             Q == ReferenceNodes(t)
             Same(l) == R[l][At(k, l)] = Q[l][At(k, l)]
             S == {m \in 0 .. Depth : Same(Depth - m)}
  <1>1. /\ \A l \in 0 .. Depth - 1, i \in Nat : R[l + 1][i] = HashNodes(l, R[l][2 * i], R[l][2 * i + 1])
        /\ \A l \in 0 .. Depth - 1, i \in Nat : Q[l + 1][i] = HashNodes(l, Q[l][2 * i], Q[l][2 * i + 1])
    BY ZenonT(120), RefNode
  <1>2. Depth \in Nat
    BY Pow2Type
  <1>3. At(k, Depth) = 0
    BY AtRoot
  <1>4. Same(Depth)
    BY <1>3 DEF ReferenceRoot
  <1> HIDE DEF R, Q
  <1>5. 0 \in S
    <2>1. Depth - 0 = Depth /\ 0 \in 0 .. Depth
      BY <1>2
    <2> QED BY <1>4, <2>1
  <1>6. ASSUME NEW m \in 0 .. Depth - 1, m \in S PROVE m + 1 \in S
    <2> DEFINE l == Depth - (m + 1)
    <2>1. l \in 0 .. Depth - 1 /\ l \in 0 .. Depth /\ Depth - m = l + 1 /\ m + 1 \in 0 .. Depth
      BY <1>2
    <2>2. Same(l + 1)
      BY <1>6, <2>1
    <2> HIDE DEF l
    <2> DEFINE a == At(k, l)
               b == At(k, l + 1)
    <2>3. a \in Nat /\ b = a \div 2
      BY <2>1, AtRec
    <2>4. R[l + 1][b] = Q[l + 1][b]
      BY <2>2
    <2> HIDE DEF a, b
    <2>5. b \in Nat /\ (a = 2 * b \/ a = 2 * b + 1)
      BY <2>3, SMTT(120)
    <2>6. HashNodes(l, R[l][2 * b], R[l][2 * b + 1]) = HashNodes(l, Q[l][2 * b], Q[l][2 * b + 1])
      BY SMTT(120), <1>1, <2>1, <2>4, <2>5
    <2>7. R[l][2 * b] = Q[l][2 * b] /\ R[l][2 * b + 1] = Q[l][2 * b + 1]
      BY <2>6 DEF HashNodes
    <2>8. Same(l)
      BY <2>5, <2>7 DEF a
    <2> QED BY <2>1, <2>8 DEF l
  <1>7. \A m \in 0 .. Depth : m \in S
    <2> HIDE DEF S
    <2> QED BY <1>2, <1>5, <1>6, UpTo
  <1>8. Same(0)
    <2>1. Depth \in 0 .. Depth /\ Depth - Depth = 0
      BY <1>2
    <2> QED BY <1>7, <2>1
  <1>9. At(k, 0) = k
    BY AtRec
  <1> QED BY <1>8, <1>9 DEF R, Q

(* No two prefixes of leaves other than zero have the same root. *)
LEMMA RootsDistinct ==
  ASSUME NEW V, NEW s \in Seq(V), Len(s) <= MaxMerkleLeaves, Zero \notin Range(s),
         NEW m \in 0 .. Len(s), NEW n \in 0 .. Len(s), m < n
  PROVE  ReferenceRoot(SubSeq(s, 1, m)) # ReferenceRoot(SubSeq(s, 1, n))
  <1> SUFFICES ASSUME ReferenceRoot(SubSeq(s, 1, m)) = ReferenceRoot(SubSeq(s, 1, n))
               PROVE  FALSE
    OBVIOUS
  <1> DEFINE p == SubSeq(s, 1, m)
             q == SubSeq(s, 1, n)
  <1>1. m \in Nat /\ m < MaxMerkleLeaves /\ m + 1 \in 1 .. n /\ m + 1 \in 1 .. Len(s)
    BY SMTT(120), Pow2Type DEF MaxMerkleLeaves
  <1>2. Len(p) = m /\ Len(q) = n /\ \A i \in 1 .. n : q[i] = s[i]
    BY SMTT(120)
  <1>3. s[m + 1] \in Range(s)
    <2>1. DOMAIN s = 1 .. Len(s)
      OBVIOUS
    <2> QED BY <1>1, <2>1 DEF Range
  <1> HIDE DEF p, q
  <1>4. ReferenceNodes(p)[0][m] = ReferenceNodes(q)[0][m]
    BY <1>1, RootLeaves DEF p, q
  <1>5. ReferenceNodes(p)[0][m] = Zero
    <2>1. ~ (m < Len(p))
      BY SMTT(120), <1>1, <1>2
    <2> QED BY <1>1, <2>1, RefNode
  <1>6. ReferenceNodes(q)[0][m] = s[m + 1]
    <2>1. m < Len(q) /\ q[m + 1] = s[m + 1]
      BY <1>1, <1>2
    <2> QED BY <1>1, <2>1, RefNode
  <1> QED BY <1>3, <1>4, <1>5, <1>6

(* The root of the empty tree. *)
LEMMA EmptyRoot ==
  ASSUME NEW s, Len(s) = 0 PROVE ReferenceRoot(s) = EmptyNode[Depth]
  <1>1. Depth \in 0 .. Depth
    BY SMTT(120), Pow2Type
  <1>2. PopulatedNodeCountAtLevel(Len(s), Depth) = 0
    BY <1>1, PopulatedAt
  <1>3. 0 >= PopulatedNodeCountAtLevel(Len(s), Depth)
    BY SMTT(120), <1>2
  <1> QED BY SMTT(120), <1>1, <1>3, RefEmpty DEF ReferenceRoot

-----------------------------------------------------------------------------
(* The inductive invariant.                                                 *)

(* Distinct leaves other than zero, within the capacity. *)
LeavesRight(s) ==
    /\ s \in Seq(Commitments) /\ Len(s) <= MaxMerkleLeaves
    /\ IsInjective(s) /\ Zero \notin Range(s)

(* The index of each commitment is its position, and there is no other. *)
IndexRight(ci, s) ==
    DOMAIN ci = Range(s) /\ \A i \in 1 .. Len(s) : ci[s[i]] = i - 1

(* The root of the first n leaves. *)
RootAt(s, n) == ReferenceRoot(SubSeq(s, 1, n))

(* One snapshot per non-empty prefix, under its root. *)
RootsRight(sn, hr, s) ==
    /\ DOMAIN sn = {RootAt(s, n) : n \in 1 .. Len(s)}
    /\ DOMAIN hr = DOMAIN sn
    /\ \A n \in 1 .. Len(s) : /\ sn[RootAt(s, n)].leafCount = n
                              /\ sn[RootAt(s, n)].height = hr[RootAt(s, n)]

TreeInv ==
    /\ LeavesRight(treeLeaves)
    /\ NodesRight(nodes, treeLeaves)
    /\ IndexRight(commitmentIndex, treeLeaves)
    /\ RootsRight(snapshots, historicalRoot, treeLeaves)
    /\ blockHeight \in Nat

(* What appending a leaf does to the sequence. *)
LEMMA AppendShape ==
  ASSUME NEW V, NEW s \in Seq(V), NEW c \in V
  PROVE  /\ Append(s, c) \in Seq(V) /\ OneMore(s, Append(s, c))
         /\ Len(s) \in Nat /\ Len(Append(s, c)) = Len(s) + 1
         /\ Append(s, c)[Len(s) + 1] = c
         /\ \A i \in 1 .. Len(s) : Append(s, c)[i] = s[i]
         /\ Range(Append(s, c)) = Range(s) \cup {c}
  <1> DEFINE t == Append(s, c)
  <1>1. /\ t \in Seq(V) /\ Len(s) \in Nat /\ Len(t) = Len(s) + 1
        /\ t[Len(s) + 1] = c /\ \A i \in 1 .. Len(s) : t[i] = s[i]
        /\ DOMAIN s = 1 .. Len(s) /\ DOMAIN t = 1 .. Len(t)
    BY SMTT(120)
  <1> HIDE DEF t
  <1>2. OneMore(s, t)
    BY <1>1 DEF OneMore
  <1>3. \A i \in 1 .. Len(t) : i \in 1 .. Len(s) \/ i = Len(s) + 1
    BY SMTT(120), <1>1
  <1>4. (\A i \in 1 .. Len(s) : i \in 1 .. Len(t)) /\ Len(s) + 1 \in 1 .. Len(t)
    BY <1>1
  <1>5. Range(t) = Range(s) \cup {c}
    <2>1. Range(t) \subseteq Range(s) \cup {c}
      BY <1>1, <1>3 DEF Range
    <2>2. Range(s) \subseteq Range(t)
      BY <1>1, <1>4 DEF Range
    <2>3. c \in Range(t)
      BY <1>1, <1>4 DEF Range
    <2> QED BY <2>1, <2>2, <2>3
  <1> QED BY <1>1, <1>2, <1>5 DEF t

(* A new commitment other than zero keeps the leaves distinct. *)
LEMMA AppendLeaves ==
  ASSUME NEW s, LeavesRight(s), NEW c \in Commitments, c # Zero, c \notin Range(s),
         Len(s) + 1 <= MaxMerkleLeaves
  PROVE  LeavesRight(Append(s, c))
  <1> DEFINE t == Append(s, c)
  <1>1. s \in Seq(Commitments) /\ IsInjective(s) /\ Zero \notin Range(s)
    BY DEF LeavesRight
  <1>2. /\ t \in Seq(Commitments) /\ Len(s) \in Nat /\ Len(t) = Len(s) + 1
        /\ t[Len(s) + 1] = c /\ \A i \in 1 .. Len(s) : t[i] = s[i]
        /\ Range(t) = Range(s) \cup {c}
    BY SMTT(120), <1>1, AppendShape
  <1>3. DOMAIN s = 1 .. Len(s) /\ DOMAIN t = 1 .. Len(t)
    BY SMTT(120), <1>1, <1>2
  <1> HIDE DEF t
  <1>4. \A i \in 1 .. Len(t) : i \in 1 .. Len(s) \/ i = Len(s) + 1
    BY SMTT(120), <1>2
  <1>5. \A i \in 1 .. Len(s) : s[i] # c
    BY <1>3 DEF Range
  <1>6. \A i, j \in 1 .. Len(s) : s[i] = s[j] => i = j
    BY <1>1, <1>3 DEF IsInjective
  <1>7. \A i, j \in 1 .. Len(t) : t[i] = t[j] => i = j
    BY <1>2, <1>4, <1>5, <1>6
  <1>8. IsInjective(t)
    BY <1>3, <1>7 DEF IsInjective
  <1> QED BY <1>1, <1>2, <1>8 DEF LeavesRight, t

(* setCommitmentIndex for the new leaf. *)
LEMMA AppendIndex ==
  ASSUME NEW s \in Seq(Commitments), NEW c \in Commitments, c \notin Range(s), NEW ci, IndexRight(ci, s)
  PROVE  IndexRight(With(ci, c, Len(s)), Append(s, c))
  <1> DEFINE t == Append(s, c)
             d == With(ci, c, Len(s))
  <1>1. /\ Len(s) \in Nat /\ Len(t) = Len(s) + 1
        /\ t[Len(s) + 1] = c /\ \A i \in 1 .. Len(s) : t[i] = s[i]
        /\ Range(t) = Range(s) \cup {c}
    BY SMTT(120), AppendShape
  <1>2. DOMAIN ci = Range(s) /\ \A i \in 1 .. Len(s) : ci[s[i]] = i - 1
    BY DEF IndexRight
  <1>3. /\ DOMAIN d = Range(s) \cup {c} /\ d[c] = Len(s)
        /\ \A x \in Range(s) : d[x] = ci[x]
    BY <1>2 DEF With
  <1>4. \A i \in 1 .. Len(s) : s[i] \in Range(s)
    <2>1. DOMAIN s = 1 .. Len(s)
      BY SMTT(120)
    <2> QED BY <2>1 DEF Range
  <1> HIDE DEF t, d
  <1>5. ASSUME NEW i \in 1 .. Len(t) PROVE d[t[i]] = i - 1
    <2>1. CASE i \in 1 .. Len(s)
      BY ZenonT(120), <1>1, <1>2, <1>3, <1>4, <2>1
    <2>2. CASE i = Len(s) + 1
      BY SMTT(120), <1>1, <1>3, <2>2
    <2> QED BY SMTT(120), <1>1, <2>1, <2>2
  <1> QED BY ZenonT(120), <1>1, <1>3, <1>5 DEF IndexRight, t, d

(* The rebuild writes the index of every leaf again. *)
LEMMA EnsuredIndexRight ==
  ASSUME LeavesRight(treeLeaves), IndexRight(commitmentIndex, treeLeaves)
  PROVE  IndexRight(EnsuredIndex, treeLeaves)
  <1> DEFINE s == treeLeaves
  <1>1. CASE treeLeaves = <<>> \/ RootCached
    BY <1>1 DEF EnsuredIndex
  <1>2. CASE ~ (treeLeaves = <<>> \/ RootCached)
    <2>1. /\ DOMAIN commitmentIndex = Range(s) /\ DOMAIN s = 1 .. Len(s)
          /\ \A i, j \in DOMAIN s : s[i] = s[j] => i = j
      BY SMTT(120) DEF IndexRight, LeavesRight, IsInjective
    <2> DEFINE at(c) == CHOOSE i \in DOMAIN s : s[i] = c
               E == [c \in DOMAIN commitmentIndex \cup Range(s) |->
                       IF c \in Range(s) THEN at(c) - 1 ELSE commitmentIndex[c]]
    <2>2. EnsuredIndex = E
      BY <1>2 DEF EnsuredIndex
    <2>3. \A i \in DOMAIN s : s[i] \in Range(s)
      BY DEF Range
    <2>4. ASSUME NEW i \in DOMAIN s PROVE at(s[i]) = i
      <3>1. at(s[i]) \in DOMAIN s /\ s[at(s[i])] = s[i]
        BY ZenonT(120)
      <3> HIDE DEF at
      <3> QED BY <2>1, <3>1
    <2> HIDE DEF at
    <2>5. DOMAIN E = Range(s) /\ \A i \in DOMAIN s : E[s[i]] = i - 1
      BY <2>1, <2>3, <2>4
    <2> HIDE DEF E
    <2> QED BY <2>1, <2>2, <2>5 DEF IndexRight
  <1> QED BY <1>1, <1>2

(* The cache an append or a path query works on. *)
LEMMA EnsuredNodesRight ==
  ASSUME LeavesRight(treeLeaves), NodesRight(nodes, treeLeaves)
  PROVE  NodesRight(EnsuredNodes, treeLeaves)
  <1>1. treeLeaves \in Seq(Commitments)
    BY DEF LeavesRight
  <1>2. NodesRight(RebuiltNodes, treeLeaves)
    BY <1>1, RebuiltRight DEF RebuiltNodes
  <1> QED BY <1>2 DEF EnsuredNodes

(* The prefixes after an append: those before it and the whole. *)
LEMMA AppendPrefixes ==
  ASSUME NEW V, NEW s \in Seq(V), NEW c \in V
  PROVE  /\ \A n \in 0 .. Len(s) : SubSeq(Append(s, c), 1, n) = SubSeq(s, 1, n)
         /\ SubSeq(Append(s, c), 1, Len(s) + 1) = Append(s, c)
  <1> DEFINE t == Append(s, c)
  <1>1. /\ t \in Seq(V) /\ Len(s) \in Nat /\ Len(t) = Len(s) + 1
        /\ \A i \in 1 .. Len(s) : t[i] = s[i]
    BY SMTT(120), AppendShape
  <1> HIDE DEF t
  <1>2. ASSUME NEW n \in 0 .. Len(s) PROVE SubSeq(t, 1, n) = SubSeq(s, 1, n)
    <2> DEFINE a == SubSeq(t, 1, n)
               b == SubSeq(s, 1, n)
    <2>1. n \in Nat /\ n <= Len(s) /\ n <= Len(t)
      BY SMTT(120), <1>1
    <2>2. a \in Seq(V) /\ Len(a) = n /\ \A i \in 1 .. n : a[i] = t[i]
      BY <1>1, <2>1, SMTT(120)
    <2>3. b \in Seq(V) /\ Len(b) = n /\ \A i \in 1 .. n : b[i] = s[i]
      BY <1>1, <2>1, SMTT(120)
    <2>4. \A i \in 1 .. n : t[i] = s[i]
      BY SMTT(120), <1>1, <2>1
    <2> HIDE DEF a, b
    <2>5. a = b
      BY <2>2, <2>3, <2>4, SMTT(120)
    <2> QED BY <2>5 DEF a, b
  <1>3. SubSeq(t, 1, Len(t)) = t
    BY <1>1, SMTT(120)
  <1> QED BY <1>1, <1>2, <1>3 DEF t

(* setHistoricalRoot and setMerkleRootSnapshot for the new root, which no   *)
(* earlier prefix has.                                                      *)
LEMMA AppendRoots ==
  ASSUME NEW s \in Seq(Commitments), NEW c \in Commitments, LeavesRight(Append(s, c)),
         NEW sn, NEW hr, RootsRight(sn, hr, s),
         NEW snap, NEW h, snap.leafCount = Len(s) + 1, snap.height = h,
         NEW root, root = ReferenceRoot(Append(s, c))
  PROVE  RootsRight(With(sn, root, snap), With(hr, root, h), Append(s, c))
  <1> DEFINE t == Append(s, c)
             k == Len(s)
             sn2 == With(sn, root, snap)
             hr2 == With(hr, root, h)
  <1>1. t \in Seq(Commitments) /\ k \in Nat /\ Len(t) = k + 1
    BY SMTT(120), AppendShape
  <1>2. /\ \A n \in 1 .. k : RootAt(t, n) = RootAt(s, n)
        /\ RootAt(t, k + 1) = root
    <2>1. \A n \in 1 .. k : n \in 0 .. k
      BY SMTT(120), <1>1
    <2> QED BY <2>1, AppendPrefixes DEF RootAt
  <1>3. ASSUME NEW n \in 1 .. k PROVE RootAt(t, n) # root
    <2>1. n \in 0 .. Len(t) /\ k + 1 \in 0 .. Len(t) /\ n < k + 1
      BY <1>1
    <2>2. Len(t) <= MaxMerkleLeaves /\ Zero \notin Range(t)
      BY DEF LeavesRight
    <2> HIDE DEF t, k
    <2>3. ReferenceRoot(SubSeq(t, 1, n)) # ReferenceRoot(SubSeq(t, 1, k + 1))
      BY <1>1, <2>1, <2>2, RootsDistinct
    <2> QED BY <1>2, <2>3 DEF RootAt
  <1>4. /\ DOMAIN sn = {RootAt(s, n) : n \in 1 .. k} /\ DOMAIN hr = DOMAIN sn
        /\ \A n \in 1 .. k : /\ sn[RootAt(s, n)].leafCount = n
                             /\ sn[RootAt(s, n)].height = hr[RootAt(s, n)]
    BY DEF RootsRight
  <1>5. /\ DOMAIN sn2 = DOMAIN sn \cup {root} /\ sn2[root] = snap
        /\ DOMAIN hr2 = DOMAIN hr \cup {root} /\ hr2[root] = h
        /\ \A x \in DOMAIN sn : x # root => sn2[x] = sn[x]
        /\ \A x \in DOMAIN hr : x # root => hr2[x] = hr[x]
    BY DEF With
  <1> HIDE DEF t, k, sn2, hr2
  <1>6. \A n \in 1 .. Len(t) : n \in 1 .. k \/ n = k + 1
    BY SMTT(120), <1>1
  <1>7. (\A n \in 1 .. k : n \in 1 .. Len(t)) /\ k + 1 \in 1 .. Len(t)
    BY <1>1
  <1>8. DOMAIN sn2 = {RootAt(t, n) : n \in 1 .. Len(t)}
    <2>1. ASSUME NEW x \in DOMAIN sn2 PROVE \E n \in 1 .. Len(t) : x = RootAt(t, n)
      BY <1>2, <1>4, <1>5, <1>7
    <2>2. ASSUME NEW n \in 1 .. Len(t) PROVE RootAt(t, n) \in DOMAIN sn2
      BY <1>2, <1>4, <1>5, <1>6
    <2> QED BY <2>1, <2>2
  <1>9. ASSUME NEW n \in 1 .. Len(t)
        PROVE  /\ sn2[RootAt(t, n)].leafCount = n
               /\ sn2[RootAt(t, n)].height = hr2[RootAt(t, n)]
    <2>1. CASE n \in 1 .. k
      <3> DEFINE x == RootAt(t, n)
      <3>1. x # root /\ x = RootAt(s, n)
        BY <1>2, <1>3, <2>1
      <3>2. x \in DOMAIN sn /\ x \in DOMAIN hr
        BY <1>4, <2>1, <3>1
      <3>3. sn2[x] = sn[x] /\ hr2[x] = hr[x]
        BY <1>5, <3>1, <3>2
      <3>4. sn[x].leafCount = n /\ sn[x].height = hr[x]
        BY <1>4, <2>1, <3>1
      <3> QED BY <3>3, <3>4
    <2>2. CASE n = k + 1
      <3>1. RootAt(t, n) = root
        BY <1>2, <2>2
      <3>2. sn2[root] = snap /\ hr2[root] = h /\ snap.leafCount = k + 1 /\ snap.height = h
        BY <1>5 DEF k
      <3> QED BY <2>2, <3>1, <3>2
    <2> QED BY <1>6, <2>1, <2>2
  <1>10. RootsRight(sn2, hr2, t)
    BY <1>4, <1>5, <1>8, <1>9 DEF RootsRight
  <1> QED BY <1>10 DEF sn2, hr2, t

(* The empty tree. *)
LEMMA InitTreeInv ==
  ASSUME TreeInit PROVE TreeInv
  <1>1. treeLeaves = << >> /\ Len(treeLeaves) = 0 /\ DOMAIN treeLeaves = {}
    BY DEF TreeInit
  <1>2. Range(treeLeaves) = {}
    BY <1>1 DEF Range
  <1>3. 1 .. Len(treeLeaves) = {}
    BY SMTT(120), <1>1
  <1>4. LeavesRight(treeLeaves)
    <2>1. treeLeaves \in Seq(Commitments)
      BY <1>1
    <2>2. Len(treeLeaves) <= MaxMerkleLeaves
      BY <1>1, Pow2Type DEF MaxMerkleLeaves
    <2>3. IsInjective(treeLeaves)
      BY <1>1 DEF IsInjective
    <2> QED BY <1>2, <2>1, <2>2, <2>3 DEF LeavesRight
  <1>5. DOMAIN nodes = {} /\ DOMAIN commitmentIndex = {} /\ DOMAIN snapshots = {} /\ DOMAIN historicalRoot = {}
    BY DEF TreeInit
  <1>6. NodesRight(nodes, treeLeaves)
    BY <1>5 DEF NodesRight
  <1>7. IndexRight(commitmentIndex, treeLeaves)
    BY <1>2, <1>3, <1>5 DEF IndexRight
  <1>8. RootsRight(snapshots, historicalRoot, treeLeaves)
    BY <1>3, <1>5 DEF RootsRight
  <1>9. blockHeight \in Nat
    BY DEF TreeInit
  <1> QED BY <1>4, <1>6, <1>7, <1>8, <1>9 DEF TreeInv

(* An accepted append keeps the invariant. *)
LEMMA AppendKeepsInv ==
  ASSUME TreeInv, NEW c \in Commitments, AppendCommitment(c)
  PROVE  TreeInv'
  <1> DEFINE s == treeLeaves
             t == Append(s, c)
             k == Len(s)
             N == EnsuredNodes
             up == PathUp(N, c, k, k)
             root == up[Depth]
             snap == [leafCount |-> k + 1, height |-> blockHeight]
  <1>1. /\ LeavesRight(s) /\ NodesRight(nodes, s) /\ IndexRight(commitmentIndex, s)
        /\ RootsRight(snapshots, historicalRoot, s) /\ blockHeight \in Nat
    BY DEF TreeInv
  <1>2. /\ c # Zero /\ c \notin DOMAIN commitmentIndex /\ k + 1 <= MaxMerkleLeaves
        /\ AppendPathReadable(N, k)
    BY DEF AppendCommitment, Appendable, EnsureCanAppendCommitments
  <1>3. /\ treeLeaves' = t /\ commitmentIndex' = With(EnsuredIndex, c, k)
        /\ nodes' = WritePath(N, c, k, k)
        /\ historicalRoot' = With(historicalRoot, root, blockHeight)
        /\ snapshots' = With(snapshots, root, snap) /\ blockHeight' = blockHeight
    BY DEF AppendCommitment
  <1>4. c \notin Range(s) /\ s \in Seq(Commitments)
    BY <1>1, <1>2 DEF IndexRight, LeavesRight
  <1>5. LeavesRight(t)
    BY <1>1, <1>2, <1>4, AppendLeaves
  <1>6. OneMore(s, t) /\ t[k + 1] = c /\ k \in Nat
    BY SMTT(120), <1>4, AppendShape
  <1>7. NodesRight(N, s)
    BY <1>1, EnsuredNodesRight
  <1>8. NodesRight(WritePath(N, c, k, k), t) /\ OnPath(up, t, k)
    <2> HIDE DEF N, t
    <2>1. NodesRight(WritePath(N, t[k + 1], k, k), t) /\ OnPath(PathUp(N, t[k + 1], k, k), t, k)
      <3> HIDE DEF k
      <3>1. k = Len(s)
        BY DEF k
      <3> HIDE DEF s
      <3> QED BY <1>2, <1>6, <1>7, <3>1, AppendedNodes
    <2> QED BY <1>6, <2>1
  <1>9. root = ReferenceRoot(t)
    <2>1. k < MaxMerkleLeaves
      BY SMTT(120), <1>2, <1>6, Pow2Type DEF MaxMerkleLeaves
    <2>2. At(k, Depth) = 0
      BY <1>6, <2>1, AtRoot
    <2>3. up[Depth] = ReferenceNodes(t)[Depth][At(k, Depth)]
      BY SMTT(120), <1>8, Pow2Type DEF OnPath
    <2> QED BY <2>2, <2>3 DEF ReferenceRoot
  <1>10. IndexRight(With(EnsuredIndex, c, k), t)
    <2>1. IndexRight(EnsuredIndex, s)
      BY <1>1, EnsuredIndexRight
    <2> QED BY <1>4, <2>1, AppendIndex
  <1>11. RootsRight(With(snapshots, root, snap), With(historicalRoot, root, blockHeight), t)
    <2>1. snap.leafCount = Len(s) + 1 /\ snap.height = blockHeight
      OBVIOUS
    <2> HIDE DEF root, snap
    <2> QED BY <1>1, <1>4, <1>5, <1>9, <2>1, AppendRoots
  <1> HIDE DEF t, N, up, root, snap
  <1> QED BY ZenonT(120), <1>1, <1>3, <1>5, <1>8, <1>10, <1>11 DEF TreeInv

(* Every step keeps the invariant. *)
LEMMA StepKeepsTreeInv ==
  ASSUME TreeInv, [TreeNext]_treeVars PROVE TreeInv'
  <1>1. CASE \E c \in Commitments : AppendCommitment(c)
    BY <1>1, AppendKeepsInv
  <1>2. CASE NextBlock
    <2>1. blockHeight' \in Nat
      BY <1>2 DEF NextBlock, TreeInv
    <2> QED BY <1>2, <2>1 DEF NextBlock, TreeInv
  <1>3. CASE \E lost \in SUBSET (DOMAIN nodes) : LoseNodes(lost)
    <2>1. PICK lost \in SUBSET (DOMAIN nodes) : LoseNodes(lost)
      BY <1>3
    <2>2. nodes' = [q \in DOMAIN nodes \ lost |-> nodes[q]]
      BY <2>1 DEF LoseNodes
    <2>3. NodesRight(nodes', treeLeaves)
      <3>1. NodesRight(nodes, treeLeaves)
        BY DEF TreeInv
      <3> QED BY <2>2, <3>1 DEF NodesRight
    <2> QED BY <2>1, <2>3 DEF LoseNodes, TreeInv
  <1>4. CASE UNCHANGED treeVars
    BY <1>4 DEF treeVars, TreeInv
  <1> QED BY <1>1, <1>2, <1>3, <1>4 DEF TreeNext

-----------------------------------------------------------------------------
(* The invariant gives CachedRootIsTheRoot. *)
LEMMA InvCachedRoot ==
  ASSUME TreeInv PROVE CachedRootIsTheRoot
  <1>1. treeLeaves \in Seq(Commitments) /\ NodesRight(nodes, treeLeaves)
    BY DEF TreeInv, LeavesRight
  <1>2. RecalculateRoot(treeLeaves) = ReferenceRoot(treeLeaves)
    BY <1>1, RecalculatedRoot
  <1>3. Depth \in 0 .. Depth /\ 0 \in Nat
    BY Pow2Type
  <1>4. RootCached => nodes[<<Depth, 0>>] = ReferenceNodes(treeLeaves)[Depth][0]
    BY <1>1, <1>3 DEF RootCached, NodesRight
  <1> QED BY <1>2, <1>4 DEF CachedRootIsTheRoot, ReferenceRoot

(* The invariant gives PathsVerify. *)
LEMMA InvPaths ==
  ASSUME TreeInv PROVE PathsVerify
  <1> DEFINE s == treeLeaves
  <1>1. /\ s \in Seq(Commitments) /\ Len(s) \in Nat /\ Len(s) <= MaxMerkleLeaves
        /\ LeavesRight(s) /\ NodesRight(nodes, s) /\ IndexRight(commitmentIndex, s)
    BY DEF TreeInv, LeavesRight
  <1>2. NodesRight(EnsuredNodes, s)
    BY <1>1, EnsuredNodesRight
  <1> SUFFICES ASSUME NEW i \in 0 .. Len(s) - 1
               PROVE  /\ commitmentIndex[s[i + 1]] = i
                      /\ StoredPathReadable(EnsuredNodes, i, Len(s)) =>
                           PathRoot(s[i + 1], i, StoredPath(EnsuredNodes, i, Len(s))) = ReferenceRoot(s)
                      /\ \A n \in i + 1 .. Len(s) :
                           PathRoot(s[i + 1], i, HistoricalPath(Prefix(n), i)) = ReferenceRoot(Prefix(n))
    BY ZenonT(120) DEF PathsVerify
  <1>3. i \in Nat /\ i + 1 \in 1 .. Len(s)
    BY <1>1
  <1>4. commitmentIndex[s[i + 1]] = i
    <2>1. commitmentIndex[s[i + 1]] = (i + 1) - 1
      BY <1>1, <1>3 DEF IndexRight
    <2> QED BY <1>3, <2>1
  <1>5. ASSUME StoredPathReadable(EnsuredNodes, i, Len(s))
        PROVE  PathRoot(s[i + 1], i, StoredPath(EnsuredNodes, i, Len(s))) = ReferenceRoot(s)
    <2> DEFINE N == EnsuredNodes
    <2>1. NodesRight(N, s) /\ StoredPathReadable(N, i, Len(s))
      BY <1>2, <1>5
    <2> HIDE DEF N, s
    <2>2. SiblingsRight(StoredPath(N, i, Len(s)), s, i)
      BY <1>1, <1>3, <2>1, StoredPathRight
    <2>3. PathRoot(s[i + 1], i, StoredPath(N, i, Len(s))) = ReferenceRoot(s)
      BY <1>1, <2>2, PathAccepted
    <2> QED BY <2>3 DEF N
  <1>6. ASSUME NEW n \in i + 1 .. Len(s)
        PROVE  PathRoot(s[i + 1], i, HistoricalPath(Prefix(n), i)) = ReferenceRoot(Prefix(n))
    <2> DEFINE p == SubSeq(s, 1, n)
    <2>1. n \in Nat /\ n <= Len(s) /\ i + 1 \in 1 .. n /\ i \in 0 .. n - 1
      BY SMTT(120), <1>1, <1>3
    <2>2. p \in Seq(Commitments) /\ Len(p) = n /\ \A j \in 1 .. n : p[j] = s[j]
      BY <1>1, <2>1, SMTT(120)
    <2>3. Len(p) <= MaxMerkleLeaves
      BY SMTT(120), <1>1, <2>1, <2>2, Pow2Type DEF MaxMerkleLeaves
    <2> HIDE DEF p
    <2>4. SiblingsRight(HistoricalPath(p, i), p, i)
      BY <1>3, <2>2, HistoricalPathRight
    <2>5. PathRoot(p[i + 1], i, HistoricalPath(p, i)) = ReferenceRoot(p)
      BY <2>1, <2>2, <2>3, <2>4, PathAccepted
    <2>6. p[i + 1] = s[i + 1]
      BY <2>1, <2>2
    <2>7. Prefix(n) = p
      BY DEF Prefix, p
    <2> QED BY <2>5, <2>6, <2>7
  <1> QED BY <1>4, <1>5, <1>6

(* The invariant gives RootsArePrefixes. *)
LEMMA InvRoots ==
  ASSUME TreeInv PROVE RootsArePrefixes
  <1> DEFINE s == treeLeaves
             n == Len(s)
             D == DOMAIN snapshots
             f == [m \in 1 .. n |-> RootAt(s, m)]
  <1>1. /\ s \in Seq(Commitments) /\ n \in Nat /\ n <= MaxMerkleLeaves /\ Zero \notin Range(s)
    BY DEF TreeInv, LeavesRight
  <1>2. /\ D = {RootAt(s, m) : m \in 1 .. n}
        /\ \A m \in 1 .. n : /\ snapshots[RootAt(s, m)].leafCount = m
                             /\ snapshots[RootAt(s, m)].height = historicalRoot[RootAt(s, m)]
    BY DEF TreeInv, RootsRight
  <1>3. \A m \in 1 .. n : PrefixRoots(s)[m] = RootAt(s, m)
    BY <1>1, PrefixRootsRef DEF RootAt
  <1>4. \A a, b \in 0 .. n : a < b => RootAt(s, a) # RootAt(s, b)
    BY <1>1, RootsDistinct DEF RootAt
  <1>5. EmptyNode[Depth] \notin D
    <2>1. RootAt(s, 0) = EmptyNode[Depth]
      <3>1. Len(SubSeq(s, 1, 0)) = 0
        BY <1>1
      <3> QED BY <3>1, EmptyRoot DEF RootAt
    <2>2. \A m \in 1 .. n : 0 \in 0 .. n /\ m \in 0 .. n /\ 0 < m
      BY <1>1
    <2> HIDE DEF D, n, s
    <2> QED BY SMTT(120), <1>2, <1>4, <2>1, <2>2
  <1>6. Cardinality(D) = n
    <2>1. f \in Bijection(1 .. n, D)
      <3>1. \A a, b \in 1 .. n : f[a] = f[b] => a = b
        <4> SUFFICES ASSUME NEW a \in 1 .. n, NEW b \in 1 .. n, RootAt(s, a) = RootAt(s, b)
                     PROVE  a = b
          OBVIOUS
        <4>1. a \in 0 .. n /\ b \in 0 .. n /\ (a < b \/ b < a \/ a = b)
          BY <1>1
        <4> HIDE DEF n, s
        <4> QED BY <1>4, <4>1
      <3>2. f \in [1 .. n -> D]
        BY <1>2
      <3>3. \A x \in D : \E m \in 1 .. n : f[m] = x
        BY <1>2
      <3> HIDE DEF f, D, n
      <3> QED BY <3>1, <3>2, <3>3 DEF Bijection, Injection, Surjection, IsInjective
    <2>2. ExistsBijection(1 .. n, D)
      BY <2>1 DEF ExistsBijection
    <2>3. IsFiniteSet(1 .. n) /\ Cardinality(1 .. n) = n
      BY SMTT(120), <1>1, FS_Interval
    <2> HIDE DEF D, n
    <2> QED BY <2>2, <2>3, FS_Bijection
  <1>7. ASSUME NEW m \in 1 .. n
        PROVE  /\ ReferenceRoot(Prefix(m)) \in D
               /\ snapshots[ReferenceRoot(Prefix(m))].leafCount = m
               /\ snapshots[ReferenceRoot(Prefix(m))].height = historicalRoot[ReferenceRoot(Prefix(m))]
               /\ PrefixRoots(s)[m] = ReferenceRoot(Prefix(m))
    <2>1. ReferenceRoot(Prefix(m)) = RootAt(s, m)
      BY DEF Prefix, RootAt
    <2> QED BY <1>2, <1>3, <2>1
  <1> QED BY <1>5, <1>6, <1>7 DEF RootsArePrefixes

-----------------------------------------------------------------------------
(* The invariant holds in every reachable state, whatever nodes restores    *)
(* lose in between.                                                         *)
THEOREM TreeSafety == TreeSpec => []TreeInv
  <1>1. TreeInit => TreeInv
    BY InitTreeInv
  <1>2. TreeInv /\ [TreeNext]_treeVars => TreeInv'
    BY StepKeepsTreeInv
  <1> QED BY <1>1, <1>2, PTL DEF TreeSpec

(* The stores of the tree keep their types. *)
THEOREM TreeTyped == TreeSpec => []TreeTypeOK
  <1>1. TreeInv => TreeTypeOK
    BY DEF TreeInv, TreeTypeOK, LeavesRight, NodesRight, IndexRight, RootsRight
  <1> QED BY <1>1, TreeSafety, PTL

(* appendCommitment, the rebuild of ensureIncrementalTreeState and          *)
(* RecalculateRoot agree with the full tree at every depth: a cached root   *)
(* is the root of the leaves, also after lost nodes.                        *)
THEOREM CachedRootSafe == TreeSpec => []CachedRootIsTheRoot
  <1>1. TreeInv => CachedRootIsTheRoot
    BY InvCachedRoot
  <1> QED BY <1>1, TreeSafety, PTL

(* The snapshots kept by setMerkleRootSnapshot are the roots of the         *)
(* non-empty prefixes, one each, and computeCommitmentPrefixRootsV1 derives *)
(* the same roots.                                                          *)
THEOREM RootsArePrefixesSafe == TreeSpec => []RootsArePrefixes
  <1>1. TreeInv => RootsArePrefixes
    BY InvRoots
  <1> QED BY <1>1, TreeSafety, PTL

(* Every path that GetPath, getStoredIncrementalPathV1 or                   *)
(* GetCommitmentPathsAtRootV1 serves satisfies the membership relation of   *)
(* the circuits for the root it is served under.                            *)
THEOREM PathsVerifySafe == TreeSpec => []PathsVerify
  <1>1. TreeInv => PathsVerify
    BY InvPaths
  <1> QED BY <1>1, TreeSafety, PTL
=============================================================================
