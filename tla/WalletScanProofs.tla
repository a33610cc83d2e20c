-------------------------- MODULE WalletScanProofs --------------------------
(***************************************************************************)
(* Proofs about WalletScan, for every set of event types and every size of *)
(* their records, every limit of a page, every filter and every lag of the *)
(* replicas: every page of the scan query passes the checks of its client, *)
(* and the notes a wallet stores are exactly the owned outputs up to the   *)
(* cursor it stores.  The argument follows the two loops of the query: a   *)
(* page lists the outputs between its cursors and no other, and shows by   *)
(* its summaries why the cursor may move where there are none.             *)
(***************************************************************************)
EXTENDS WalletScan, FiniteSetTheorems, WellFoundedInduction, TLAPS

(* The provers tried on a leaf that names none, and their time limits. *)
USE ZenonT(120), SMTT(120)

-----------------------------------------------------------------------------
(* Induction over 0 .. N: a set that contains 0 and with i also i + 1 is    *)
(* all of it.                                                               *)
LEMMA UpTo ==
  ASSUME NEW N \in Nat, NEW S, 0 \in S, \A i \in 0 .. N - 1 : i \in S => i + 1 \in S
  PROVE  \A i \in 0 .. N : i \in S
  <1> SUFFICES ASSUME NEW j \in 0 .. N, j \notin S PROVE FALSE
    OBVIOUS
  <1> DEFINE T == {i \in 0 .. N : i \notin S}
  <1>1. T \subseteq Nat /\ T # {}
    BY SMTT(120)
  <1>2. PICK x \in T : \A y \in T : ~ (<<y, x>> \in OpToRel(<, Nat))
    <2> HIDE DEF T
    <2> QED BY <1>1, NatLessThanWellFounded, WFMin
  <1>3. x # 0 /\ x \in Nat /\ x - 1 \in 0 .. N - 1 /\ x - 1 \in Nat
    BY SMTT(120)
  <1>4. x - 1 \in T
    BY <1>3, SMTT(120)
  <1>5. <<x - 1, x>> \in OpToRel(<, Nat)
    BY <1>3, SMTT(120) DEF OpToRel
  <1> QED BY <1>2, <1>4, <1>5

(* The recursion of AddOutputs. *)
LEMMA AddOutputsRec ==
  ASSUME NEW page, NEW e, NEW start, OutputCount(e) \in Nat PROVE
  /\ AddOutputs(page, e, start)[0] = page
  /\ \A n \in 0 .. OutputCount(e) - 1 : AddOutputs(page, e, start)[n + 1] = NextOutput(AddOutputs(page, e, start)[n], e, n, start)
  <1> DEFINE N == OutputCount(e)
             z == page
             Step(n, x) == NextOutput(x, e, n - 1, start)
             Eq(f, m) == f = [n \in 0 .. m |-> IF n = 0 THEN z ELSE Step(n, f[n - 1])]
             S == {m \in 0 .. N : \E f : Eq(f, m)}
             F == AddOutputs(page, e, start)
  <1>1. N \in Nat
    BY SMTT(120)
  <1>2. (\E f : Eq(f, N)) => Eq(F, N)
    BY ZenonT(120) DEF AddOutputs
  <1>3. F[0] = z /\ (\A n \in 0 .. N - 1 : F[n + 1] = Step(n + 1, F[n])) => /\ AddOutputs(page, e, start)[0] = page
          /\ \A n \in 0 .. OutputCount(e) - 1 : AddOutputs(page, e, start)[n + 1] = NextOutput(AddOutputs(page, e, start)[n], e, n, start)
    BY <1>1, SMTT(120)
  <1> HIDE DEF N, z, Step, F
  <1>4. 0 \in S
    <2>1. Eq([n \in 0 .. 0 |-> z], 0)
      BY SMTT(120)
    <2> HIDE DEF Eq
    <2> QED BY <1>1, <2>1, 0 \in 0 .. N
  <1>5. ASSUME NEW m \in 0 .. N - 1, m \in S PROVE m + 1 \in S
    <2>1. PICK f : Eq(f, m)
      BY <1>5
    <2> DEFINE g == [n \in 0 .. m + 1 |-> IF n = m + 1 THEN Step(m + 1, f[m]) ELSE f[n]]
    <2>2. Eq(g, m + 1)
      BY <2>1, SMTT(120)
    <2>3. m + 1 \in 0 .. N
      BY <1>1
    <2> HIDE DEF Eq, g
    <2> QED BY <2>2, <2>3
  <1>6. N \in S
    <2> HIDE DEF S
    <2>1. \A i \in 0 .. N : i \in S
      BY <1>1, <1>4, <1>5, UpTo, ZenonT(120)
    <2> QED BY <1>1, <2>1
  <1>7. Eq(F, N)
    BY <1>2, <1>6
  <1>8. F[0] = z /\ \A n \in 0 .. N - 1 : F[n + 1] = Step(n + 1, F[n])
    BY <1>1, <1>7, SMTT(120)
  <1> QED BY <1>3, <1>8

(* The recursion of ScanEvents. *)
LEMMA ScanEventsRec ==
  ASSUME NEW after, NEW last \in Nat PROVE
  /\ ScanEvents(after, last)[0] = EmptyPage(after)
  /\ \A n \in 0 .. last - 1 : ScanEvents(after, last)[n + 1] = AddEvent(ScanEvents(after, last)[n], after, n + 1)
  <1> DEFINE N == last
             z == EmptyPage(after)
             Step(n, x) == AddEvent(x, after, n)
             Eq(f, m) == f = [n \in 0 .. m |-> IF n = 0 THEN z ELSE Step(n, f[n - 1])]
             S == {m \in 0 .. N : \E f : Eq(f, m)}
             F == ScanEvents(after, last)
  <1>1. N \in Nat
    BY SMTT(120)
  <1>2. (\E f : Eq(f, N)) => Eq(F, N)
    BY ZenonT(120) DEF ScanEvents
  <1>3. F[0] = z /\ (\A n \in 0 .. N - 1 : F[n + 1] = Step(n + 1, F[n])) => /\ ScanEvents(after, last)[0] = EmptyPage(after)
          /\ \A n \in 0 .. last - 1 : ScanEvents(after, last)[n + 1] = AddEvent(ScanEvents(after, last)[n], after, n + 1)
    BY <1>1, SMTT(120)
  <1> HIDE DEF N, z, Step, F
  <1>4. 0 \in S
    <2>1. Eq([n \in 0 .. 0 |-> z], 0)
      BY SMTT(120)
    <2> HIDE DEF Eq
    <2> QED BY <1>1, <2>1, 0 \in 0 .. N
  <1>5. ASSUME NEW m \in 0 .. N - 1, m \in S PROVE m + 1 \in S
    <2>1. PICK f : Eq(f, m)
      BY <1>5
    <2> DEFINE g == [n \in 0 .. m + 1 |-> IF n = m + 1 THEN Step(m + 1, f[m]) ELSE f[n]]
    <2>2. Eq(g, m + 1)
      BY <2>1, SMTT(120)
    <2>3. m + 1 \in 0 .. N
      BY <1>1
    <2> HIDE DEF Eq, g
    <2> QED BY <2>2, <2>3
  <1>6. N \in S
    <2> HIDE DEF S
    <2>1. \A i \in 0 .. N : i \in S
      BY <1>1, <1>4, <1>5, UpTo, ZenonT(120)
    <2> QED BY <1>1, <2>1
  <1>7. Eq(F, N)
    BY <1>2, <1>6
  <1>8. F[0] = z /\ \A n \in 0 .. N - 1 : F[n + 1] = Step(n + 1, F[n])
    BY <1>1, <1>7, SMTT(120)
  <1> QED BY <1>3, <1>8

(* The recursion of Kept. *)
LEMMA KeptRec ==
  ASSUME NEW s, NEW set, Len(s) \in Nat PROVE
  /\ Kept(s, set)[0] = <<>>
  /\ \A n \in 0 .. Len(s) - 1 : Kept(s, set)[n + 1] = IF s[n + 1] \in set THEN Append(Kept(s, set)[n], s[n + 1]) ELSE Kept(s, set)[n]
  <1> DEFINE N == Len(s)
             z == <<>>
             Step(n, x) == IF s[n] \in set THEN Append(x, s[n]) ELSE x
             Eq(f, m) == f = [n \in 0 .. m |-> IF n = 0 THEN z ELSE Step(n, f[n - 1])]
             S == {m \in 0 .. N : \E f : Eq(f, m)}
             F == Kept(s, set)
  <1>1. N \in Nat
    BY SMTT(120)
  <1>2. (\E f : Eq(f, N)) => Eq(F, N)
    BY ZenonT(120) DEF Kept
  <1>3. F[0] = z /\ (\A n \in 0 .. N - 1 : F[n + 1] = Step(n + 1, F[n])) => /\ Kept(s, set)[0] = <<>>
          /\ \A n \in 0 .. Len(s) - 1 : Kept(s, set)[n + 1] = IF s[n + 1] \in set THEN Append(Kept(s, set)[n], s[n + 1]) ELSE Kept(s, set)[n]
    BY <1>1, SMTT(120)
  <1> HIDE DEF N, z, Step, F
  <1>4. 0 \in S
    <2>1. Eq([n \in 0 .. 0 |-> z], 0)
      BY SMTT(120)
    <2> HIDE DEF Eq
    <2> QED BY <1>1, <2>1, 0 \in 0 .. N
  <1>5. ASSUME NEW m \in 0 .. N - 1, m \in S PROVE m + 1 \in S
    <2>1. PICK f : Eq(f, m)
      BY <1>5
    <2> DEFINE g == [n \in 0 .. m + 1 |-> IF n = m + 1 THEN Step(m + 1, f[m]) ELSE f[n]]
    <2>2. Eq(g, m + 1)
      BY <2>1, SMTT(120)
    <2>3. m + 1 \in 0 .. N
      BY <1>1
    <2> HIDE DEF Eq, g
    <2> QED BY <2>2, <2>3
  <1>6. N \in S
    <2> HIDE DEF S
    <2>1. \A i \in 0 .. N : i \in S
      BY <1>1, <1>4, <1>5, UpTo, ZenonT(120)
    <2> QED BY <1>1, <2>1
  <1>7. Eq(F, N)
    BY <1>2, <1>6
  <1>8. F[0] = z /\ \A n \in 0 .. N - 1 : F[n + 1] = Step(n + 1, F[n])
    BY <1>1, <1>7, SMTT(120)
  <1> QED BY <1>3, <1>8

(* The recursion of OutputsUpTo. *)
LEMMA OutputsRec ==
  ASSUME Len(events) \in Nat PROVE
  /\ OutputsUpTo[0] = <<>>
  /\ \A n \in 0 .. Len(events) - 1 : OutputsUpTo[n + 1] = OutputsUpTo[n] \o EventOutputs(n + 1)
  <1> DEFINE N == Len(events)
             z == <<>>
             Step(n, x) == x \o EventOutputs(n)
             Eq(f, m) == f = [n \in 0 .. m |-> IF n = 0 THEN z ELSE Step(n, f[n - 1])]
             S == {m \in 0 .. N : \E f : Eq(f, m)}
             F == OutputsUpTo
  <1>1. N \in Nat
    BY SMTT(120)
  <1>2. (\E f : Eq(f, N)) => Eq(F, N)
    BY ZenonT(120) DEF OutputsUpTo
  <1>3. F[0] = z /\ (\A n \in 0 .. N - 1 : F[n + 1] = Step(n + 1, F[n])) => /\ OutputsUpTo[0] = <<>>
          /\ \A n \in 0 .. Len(events) - 1 : OutputsUpTo[n + 1] = OutputsUpTo[n] \o EventOutputs(n + 1)
    <2>1. \A n \in 0 .. N - 1 : Step(n + 1, F[n]) = OutputsUpTo[n] \o EventOutputs(n + 1)
      OBVIOUS
    <2> HIDE DEF Step
    <2> QED BY <2>1, ZenonT(120)
  <1> HIDE DEF N, z, Step, F
  <1>4. 0 \in S
    <2>1. Eq([n \in 0 .. 0 |-> z], 0)
      BY SMTT(120)
    <2> HIDE DEF Eq
    <2> QED BY <1>1, <2>1, 0 \in 0 .. N
  <1>5. ASSUME NEW m \in 0 .. N - 1, m \in S PROVE m + 1 \in S
    <2>1. PICK f : Eq(f, m)
      BY <1>5
    <2> DEFINE g == [n \in 0 .. m + 1 |-> IF n = m + 1 THEN Step(m + 1, f[m]) ELSE f[n]]
    <2>2. Eq(g, m + 1)
      BY <2>1, SMTT(120)
    <2>3. m + 1 \in 0 .. N
      BY <1>1
    <2> HIDE DEF Eq, g
    <2> QED BY <2>2, <2>3
  <1>6. N \in S
    <2> HIDE DEF S
    <2>1. \A i \in 0 .. N : i \in S
      BY <1>1, <1>4, <1>5, UpTo, ZenonT(120)
    <2> QED BY <1>1, <2>1
  <1>7. Eq(F, N)
    BY <1>2, <1>6
  <1>8. F[0] = z /\ \A n \in 0 .. N - 1 : F[n + 1] = Step(n + 1, F[n])
    BY <1>1, <1>7, SMTT(120)
  <1> QED BY <1>3, <1>8

-----------------------------------------------------------------------------
(* Events and cursors *)

(* Events are numbered by their position; their heights never go back.      *)
EventsOK ==
    /\ events \in Seq([type : DOMAIN EventTypes, height : Nat, mine : SUBSET Nat])
    /\ \A e \in 1 .. Len(events) :
         events[e].height > 0 /\ events[e].mine \subseteq 0 .. OutputCount(e) - 1
    /\ \A d, e \in 1 .. Len(events) : d <= e => events[d].height <= events[e].height

Cursors == Nat \X Nat \X Nat

(* A cursor a page may return: the start, or one of an event's outputs, or  *)
(* an event without outputs.                                                *)
CursorOK(c) ==
    /\ c \in Cursors
    /\ c = Start \/ (/\ c[2] \in 1 .. Len(events) /\ c[1] = events[c[2]].height
                     /\ c[3] = 0 \/ c[3] < OutputCount(c[2]))

Later(a, b) == a[2] < b[2] \/ (a[2] = b[2] /\ a[3] < b[3])

(* The position of output j of event d is not behind the cursor c. *)
Reached(c, d, j) == d < c[2] \/ (d = c[2] /\ j <= c[3])

IsOutput(d, j) == d \in 1 .. Len(events) /\ j \in 0 .. OutputCount(d) - 1

(* The outputs the client asked for between two cursors. *)
Between(a, b) ==
    {o \in Nat \X Nat : /\ IsOutput(o[1], o[2]) /\ Allowed(o[1])
                        /\ ~Reached(a, o[1], o[2]) /\ Reached(b, o[1], o[2])}

(* The counts and sizes of an event are natural numbers. *)
LEMMA EventSizes ==
  ASSUME EventsOK, NEW e \in 1 .. Len(events)
  PROVE  /\ OutputCount(e) \in Nat /\ SummarySize(e) \in Nat /\ OutputSize(e) \in Nat
         /\ events[e].height \in Nat /\ events[e].height > 0 /\ Len(events) \in Nat
  <1>1. events[e] \in [type : DOMAIN EventTypes, height : Nat, mine : SUBSET Nat]
    <2> DEFINE R == [type : DOMAIN EventTypes, height : Nat, mine : SUBSET Nat]
    <2>1. events \in Seq(R)
      BY DEF EventsOK
    <2>2. events[e] \in R
      <3> HIDE DEF R
      <3> QED BY <2>1
    <2> QED BY <2>2
  <1>2. events[e].type \in DOMAIN EventTypes /\ events[e].height \in Nat /\ events[e].height > 0
    BY <1>1 DEF EventsOK
  <1>3. Len(events) \in Nat
    BY DEF EventsOK
  <1> QED BY <1>2, <1>3, ScanAssumption DEF OutputCount, SummarySize, OutputSize

(* compareCursor compares height, sequence and index in this order. *)
LEMMA CompareCursor ==
  ASSUME NEW a \in Cursors, NEW b \in Cursors
  PROVE  /\ Before(a, b) <=> \/ a[1] < b[1]
                             \/ a[1] = b[1] /\ a[2] < b[2]
                             \/ a[1] = b[1] /\ a[2] = b[2] /\ a[3] < b[3]
         /\ compareCursor(b, a) <= 0 <=> ~Before(a, b)
  <1> DEFINE d == {i \in 1 .. 3 : a[i] # b[i]}
             m == CHOOSE i \in d : \A j \in d : i <= j
             d2 == {i \in 1 .. 3 : b[i] # a[i]}
  <1>1. /\ a[1] \in Nat /\ a[2] \in Nat /\ a[3] \in Nat
        /\ b[1] \in Nat /\ b[2] \in Nat /\ b[3] \in Nat
    BY DEF Cursors
  <1>2. d = d2
    OBVIOUS
  <1>3. CASE d = {}
    <2>1. a[1] = b[1] /\ a[2] = b[2] /\ a[3] = b[3]
      BY SMTT(120), <1>3
    <2>2. compareCursor(a, b) = 0 /\ compareCursor(b, a) = 0
      BY <1>2, <1>3 DEF compareCursor
    <2> QED BY SMTT(120), <1>1, <2>1, <2>2 DEF Before
  <1>4. CASE d # {}
    <2>1. \E i \in d : \A j \in d : i <= j
      <3>1. CASE 1 \in d
        BY SMTT(120), <3>1
      <3>2. CASE 1 \notin d /\ 2 \in d
        BY SMTT(120), <3>2
      <3>3. CASE 1 \notin d /\ 2 \notin d
        <4>1. 3 \in d
          BY <1>4, <3>3
        <4> QED BY SMTT(120), <3>3, <4>1
      <3> QED BY <3>1, <3>2, <3>3
    <2>2. m \in d /\ \A j \in d : m <= j
      <3> HIDE DEF d
      <3> QED BY <2>1
    <2>3. compareCursor(a, b) = (IF a[m] < b[m] THEN -1 ELSE 1)
      BY <1>4 DEF compareCursor
    <2>4. compareCursor(b, a) = (IF b[m] < a[m] THEN -1 ELSE 1)
      BY <1>2, <1>4 DEF compareCursor
    <2> HIDE DEF m
    <2>5. m = 1 \/ m = 2 \/ m = 3
      BY <2>2
    <2>6. CASE m = 1
      <3>1. a[1] # b[1]
        BY <2>2, <2>6
      <3> QED BY <1>1, <2>3, <2>4, <2>6, <3>1 DEF Before
    <2>7. CASE m = 2
      <3>1. a[1] = b[1] /\ a[2] # b[2]
        BY <2>2, <2>7, 1 \in 1 .. 3, ~(2 <= 1)
      <3> QED BY SMTT(120), <1>1, <2>3, <2>4, <2>7, <3>1 DEF Before
    <2>8. CASE m = 3
      <3>1. a[1] = b[1] /\ a[2] = b[2] /\ a[3] # b[3]
        BY <2>2, <2>8, 1 \in 1 .. 3, 2 \in 1 .. 3, ~(3 <= 1), ~(3 <= 2)
      <3> QED BY SMTT(120), <1>1, <2>3, <2>4, <2>8, <3>1 DEF Before
    <2> QED BY <2>5, <2>6, <2>7, <2>8
  <1> QED BY <1>3, <1>4

(* The indices of a sequence one longer. *)
LEMMA OneMore ==
  ASSUME NEW n \in Nat
  PROVE  /\ n + 1 \in 1 .. n + 1 /\ (n + 1) - 1 = n
         /\ \A k \in 1 .. n + 1 : k \in 1 .. n \/ k = n + 1
         /\ \A k \in 1 .. n : k \in 1 .. n + 1 /\ (k > 1 => k - 1 \in 1 .. n)
  OBVIOUS

(* A cursor is three natural numbers. *)
LEMMA CursorNats ==
  ASSUME NEW c \in Cursors
  PROVE  c[1] \in Nat /\ c[2] \in Nat /\ c[3] \in Nat
  BY DEF Cursors

(* Since heights never go back, cursors are in the order of their events. *)
LEMMA CursorOrder ==
  ASSUME EventsOK, NEW a, NEW b, CursorOK(a), CursorOK(b)
  PROVE  /\ Before(a, b) <=> Later(a, b)
         /\ compareCursor(b, a) <= 0 <=> ~Later(a, b)
  <1>1. a \in Cursors /\ b \in Cursors
    BY DEF CursorOK
  <1>2. /\ a[1] \in Nat /\ a[2] \in Nat /\ a[3] \in Nat
        /\ b[1] \in Nat /\ b[2] \in Nat /\ b[3] \in Nat
    BY <1>1 DEF Cursors
  <1>3. (a[2] < b[2] => a[1] <= b[1]) /\ (b[2] < a[2] => b[1] <= a[1]) /\ (a[2] = b[2] => a[1] = b[1])
    <2>1. CASE a = Start /\ b = Start
      BY <2>1 DEF Start
    <2>2. CASE a = Start /\ b # Start
      BY <2>2, <1>2 DEF Start, CursorOK
    <2>3. CASE a # Start /\ b = Start
      BY SMTT(120), <2>3, <1>2 DEF Start, CursorOK
    <2>4. CASE a # Start /\ b # Start
      <3>1. /\ a[2] \in 1 .. Len(events) /\ a[1] = events[a[2]].height
            /\ b[2] \in 1 .. Len(events) /\ b[1] = events[b[2]].height
        BY <2>4 DEF CursorOK
      <3>2. \A d, e \in 1 .. Len(events) : d <= e => events[d].height <= events[e].height
        BY DEF EventsOK
      <3> QED BY SMTT(120), <1>2, <3>1, <3>2
    <2> QED BY <2>1, <2>2, <2>3, <2>4
  <1> QED BY SMTT(120), <1>1, <1>2, <1>3, CompareCursor DEF Later

(* The cursor of an output, and that of an event without outputs. *)
LEMMA EventCursorOK ==
  ASSUME EventsOK, NEW e \in 1 .. Len(events), NEW i \in Nat, i = 0 \/ i < OutputCount(e)
  PROVE  /\ CursorOK(EventCursor(e, i))
         /\ EventCursor(e, i)[2] = e /\ EventCursor(e, i)[3] = i
  <1>1. events[e].height \in Nat /\ e \in Nat
    BY EventSizes
  <1> QED BY <1>1 DEF EventCursor, CursorOK, Cursors

-----------------------------------------------------------------------------
(* Pages *)

IsPage(p) ==
    p \in [summaries : Seq(Nat), outputs : Seq(Nat \X Nat), bytes : Nat, scanned : Nat,
           next : Cursors, status : {"scanning", "more", "refused"}]

WithinLimits(p) ==
    Len(p.outputs) <= OutputLimit /\ p.scanned <= EventLimit /\ p.bytes <= ByteLimit

(* The summaries are in order and of events up to e. *)
InOrder(p, e) ==
    /\ \A i \in 1 .. Len(p.summaries) : p.summaries[i] \in 1 .. e
    /\ \A i, j \in 1 .. Len(p.summaries) : i < j => p.summaries[i] < p.summaries[j]

(* The output o is the next one after the cursor c, or the first one of a   *)
(* later event.                                                             *)
Follows(c, o) == IF o[1] = c[2] THEN o[2] = c[3] + 1 ELSE o[1] > c[2] /\ o[2] = 0

(* The cursor of the last output, `after` if there is none. *)
LastCursor(p, after) ==
    IF p.outputs = <<>> THEN after ELSE OutputCursor(p.outputs[Len(p.outputs)])

OutputsChain(p, after) ==
    \A i \in 1 .. Len(p.outputs) :
        /\ IsOutput(p.outputs[i][1], p.outputs[i][2])
        /\ \E j \in 1 .. Len(p.summaries) : p.summaries[j] = p.outputs[i][1]
        /\ i = 1 => Follows(after, p.outputs[i])
        /\ i > 1 => Follows(OutputCursor(p.outputs[i - 1]), p.outputs[i])

(* The last output is the last one of its event. *)
LastComplete(p) ==
    p.outputs # <<>> => p.outputs[Len(p.outputs)][2] + 1 = OutputCount(p.outputs[Len(p.outputs)][1])

(* The next cursor stands on the last output or, along summaries of events  *)
(* without outputs, on one of those; with a filter it may pass events when  *)
(* there is no output.                                                      *)
NextOK(p, after) ==
    \/ p.next = LastCursor(p, after)
    \/ p.outputs = <<>> /\ filter # {}
    \/ /\ p.next[3] = 0 /\ p.next[2] > LastCursor(p, after)[2]
       /\ \E i \in 1 .. Len(p.summaries) : p.summaries[i] = p.next[2]
       /\ \A i \in 1 .. Len(p.summaries) :
            (p.summaries[i] > LastCursor(p, after)[2] /\ p.summaries[i] <= p.next[2]) =>
                OutputCount(p.summaries[i]) = 0
       /\ LastComplete(p)

(* What holds of every page that is not refused: it keeps the limits, lists *)
(* exactly the outputs between the two cursors, and shows why its next      *)
(* cursor may be taken.                                                     *)
PageOK(p, after) ==
    /\ IsPage(p) /\ p.status # "refused"
    /\ WithinLimits(p)
    /\ InOrder(p, Len(events))
    /\ OutputsChain(p, after)
    /\ CursorOK(p.next) /\ ~Later(p.next, after)
    /\ NextOK(p, after)
    /\ {p.outputs[i] : i \in 1 .. Len(p.outputs)} = Between(after, p.next)
    /\ (p.outputs # <<>> \/ p.status = "more") => Later(after, p.next)

(* The checks of both validators follow. *)
LEMMA OrderedPage ==
  ASSUME EventsOK, NEW p, NEW after, CursorOK(after), PageOK(p, after)
  PROVE  /\ Ordered(p, after)
         /\ \A i \in DOMAIN p.outputs : CursorOK(OutputCursor(p.outputs[i]))
  <1>1. p.outputs \in Seq(Nat \X Nat) /\ OutputsChain(p, after)
    BY DEF PageOK, IsPage
  <1>2. ASSUME NEW i \in 1 .. Len(p.outputs)
        PROVE  /\ CursorOK(OutputCursor(p.outputs[i]))
               /\ OutputCursor(p.outputs[i])[2] = p.outputs[i][1]
               /\ OutputCursor(p.outputs[i])[3] = p.outputs[i][2]
               /\ p.outputs[i][1] \in Nat /\ p.outputs[i][2] \in Nat
    <2> DEFINE e == p.outputs[i][1]
               k == p.outputs[i][2]
    <2>1. IsOutput(e, k)
      BY <1>1 DEF OutputsChain
    <2> HIDE DEF e, k
    <2>2. e \in 1 .. Len(events) /\ k \in Nat /\ k < OutputCount(e) /\ e \in Nat
      BY <2>1, EventSizes DEF IsOutput
    <2>3. /\ CursorOK(EventCursor(e, k))
          /\ EventCursor(e, k)[2] = e /\ EventCursor(e, k)[3] = k
      BY <2>2, EventCursorOK
    <2> QED BY <2>2, <2>3 DEF e, k, OutputCursor
  <1>3. DOMAIN p.outputs = 1 .. Len(p.outputs) /\ Len(p.outputs) \in Nat
    BY <1>1
  <1>4. ASSUME NEW a, CursorOK(a), NEW i \in 1 .. Len(p.outputs), Follows(a, p.outputs[i])
        PROVE  /\ Before(a, OutputCursor(p.outputs[i]))
               /\ IF OutputCursor(p.outputs[i])[2] = a[2]
                  THEN OutputCursor(p.outputs[i])[3] = a[3] + 1
                  ELSE OutputCursor(p.outputs[i])[3] = 0
    <2> DEFINE b == OutputCursor(p.outputs[i])
    <2>1. CursorOK(b) /\ b[2] = p.outputs[i][1] /\ b[3] = p.outputs[i][2] /\ b[2] \in Nat /\ b[3] \in Nat
      BY <1>2
    <2>2. a[2] \in Nat /\ a[3] \in Nat
      BY <1>4 DEF CursorOK, Cursors
    <2> HIDE DEF b
    <2>3. Later(a, b) /\ (IF b[2] = a[2] THEN b[3] = a[3] + 1 ELSE b[3] = 0)
      BY <1>4, <2>1, <2>2 DEF Follows, Later
    <2>4. Before(a, b)
      BY <1>4, <2>1, <2>3, CursorOrder
    <2> QED BY <2>3, <2>4 DEF b
  <1>5. ASSUME NEW i \in 1 .. Len(p.outputs)
        PROVE  LET previous == IF i = 1 THEN after ELSE OutputCursor(p.outputs[i - 1])
                   cursor == OutputCursor(p.outputs[i])
               IN  /\ Before(previous, cursor)
                   /\ IF cursor[2] = previous[2] THEN cursor[3] = previous[3] + 1 ELSE cursor[3] = 0
    <2>1. CASE i = 1
      <3>1. Follows(after, p.outputs[i])
        BY <1>1, <2>1 DEF OutputsChain
      <3> QED BY <1>4, <2>1, <3>1
    <2>2. CASE i # 1
      <3>1. i > 1 /\ i - 1 \in 1 .. Len(p.outputs)
        BY SMTT(120), <1>3, <2>2
      <3>2. Follows(OutputCursor(p.outputs[i - 1]), p.outputs[i]) /\ CursorOK(OutputCursor(p.outputs[i - 1]))
        BY <1>1, <1>2, <3>1 DEF OutputsChain
      <3> QED BY <1>4, <2>2, <3>2
    <2> QED BY <2>1, <2>2
  <1>6. Ordered(p, after)
    BY <1>3, <1>5, ZenonT(120) DEF Ordered
  <1> QED BY <1>2, <1>3, <1>6

(* A page that is PageOK passes validatePrivacyScanNextCursor and           *)
(* validateTypedScanCursorBoundary.                                         *)
LEMMA NextProven ==
  ASSUME EventsOK, NEW p, NEW after, CursorOK(after), PageOK(p, after)
  PROVE  NextCursorProven(p, after, filter # {})
  <1> DEFINE n == Len(p.outputs)
             l == LastCursor(p, after)
             c == p.next
  <1>1. /\ p.outputs \in Seq(Nat \X Nat) /\ n \in Nat /\ p.summaries \in Seq(Nat)
        /\ NextOK(p, after) /\ CursorOK(c) /\ DOMAIN p.summaries = 1 .. Len(p.summaries)
    BY SMTT(120) DEF PageOK, IsPage
  <1>2. p.outputs # <<>> => n \in 1 .. n /\ n \in DOMAIN p.outputs /\ l = OutputCursor(p.outputs[n])
    BY <1>1 DEF LastCursor
  <1>3. p.outputs = <<>> => l = after
    BY DEF LastCursor
  <1>4. CursorOK(l)
    BY <1>2, <1>3, OrderedPage
  <1>5. /\ l[2] \in Nat /\ l[3] \in Nat /\ c[2] \in Nat /\ c[3] \in Nat
    BY <1>1, <1>4 DEF CursorOK, Cursors
  <1>6. \A i \in 1 .. Len(p.summaries) : p.summaries[i] \in Nat
    BY <1>1
  <1>7. ASSUME c # l, ~(p.outputs = <<>> /\ filter # {})
        PROVE  Later(l, c) /\ ZeroOutputAdvance(p, l) /\ LastComplete(p)
    <2>1. /\ c[3] = 0 /\ c[2] > l[2]
          /\ \E i \in 1 .. Len(p.summaries) : p.summaries[i] = c[2]
          /\ \A i \in 1 .. Len(p.summaries) :
               (p.summaries[i] > l[2] /\ p.summaries[i] <= c[2]) => OutputCount(p.summaries[i]) = 0
          /\ LastComplete(p)
      BY <1>1, <1>7 DEF NextOK
    <2>2. \A i \in 1 .. Len(p.summaries) :
            p.summaries[i] \in (l[2] + 1) .. c[2] => p.summaries[i] > l[2] /\ p.summaries[i] <= c[2]
      BY SMTT(120), <1>5, <1>6
    <2>3. ZeroOutputAdvance(p, l)
      BY <1>1, <2>1, <2>2 DEF ZeroOutputAdvance
    <2> QED BY <1>5, <2>1, <2>3 DEF Later
  <1>8. CASE p.outputs = <<>>
    <2>1. Before(after, p.next) => Later(after, p.next)
      BY <1>1, CursorOrder
    <2>2. ~Later(after, after)
      BY SMTT(120), <1>3, <1>5, <1>8 DEF Later
    <2> QED BY <1>3, <1>7, <1>8, <2>1, <2>2 DEF NextCursorProven
  <1>9. CASE p.outputs # <<>>
    <2> DEFINE o == p.outputs[n]
    <2>1. l = OutputCursor(o)
      BY <1>2, <1>9
    <2>2. c = l \/ (Before(l, c) /\ o[2] + 1 = OutputCount(o[1]) /\ ZeroOutputAdvance(p, l))
      BY <1>1, <1>4, <1>7, <1>9, CursorOrder DEF LastComplete
    <2> HIDE DEF l, n
    <2> QED BY <1>9, <2>1, <2>2 DEF NextCursorProven, n
  <1> QED BY <1>8, <1>9

(* A page the keeper makes is accepted by the client that asked for it. *)
LEMMA PageAccepted ==
  ASSUME EventsOK, NEW p, NEW after, CursorOK(after), PageOK(p, after)
  PROVE  ClientAccepts(p, after)
  <1>1. /\ p.outputs \in Seq(Nat \X Nat) /\ p.summaries \in Seq(Nat)
        /\ DOMAIN p.summaries = 1 .. Len(p.summaries) /\ DOMAIN p.outputs = 1 .. Len(p.outputs)
        /\ CursorOK(p.next)
    BY SMTT(120) DEF PageOK, IsPage
  <1>2. Ordered(p, after) /\ NextCursorProven(p, after, filter # {})
    BY OrderedPage, NextProven
  <1>3. ~Before(p.next, after) /\ (HasMore(p) => Before(after, p.next))
    BY <1>1, CursorOrder DEF PageOK, HasMore
  <1>4. \A i \in DOMAIN p.outputs :
          /\ p.outputs[i][2] < OutputCount(p.outputs[i][1])
          /\ \E j \in DOMAIN p.summaries : p.summaries[j] = p.outputs[i][1]
    <2> SUFFICES ASSUME NEW i \in 1 .. Len(p.outputs)
                 PROVE  /\ p.outputs[i][2] < OutputCount(p.outputs[i][1])
                        /\ \E j \in 1 .. Len(p.summaries) : p.summaries[j] = p.outputs[i][1]
      BY <1>1
    <2>1. IsOutput(p.outputs[i][1], p.outputs[i][2]) /\ \E j \in 1 .. Len(p.summaries) : p.summaries[j] = p.outputs[i][1]
      BY DEF PageOK, OutputsChain
    <2> DEFINE e == p.outputs[i][1]
               k == p.outputs[i][2]
    <2>2. IsOutput(e, k)
      BY <2>1
    <2> HIDE DEF e, k
    <2>3. k < OutputCount(e)
      BY <2>2, EventSizes DEF IsOutput
    <2> QED BY <2>1, <2>3 DEF e, k
  <1>5. ValidatePrivacyScanPage(p, after)
    BY <1>1, <1>2, <1>3, <1>4 DEF ValidatePrivacyScanPage, PageOK, WithinLimits, InOrder
  <1>6. filter = {} => ValidateTypedScanResponseForSync(p, after)
    <2>1. filter = {} => (filter # {}) = FALSE
      OBVIOUS
    <2> QED BY <1>2, <1>3, <2>1 DEF ValidateTypedScanResponseForSync
  <1> QED BY <1>5, <1>6 DEF ClientAccepts

-----------------------------------------------------------------------------
(* Filling a page *)

(* Moving the cursor from c to output i of event e passes this output and   *)
(* no other one that was asked for, or none.                                *)
OneStep(c, e, i) ==
    \A d \in Nat, j \in Nat : IsOutput(d, j) /\ Allowed(d) =>
        (Reached(EventCursor(e, i), d, j) <=> Reached(c, d, j) \/ (d = e /\ j = i))

NoStep(c, e, i) ==
    \A d \in Nat, j \in Nat : IsOutput(d, j) /\ Allowed(d) =>
        (Reached(EventCursor(e, i), d, j) <=> Reached(c, d, j))

(* The cursor c has come past all outputs of event e. *)
PastAll(c, e) == c[2] = e /\ (e > 0 => c[3] + 1 >= OutputCount(e))

(* Steps to the next output of the same event or to the first one of the    *)
(* next event.                                                              *)
LEMMA StepToNext ==
  ASSUME EventsOK, NEW c \in Cursors, NEW e \in 1 .. Len(events), NEW i \in Nat,
         (c[2] = e /\ i = c[3] + 1) \/ (PastAll(c, e - 1) /\ i = 0)
  PROVE  OneStep(c, e, i)
  <1> SUFFICES ASSUME NEW d \in Nat, NEW j \in Nat, IsOutput(d, j), Allowed(d)
               PROVE  Reached(EventCursor(e, i), d, j) <=> Reached(c, d, j) \/ (d = e /\ j = i)
    BY DEF OneStep
  <1>1. d \in 1 .. Len(events) /\ j \in 0 .. OutputCount(d) - 1 /\ OutputCount(d) \in Nat /\ Len(events) \in Nat
    BY EventSizes DEF IsOutput
  <1>2. EventCursor(e, i)[2] = e /\ EventCursor(e, i)[3] = i
    BY DEF EventCursor
  <1>3. c[2] \in Nat /\ c[3] \in Nat
    BY DEF Cursors
  <1>4. CASE c[2] = e /\ i = c[3] + 1
    BY SMTT(120), <1>1, <1>2, <1>3, <1>4 DEF Reached
  <1>5. CASE PastAll(c, e - 1) /\ i = 0
    <2>1. c[2] = e - 1 /\ (d = c[2] => j <= c[3])
      BY SMTT(120), <1>1, <1>3, <1>5 DEF PastAll
    <2> QED BY <1>1, <1>2, <1>3, <1>5, <2>1 DEF Reached
  <1> QED BY <1>4, <1>5

(* Steps over an event without outputs or one that was not asked for. *)
LEMMA StepOver ==
  ASSUME EventsOK, NEW c \in Cursors, NEW e \in 1 .. Len(events), NEW i \in Nat,
         PastAll(c, e - 1) \/ c[2] = e, OutputCount(e) = 0 \/ ~Allowed(e)
  PROVE  NoStep(c, e, i)
  <1> SUFFICES ASSUME NEW d \in Nat, NEW j \in Nat, IsOutput(d, j), Allowed(d)
               PROVE  Reached(EventCursor(e, i), d, j) <=> Reached(c, d, j)
    BY DEF NoStep
  <1>1. d \in 1 .. Len(events) /\ j \in 0 .. OutputCount(d) - 1 /\ OutputCount(d) \in Nat /\ Len(events) \in Nat
    BY EventSizes DEF IsOutput
  <1>2. EventCursor(e, i)[2] = e /\ EventCursor(e, i)[3] = i
    BY DEF EventCursor
  <1>3. c[2] \in Nat /\ c[3] \in Nat
    BY DEF Cursors
  <1>4. d # e
    BY <1>1
  <1>5. CASE PastAll(c, e - 1)
    <2>1. c[2] = e - 1 /\ (d = c[2] => j <= c[3])
      BY SMTT(120), <1>1, <1>3, <1>5 DEF PastAll
    <2> QED BY <1>1, <1>2, <1>3, <1>4, <2>1 DEF Reached
  <1>6. CASE c[2] = e
    BY <1>1, <1>2, <1>3, <1>4, <1>6 DEF Reached
  <1> QED BY <1>5, <1>6

(* What the outputs between two cursors are after a step over one output. *)
LEMMA BetweenGrows ==
  ASSUME NEW a, NEW c, NEW e \in Nat, NEW i \in Nat,
         OneStep(c, e, i), IsOutput(e, i), Allowed(e), ~Reached(a, e, i)
  PROVE  Between(a, EventCursor(e, i)) = Between(a, c) \cup {<<e, i>>}
  <1>1. ASSUME NEW d \in Nat, NEW j \in Nat
        PROVE  <<d, j>> \in Between(a, EventCursor(e, i)) <=> <<d, j>> \in Between(a, c) \/ (d = e /\ j = i)
    BY DEF Between, OneStep
  <1>2. ASSUME NEW o \in Nat \X Nat
        PROVE  o \in Between(a, EventCursor(e, i)) <=> o \in Between(a, c) \cup {<<e, i>>}
    <2>1. PICK d \in Nat, j \in Nat : o = <<d, j>>
      OBVIOUS
    <2> QED BY <1>1, <2>1
  <1>3. /\ Between(a, EventCursor(e, i)) \subseteq Nat \X Nat
        /\ Between(a, c) \cup {<<e, i>>} \subseteq Nat \X Nat
    BY DEF Between
  <1> QED BY <1>2, <1>3, ZenonT(120)

(* A step over no output leaves the outputs between two cursors alone. *)
LEMMA BetweenSame ==
  ASSUME NEW a, NEW c, NEW e \in Nat, NEW i \in Nat, NoStep(c, e, i)
  PROVE  Between(a, EventCursor(e, i)) = Between(a, c)
  <1>1. ASSUME NEW d \in Nat, NEW j \in Nat
        PROVE  <<d, j>> \in Between(a, EventCursor(e, i)) <=> <<d, j>> \in Between(a, c)
    BY DEF Between, NoStep
  <1>2. ASSUME NEW o \in Nat \X Nat
        PROVE  o \in Between(a, EventCursor(e, i)) <=> o \in Between(a, c)
    <2>1. PICK d \in Nat, j \in Nat : o = <<d, j>>
      OBVIOUS
    <2> QED BY <1>1, <2>1
  <1>3. Between(a, EventCursor(e, i)) \subseteq Nat \X Nat /\ Between(a, c) \subseteq Nat \X Nat
    BY DEF Between
  <1> QED BY <1>2, <1>3, ZenonT(120)

(* The empty page is one the client accepts. *)
LEMMA EmptyPageOK ==
  ASSUME NEW after, CursorOK(after)
  PROVE  PageOK(EmptyPage(after), after)
  <1> DEFINE p == EmptyPage(after)
  <1>1. after \in Cursors /\ after[2] \in Nat /\ after[3] \in Nat
    BY DEF CursorOK, Cursors
  <1>2. /\ p.outputs = <<>> /\ p.summaries = <<>> /\ p.bytes = 0 /\ p.scanned = 0
        /\ p.next = after /\ p.status = "scanning" /\ Len(<<>>) = 0
    BY DEF EmptyPage
  <1>3. IsPage(p)
    BY <1>1 DEF IsPage, EmptyPage
  <1>4. Between(after, after) = {}
    BY DEF Between
  <1>5. {p.outputs[i] : i \in 1 .. Len(p.outputs)} = {}
    BY <1>2
  <1>6. WithinLimits(p)
    BY <1>2, ScanAssumption DEF WithinLimits
  <1>7. InOrder(p, Len(events)) /\ OutputsChain(p, after)
    BY <1>2 DEF InOrder, OutputsChain
  <1>8. ~Later(after, after)
    BY <1>1 DEF Later
  <1>9. NextOK(p, after)
    BY <1>2 DEF NextOK, LastCursor
  <1> HIDE DEF p
  <1> QED BY <1>2, <1>3, <1>4, <1>5, <1>6, <1>7, <1>8, <1>9 DEF PageOK, p

(* A page that has moved the cursor may be cut. *)
LEMMA CutOK ==
  ASSUME NEW p, NEW after, PageOK(p, after), Later(after, p.next)
  PROVE  PageOK([p EXCEPT !.status = "more"], after)
  <1> DEFINE q == [p EXCEPT !.status = "more"]
  <1>1. IsPage(p)
    BY DEF PageOK
  <1>2. /\ IsPage(q) /\ q.status = "more"
        /\ q.outputs = p.outputs /\ q.summaries = p.summaries /\ q.bytes = p.bytes
        /\ q.scanned = p.scanned /\ q.next = p.next
    BY <1>1 DEF IsPage
  <1> HIDE DEF q
  <1>3. WithinLimits(q) /\ InOrder(q, Len(events)) /\ OutputsChain(q, after) /\ NextOK(q, after)
    BY ZenonT(120), <1>2 DEF PageOK, WithinLimits, InOrder, OutputsChain, NextOK, LastCursor, LastComplete
  <1> QED BY <1>2, <1>3 DEF PageOK, q

(* The cursor of the last output is not behind the next one. *)
LEMMA LastNotBehind ==
  ASSUME EventsOK, NEW p, NEW after, CursorOK(after), PageOK(p, after)
  PROVE  /\ LastCursor(p, after)[2] <= p.next[2] /\ CursorOK(LastCursor(p, after))
         /\ LastCursor(p, after)[2] \in Nat /\ LastCursor(p, after)[3] \in Nat
         /\ p.next \in Cursors /\ p.next[2] \in Nat /\ p.next[3] \in Nat
         /\ after[2] \in Nat /\ after[3] \in Nat
  <1> DEFINE l == LastCursor(p, after)
  <1>1. p.outputs \in Seq(Nat \X Nat) /\ CursorOK(p.next) /\ ~Later(p.next, after) /\ NextOK(p, after)
    BY DEF PageOK, IsPage
  <1>2. p.outputs # <<>> => Len(p.outputs) \in DOMAIN p.outputs
    BY <1>1
  <1>3. CursorOK(l)
    BY <1>2, OrderedPage DEF LastCursor
  <1>4. /\ l[2] \in Nat /\ l[3] \in Nat /\ p.next[2] \in Nat /\ p.next[3] \in Nat
        /\ p.next \in Cursors /\ after[2] \in Nat /\ after[3] \in Nat
    BY <1>1, <1>3 DEF CursorOK, Cursors
  <1>5. p.outputs = <<>> => l = after
    BY DEF LastCursor
  <1>6. l[2] <= p.next[2]
    <2>1. CASE p.next = l
      BY <1>4, <2>1
    <2>2. CASE p.outputs = <<>>
      BY <1>1, <1>4, <1>5, <2>2 DEF Later
    <2>3. CASE p.next[2] > l[2]
      BY SMTT(120), <1>4, <2>3
    <2> QED BY <1>1, <2>1, <2>2, <2>3 DEF NextOK
  <1> QED BY <1>3, <1>4, <1>6

(* The page with one more output. *)
WithOutput(p, e, i) ==
    [p EXCEPT !.outputs = Append(@, <<e, i>>), !.bytes = @ + OutputSize(e),
              !.next = EventCursor(e, i)]

(* An output that follows the last one, of an event with a summary, may be  *)
(* added if it fits.                                                        *)
LEMMA OutputAdded ==
  ASSUME EventsOK, NEW p, NEW after, CursorOK(after), PageOK(p, after), p.status = "scanning",
         NEW e \in 1 .. Len(events), NEW i \in Nat, i < OutputCount(e), Allowed(e),
         \E j \in 1 .. Len(p.summaries) : p.summaries[j] = e,
         Follows(LastCursor(p, after), <<e, i>>),
         OneStep(p.next, e, i), Later(after, EventCursor(e, i)),
         Len(p.outputs) # OutputLimit, p.bytes + OutputSize(e) <= ByteLimit
  PROVE  PageOK(WithOutput(p, e, i), after)
  <1> DEFINE q == WithOutput(p, e, i)
             n == Len(p.outputs)
             o == <<e, i>>
  <1>1. IsPage(p) /\ WithinLimits(p) /\ InOrder(p, Len(events)) /\ OutputsChain(p, after)
    BY DEF PageOK
  <1>2. OutputSize(e) \in Nat /\ OutputCount(e) \in Nat /\ e \in Nat /\ o \in Nat \X Nat
    BY SMTT(120), EventSizes
  <1>3. /\ CursorOK(EventCursor(e, i)) /\ EventCursor(e, i)[2] = e /\ EventCursor(e, i)[3] = i
        /\ EventCursor(e, i) \in Cursors
    BY SMTT(120), EventCursorOK DEF CursorOK
  <1>4. /\ q.outputs = Append(p.outputs, o) /\ q.bytes = p.bytes + OutputSize(e)
        /\ q.next = EventCursor(e, i) /\ q.summaries = p.summaries /\ q.scanned = p.scanned
        /\ q.status = "scanning"
    BY <1>1 DEF IsPage, WithOutput
  <1>5. p.outputs \in Seq(Nat \X Nat) /\ n \in Nat /\ p.bytes \in Nat /\ p.scanned \in Nat
    BY SMTT(120), <1>1 DEF IsPage
  <1>6. IsPage(q)
    <2>1. Append(p.outputs, o) \in Seq(Nat \X Nat) /\ p.bytes + OutputSize(e) \in Nat
      BY SMTT(120), <1>2, <1>5
    <2>2. p \in [summaries : Seq(Nat), outputs : Seq(Nat \X Nat), bytes : Nat, scanned : Nat,
                 next : Cursors, status : {"scanning", "more", "refused"}]
      BY <1>1 DEF IsPage
    <2> HIDE DEF o
    <2> QED BY ZenonT(120), <1>3, <2>1, <2>2 DEF IsPage, WithOutput, o
  <1>7. Len(q.outputs) = n + 1 /\ q.outputs[n + 1] = o /\ \A k \in 1 .. n : q.outputs[k] = p.outputs[k]
    <2> DEFINE s == p.outputs
    <2>1. s \in Seq(Nat \X Nat) /\ o \in Nat \X Nat
      BY <1>2, <1>5
    <2> HIDE DEF s, o
    <2>2. /\ Len(Append(s, o)) = Len(s) + 1 /\ Append(s, o)[Len(s) + 1] = o
          /\ \A k \in 1 .. Len(s) : Append(s, o)[k] = s[k]
      BY <2>1
    <2> HIDE DEF q
    <2> QED BY <1>4, <2>2 DEF s
  <1> HIDE DEF q, o, n
  <1>8. o[1] = e /\ o[2] = i /\ OutputCursor(o) = EventCursor(e, i)
    BY DEF o, OutputCursor
  <1>9. WithinLimits(q)
    BY SMTT(120), <1>1, <1>2, <1>4, <1>5, <1>7, ScanAssumption DEF WithinLimits, n
  <1>10. InOrder(q, Len(events))
    BY <1>1, <1>4 DEF InOrder
  <1>11. OutputsChain(q, after)
    <2> SUFFICES ASSUME NEW k \in 1 .. n + 1
                 PROVE  /\ IsOutput(q.outputs[k][1], q.outputs[k][2])
                        /\ \E j \in 1 .. Len(q.summaries) : q.summaries[j] = q.outputs[k][1]
                        /\ k = 1 => Follows(after, q.outputs[k])
                        /\ k > 1 => Follows(OutputCursor(q.outputs[k - 1]), q.outputs[k])
      BY <1>7 DEF OutputsChain
    <2>1. CASE k \in 1 .. n
      <3>1. q.outputs[k] = p.outputs[k] /\ (k > 1 => q.outputs[k - 1] = p.outputs[k - 1])
        BY ZenonT(120), <1>5, <1>7, <2>1, OneMore
      <3> QED BY <1>1, <1>4, <2>1, <3>1 DEF OutputsChain, n
    <2>2. CASE k = n + 1
      <3>1. q.outputs[k] = o
        BY <1>7, <2>2
      <3>2. IsOutput(e, i)
        BY <1>2 DEF IsOutput
      <3>3. k = 1 => LastCursor(p, after) = after
        BY <1>5, <2>2 DEF LastCursor, n
      <3>4. ASSUME k > 1 PROVE LastCursor(p, after) = OutputCursor(q.outputs[k - 1])
        <4>1. k - 1 = n /\ n \in 1 .. n
          BY SMTT(120), <1>5, <2>2, <3>4
        <4>2. q.outputs[k - 1] = p.outputs[n]
          BY <1>7, <4>1
        <4>3. p.outputs # <<>>
          BY <4>1 DEF n
        <4> QED BY <4>2, <4>3 DEF LastCursor, n
      <3> QED BY <1>4, <1>8, <3>1, <3>2, <3>3, <3>4 DEF o
    <2> QED BY SMTT(120), <1>5, <2>1, <2>2
  <1>12. NextOK(q, after)
    <2>1. q.outputs # <<>>
      BY <1>5, <1>7
    <2>2. LastCursor(q, after) = EventCursor(e, i)
      BY <1>7, <1>8, <2>1 DEF LastCursor
    <2> QED BY <1>4, <2>2 DEF NextOK
  <1>13. {q.outputs[k] : k \in 1 .. Len(q.outputs)} = Between(after, q.next)
    <2>1. {p.outputs[k] : k \in 1 .. n} = Between(after, p.next)
      BY DEF PageOK, n
    <2>2. ~Reached(after, e, i) /\ IsOutput(e, i)
      <3>1. after[2] \in Nat /\ after[3] \in Nat
        BY CursorNats DEF CursorOK
      <3> QED BY SMTT(120), <1>2, <1>3, <3>1 DEF Reached, Later, IsOutput
    <2>3. Between(after, q.next) = Between(after, p.next) \cup {o}
      BY SMTT(120), <1>2, <1>4, <2>2, BetweenGrows DEF o
    <2>4. {q.outputs[k] : k \in 1 .. n + 1} = {p.outputs[k] : k \in 1 .. n} \cup {o}
      <3>1. ASSUME NEW x, x \in {q.outputs[k] : k \in 1 .. n + 1}
            PROVE  x \in {p.outputs[k] : k \in 1 .. n} \cup {o}
        <4>1. PICK k \in 1 .. n + 1 : x = q.outputs[k]
          BY <3>1
        <4>2. k \in 1 .. n \/ k = n + 1
          BY <1>5
        <4> QED BY <1>7, <4>1, <4>2
      <3>2. ASSUME NEW x, x \in {p.outputs[k] : k \in 1 .. n} \cup {o}
            PROVE  x \in {q.outputs[k] : k \in 1 .. n + 1}
        <4>1. CASE x = o
          BY <1>5, <1>7, <4>1, n + 1 \in 1 .. n + 1
        <4>2. CASE x # o
          <5>1. PICK k \in 1 .. n : x = p.outputs[k]
            BY <3>2, <4>2
          <5>2. k \in 1 .. n + 1 /\ x = q.outputs[k]
            BY ZenonT(120), <1>5, <1>7, <5>1, OneMore
          <5> QED BY <5>2
        <4> QED BY <4>1, <4>2
      <3> QED BY <3>1, <3>2, ZenonT(120)
    <2> QED BY <1>7, <2>1, <2>3, <2>4
  <1>14. ~Later(q.next, after)
    <2>1. after[2] \in Nat /\ after[3] \in Nat
      BY CursorNats DEF CursorOK
    <2> QED BY SMTT(120), <1>2, <1>3, <1>4, <2>1 DEF Later
  <1> QED BY <1>3, <1>4, <1>6, <1>9, <1>10, <1>11, <1>12, <1>13, <1>14 DEF PageOK, q

(* A page between two events: all outputs up to event e are passed, and the *)
(* summaries behind the last output are of events without outputs.          *)
Boundary(p, after, e) ==
    /\ IF e < after[2] THEN p = EmptyPage(after) ELSE PastAll(p.next, e)
    /\ InOrder(p, e)
    /\ (p.scanned > 0 \/ p.summaries # <<>>) => Later(after, p.next)
    /\ LastComplete(p)
    /\ \A i \in 1 .. Len(p.summaries) :
         p.summaries[i] > LastCursor(p, after)[2] => OutputCount(p.summaries[i]) = 0

(* How a page enters event e: behind all earlier events, or empty and with  *)
(* the cursor inside the event.                                             *)
Entering(p, after, e) ==
    \/ after[2] < e /\ PastAll(p.next, e - 1)
    \/ after[2] = e /\ p = EmptyPage(after) /\ after[3] + 1 < OutputCount(e)

(* Scanning(p, after, e): the page p is about to take event e. *)
Scanning(p, after, e) ==
    /\ PageOK(p, after) /\ p.status = "scanning"
    /\ Boundary(p, after, e - 1) /\ Entering(p, after, e)
    /\ p.scanned # EventLimit /\ Len(p.outputs) # OutputLimit

(* An event that is not passed is entered. *)
LEMMA EventEntered ==
  ASSUME EventsOK, NEW p, NEW after, CursorOK(after), NEW e \in 1 .. Len(events),
         Boundary(p, after, e - 1), ~Passed(after, e)
  PROVE  Entering(p, after, e)
  <1>1. after[2] \in Nat /\ after[3] \in Nat /\ OutputCount(e) \in Nat
    BY EventSizes DEF CursorOK, Cursors
  <1>2. CASE e - 1 < after[2]
    <2>1. e = after[2] /\ after[3] + 1 < OutputCount(e) /\ p = EmptyPage(after)
      BY <1>1, <1>2 DEF Passed, Boundary
    <2> QED BY <2>1 DEF Entering
  <1>3. CASE ~(e - 1 < after[2])
    <2>1. after[2] < e
      BY <1>1, <1>3
    <2> QED BY <1>3, <2>1 DEF Entering, Boundary
  <1> QED BY <1>2, <1>3

(* What is known of the cursors when an event is entered. *)
LEMMA EnteredCursors ==
  ASSUME EventsOK, NEW p, NEW after, CursorOK(after), NEW e \in 1 .. Len(events),
         PageOK(p, after), Entering(p, after, e)
  PROVE  /\ p.next[2] <= e /\ LastCursor(p, after)[2] <= e
         /\ after[2] < e => p.next[2] = e - 1 /\ LastCursor(p, after)[2] < e
         /\ after[2] = e => p.next = after /\ LastCursor(p, after) = after /\ p.outputs = <<>> /\ p.summaries = <<>>
  <1>1. /\ LastCursor(p, after)[2] <= p.next[2] /\ LastCursor(p, after)[2] \in Nat /\ p.next[2] \in Nat
        /\ after[2] \in Nat /\ e \in Nat
    BY LastNotBehind, EventSizes
  <1>2. after[2] < e => p.next[2] = e - 1
    BY <1>1 DEF Entering, PastAll
  <1>3. after[2] = e => p.next = after /\ LastCursor(p, after) = after /\ p.outputs = <<>> /\ p.summaries = <<>>
    <2> SUFFICES ASSUME after[2] = e
                 PROVE  p.next = after /\ LastCursor(p, after) = after /\ p.outputs = <<>> /\ p.summaries = <<>>
      OBVIOUS
    <2>1. p = EmptyPage(after)
      BY <1>1 DEF Entering
    <2> QED BY <2>1 DEF EmptyPage, LastCursor
  <1>4. after[2] < e \/ after[2] = e
    BY DEF Entering
  <1> QED BY <1>1, <1>2, <1>3, <1>4

(* The summary of the event is added if it fits. *)
LEMMA SummaryAdded ==
  ASSUME EventsOK, NEW p, NEW after, CursorOK(after), NEW e \in 1 .. Len(events),
         Scanning(p, after, e), p.bytes + SummarySize(e) <= ByteLimit,
         NEW q, q = WithSummary(Counted(p), e)
  PROVE  /\ PageOK(q, after) /\ q.status = "scanning" /\ InOrder(q, e)
         /\ \E j \in 1 .. Len(q.summaries) : q.summaries[j] = e
         /\ \A j \in 1 .. Len(q.summaries) :
              q.summaries[j] = e \/ \E k \in 1 .. Len(p.summaries) : q.summaries[j] = p.summaries[k]
         /\ q.outputs = p.outputs /\ q.next = p.next
  <1> DEFINE m == Len(p.summaries)
  <1>1. /\ IsPage(p) /\ WithinLimits(p) /\ InOrder(p, e - 1) /\ OutputsChain(p, after) /\ NextOK(p, after)
        /\ PageOK(p, after) /\ Entering(p, after, e) /\ p.status = "scanning"
    BY DEF PageOK, Scanning, Boundary
  <1>2. SummarySize(e) \in Nat /\ OutputCount(e) \in Nat /\ e \in Nat /\ Len(events) \in Nat
    BY EventSizes
  <1>3. /\ q.summaries = Append(p.summaries, e) /\ q.bytes = p.bytes + SummarySize(e)
        /\ q.scanned = p.scanned + 1 /\ q.next = p.next /\ q.outputs = p.outputs
        /\ q.status = "scanning"
    BY <1>1 DEF IsPage, WithSummary, Counted
  <1>4. p.summaries \in Seq(Nat) /\ m \in Nat /\ p.bytes \in Nat /\ p.scanned \in Nat /\ p.outputs \in Seq(Nat \X Nat)
    BY SMTT(120), <1>1 DEF IsPage
  <1>5. IsPage(q)
    <2>1. Append(p.summaries, e) \in Seq(Nat) /\ p.bytes + SummarySize(e) \in Nat /\ p.scanned + 1 \in Nat
      BY SMTT(120), <1>2, <1>4
    <2>2. p \in [summaries : Seq(Nat), outputs : Seq(Nat \X Nat), bytes : Nat, scanned : Nat,
                 next : Cursors, status : {"scanning", "more", "refused"}]
      BY <1>1 DEF IsPage
    <2> QED BY <2>1, <2>2 DEF IsPage, WithSummary, Counted
  <1>6. Len(q.summaries) = m + 1 /\ q.summaries[m + 1] = e /\ \A k \in 1 .. m : q.summaries[k] = p.summaries[k]
    <2> DEFINE s == p.summaries
    <2>1. s \in Seq(Nat)
      BY <1>4
    <2> HIDE DEF s
    <2>2. /\ Len(Append(s, e)) = Len(s) + 1 /\ Append(s, e)[Len(s) + 1] = e
          /\ \A k \in 1 .. Len(s) : Append(s, e)[k] = s[k]
      BY <1>2, <2>1
    <2> QED BY <1>3, <2>2 DEF s
  <1>7. \A k \in 1 .. m : p.summaries[k] \in 1 .. e - 1
    BY <1>1 DEF InOrder
  <1>8. \A j, k \in 1 .. m : j < k => p.summaries[j] < p.summaries[k]
    BY <1>1 DEF InOrder
  <1>9. \E j \in 1 .. Len(q.summaries) : q.summaries[j] = e
    BY ZenonT(120), <1>4, <1>6, OneMore
  <1>10. \A j \in 1 .. m + 1 : q.summaries[j] = e \/ \E k \in 1 .. m : q.summaries[j] = p.summaries[k]
    <2> HIDE DEF m
    <2> SUFFICES ASSUME NEW j \in 1 .. m + 1, j # m + 1
                 PROVE  \E k \in 1 .. m : q.summaries[j] = p.summaries[k]
      BY <1>6
    <2>1. j \in 1 .. m /\ q.summaries[j] = p.summaries[j]
      BY SMTT(120), <1>4, <1>6
    <2> QED BY <2>1
  <1> HIDE DEF m
  <1>11. InOrder(q, e) /\ InOrder(q, Len(events))
    <2>1. \A j \in 1 .. m + 1 : q.summaries[j] \in 1 .. e /\ q.summaries[j] \in 1 .. Len(events)
      <3> SUFFICES ASSUME NEW j \in 1 .. m + 1
                   PROVE  q.summaries[j] \in 1 .. e /\ q.summaries[j] \in 1 .. Len(events)
        OBVIOUS
      <3>1. q.summaries[j] = e \/ q.summaries[j] \in 1 .. e - 1
        BY <1>7, <1>10
      <3> QED BY <1>2, <3>1
    <2>2. \A j, k \in 1 .. m + 1 : j < k => q.summaries[j] < q.summaries[k]
      <3> SUFFICES ASSUME NEW j \in 1 .. m + 1, NEW k \in 1 .. m + 1, j < k
                   PROVE  q.summaries[j] < q.summaries[k]
        OBVIOUS
      <3>1. j \in 1 .. m /\ (k \in 1 .. m \/ k = m + 1)
        BY <1>4
      <3>2. q.summaries[j] = p.summaries[j] /\ p.summaries[j] \in 1 .. e - 1
        BY <1>6, <1>7, <3>1
      <3>3. CASE k \in 1 .. m
        <4>1. q.summaries[k] = p.summaries[k] /\ p.summaries[j] < p.summaries[k]
          BY <1>6, <1>8, <3>1, <3>3
        <4> QED BY <3>2, <4>1
      <3>4. CASE k = m + 1
        BY SMTT(120), <1>2, <1>6, <3>2, <3>4
      <3> QED BY <3>1, <3>3, <3>4
    <2> QED BY <1>6, <2>1, <2>2 DEF InOrder
  <1>12. WithinLimits(q)
    BY <1>1, <1>3, <1>4, ScanAssumption DEF WithinLimits, Scanning
  <1>13. OutputsChain(q, after)
    <2>1. ASSUME NEW i \in 1 .. Len(p.outputs)
          PROVE  \E j \in 1 .. Len(q.summaries) : q.summaries[j] = p.outputs[i][1]
      <3>1. PICK j \in 1 .. m : p.summaries[j] = p.outputs[i][1]
        BY <1>1 DEF OutputsChain, m
      <3>2. j \in 1 .. m + 1
        BY SMTT(120), <1>4
      <3>3. q.summaries[j] = p.summaries[j]
        BY <1>6
      <3> QED BY <1>6, <3>1, <3>2, <3>3
    <2>2. OutputsChain(p, after) /\ q.outputs = p.outputs
      BY <1>1, <1>3
    <2> QED BY ZenonT(120), <2>1, <2>2 DEF OutputsChain
  <1>14. NextOK(q, after)
    <2>1. LastCursor(q, after) = LastCursor(p, after) /\ (LastComplete(p) => LastComplete(q))
      BY <1>3 DEF LastCursor, LastComplete
    <2>2. CASE p.next = LastCursor(p, after) \/ (p.outputs = <<>> /\ filter # {})
      BY <1>3, <2>1, <2>2 DEF NextOK
    <2>3. CASE ~(p.next = LastCursor(p, after) \/ (p.outputs = <<>> /\ filter # {}))
      <3> DEFINE l == LastCursor(p, after)[2]
      <3>1. /\ p.next[3] = 0 /\ p.next[2] > l
            /\ \E i \in 1 .. m : p.summaries[i] = p.next[2]
            /\ \A i \in 1 .. m : (p.summaries[i] > l /\ p.summaries[i] <= p.next[2]) => OutputCount(p.summaries[i]) = 0
            /\ LastComplete(p)
        BY <1>1, <2>3 DEF NextOK, m
      <3>2. p.next[2] = e - 1
        BY SMTT(120), <1>1, <2>3, EnteredCursors DEF Entering
      <3> HIDE DEF l
      <3>3. \E i \in 1 .. m + 1 : q.summaries[i] = p.next[2]
        <4>1. PICK i \in 1 .. m : p.summaries[i] = p.next[2]
          BY <3>1
        <4>2. i \in 1 .. m + 1 /\ q.summaries[i] = p.summaries[i]
          BY ZenonT(120), <1>4, <1>6, OneMore
        <4> QED BY <4>1, <4>2
      <3>4. ASSUME NEW i \in 1 .. m + 1, q.summaries[i] > l, q.summaries[i] <= p.next[2]
            PROVE  OutputCount(q.summaries[i]) = 0
        <4>1. q.summaries[i] # e
          BY SMTT(120), <1>2, <3>2, <3>4
        <4>2. PICK k \in 1 .. m : q.summaries[i] = p.summaries[k]
          BY <1>10, <4>1
        <4> QED BY <3>1, <3>4, <4>2
      <3> QED BY <1>3, <1>6, <2>1, <3>1, <3>3, <3>4 DEF NextOK, l
    <2> QED BY <2>2, <2>3
  <1>15. PageOK(q, after)
    BY ZenonT(120), <1>1, <1>3, <1>5, <1>11, <1>12, <1>13, <1>14 DEF PageOK
  <1> QED BY <1>3, <1>6, <1>9, <1>10, <1>11, <1>15 DEF m

(* The page after the first e events: refused, or one the client accepts.   *)
PageAfter(p, after, e) ==
    p.status = "refused" \/ (PageOK(p, after) /\ (p.status = "scanning" => Boundary(p, after, e)))

(* An event without outputs moves the cursor onto itself. *)
LEMMA EmptyEventTaken ==
  ASSUME EventsOK, NEW p, NEW after, CursorOK(after), NEW e \in 1 .. Len(events),
         Scanning(p, after, e), p.bytes + SummarySize(e) <= ByteLimit, OutputCount(e) = 0
  PROVE  PageAfter([WithSummary(Counted(p), e) EXCEPT !.next = EventCursor(e, 0)], after, e)
  <1> DEFINE q == WithSummary(Counted(p), e)
             r == [q EXCEPT !.next = EventCursor(e, 0)]
             l == LastCursor(p, after)[2]
             m == Len(q.summaries)
  <1>1. /\ PageOK(q, after) /\ q.status = "scanning" /\ InOrder(q, e)
        /\ \E j \in 1 .. m : q.summaries[j] = e
        /\ \A j \in 1 .. m : q.summaries[j] = e \/ \E k \in 1 .. Len(p.summaries) : q.summaries[j] = p.summaries[k]
        /\ q.outputs = p.outputs /\ q.next = p.next
    BY SMTT(120), SummaryAdded
  <1> HIDE DEF q
  <1>2. IsPage(q) /\ PageOK(p, after) /\ Boundary(p, after, e - 1) /\ Entering(p, after, e)
    BY <1>1 DEF PageOK, Scanning
  <1>3. /\ CursorOK(EventCursor(e, 0)) /\ EventCursor(e, 0)[2] = e /\ EventCursor(e, 0)[3] = 0
        /\ EventCursor(e, 0) \in Cursors
    BY SMTT(120), EventCursorOK DEF CursorOK
  <1>4. after[2] < e /\ PastAll(p.next, e - 1)
    BY <1>2, LastNotBehind DEF Entering
  <1>5. /\ r.summaries = q.summaries /\ r.bytes = q.bytes /\ r.scanned = q.scanned /\ r.outputs = q.outputs
        /\ r.next = EventCursor(e, 0) /\ r.status = "scanning" /\ IsPage(r)
    BY <1>1, <1>2, <1>3 DEF IsPage
  <1> HIDE DEF r
  <1>6. l < e /\ l \in Nat /\ p.next \in Cursors /\ after[2] \in Nat /\ LastCursor(r, after)[2] = l
    BY ZenonT(120), <1>1, <1>2, <1>4, <1>5, LastNotBehind, EnteredCursors DEF LastCursor
  <1>7. ASSUME NEW j \in 1 .. m, q.summaries[j] > l PROVE OutputCount(q.summaries[j]) = 0
    <2>1. CASE q.summaries[j] = e
      BY <2>1
    <2>2. CASE q.summaries[j] # e
      <3>1. PICK k \in 1 .. Len(p.summaries) : q.summaries[j] = p.summaries[k]
        BY <1>1, <2>2
      <3> QED BY SMTT(120), <1>2, <1>7, <3>1 DEF Boundary
    <2> QED BY <2>1, <2>2
  <1>8. LastComplete(r)
    BY <1>1, <1>2, <1>5 DEF LastComplete, Boundary
  <1>9. NextOK(r, after)
    <2> HIDE DEF l
    <2>1. /\ r.next[3] = 0 /\ r.next[2] > l
          /\ \E i \in 1 .. m : r.summaries[i] = r.next[2]
          /\ \A i \in 1 .. m : (r.summaries[i] > l /\ r.summaries[i] <= r.next[2]) => OutputCount(r.summaries[i]) = 0
      BY <1>1, <1>3, <1>5, <1>6, <1>7
    <2> QED BY <1>5, <1>6, <1>8, <2>1 DEF NextOK
  <1>10. Between(after, r.next) = Between(after, p.next)
    <2> DEFINE i == 0
    <2>1. NoStep(p.next, e, i) /\ i \in Nat
      BY SMTT(120), <1>4, <1>6, StepOver
    <2>2. e \in Nat
      BY EventSizes
    <2>3. r.next = EventCursor(e, i)
      BY <1>5
    <2> HIDE DEF i
    <2>4. Between(after, EventCursor(e, i)) = Between(after, p.next)
      BY ZenonT(120), <2>1, <2>2, BetweenSame
    <2> QED BY ZenonT(120), <2>3, <2>4
  <1>11. Later(after, r.next) /\ ~Later(r.next, after)
    BY SMTT(120), <1>3, <1>4, <1>5, <1>6 DEF Later
  <1>12. WithinLimits(r) /\ InOrder(r, Len(events)) /\ OutputsChain(r, after) /\ InOrder(r, e)
    <2>1. WithinLimits(r)
      BY <1>1, <1>5 DEF PageOK, WithinLimits
    <2>2. InOrder(r, Len(events)) /\ InOrder(r, e)
      BY ZenonT(120), <1>1, <1>5 DEF PageOK, InOrder
    <2>3. OutputsChain(r, after)
      BY SMTT(120), <1>1, <1>5 DEF PageOK, OutputsChain
    <2> QED BY <2>1, <2>2, <2>3
  <1>13. PageOK(r, after)
    <2>1. {r.outputs[i] : i \in 1 .. Len(r.outputs)} = Between(after, r.next)
      BY SMTT(120), <1>1, <1>5, <1>10 DEF PageOK
    <2> QED BY ZenonT(120), <1>3, <1>5, <1>9, <1>11, <1>12, <2>1 DEF PageOK
  <1>14. Boundary(r, after, e)
    <2>1. PastAll(r.next, e) /\ ~(e < after[2])
      BY SMTT(120), <1>3, <1>4, <1>5, <1>6, EventSizes DEF PastAll
    <2>2. \A i \in 1 .. Len(r.summaries) : r.summaries[i] > LastCursor(r, after)[2] => OutputCount(r.summaries[i]) = 0
      BY <1>5, <1>6, <1>7
    <2> QED BY <1>8, <1>11, <1>12, <2>1, <2>2 DEF Boundary
  <1>15. PageAfter(r, after, e)
    BY <1>13, <1>14 DEF PageAfter
  <1> QED BY <1>15 DEF r, q

(* A filtered event cuts a page that has something, and moves the cursor of *)
(* an empty one.                                                            *)
LEMMA FilteredEventPassed ==
  ASSUME EventsOK, NEW p, NEW after, CursorOK(after), NEW e \in 1 .. Len(events),
         Scanning(p, after, e), ~Allowed(e)
  PROVE  PageAfter(PassOver(p, e), after, e)
  <1>1. /\ PageOK(p, after) /\ IsPage(p) /\ p.status = "scanning" /\ Boundary(p, after, e - 1)
        /\ Entering(p, after, e) /\ filter # {}
    BY DEF PageOK, Scanning, Allowed
  <1>2. CASE p.outputs # <<>> \/ p.summaries # <<>>
    <2>1. Later(after, p.next)
      BY <1>1, <1>2 DEF PageOK, Boundary
    <2>2. PageOK(Cut(p), after) /\ Cut(p).status = "more"
      BY <1>1, <2>1, CutOK DEF Cut, IsPage
    <2> QED BY <1>2, <2>2 DEF PageAfter, PassOver
  <1>3. CASE p.outputs = <<>> /\ p.summaries = <<>>
    <2> DEFINE r == [Counted(p) EXCEPT !.next = PastEvent(e)]
               i == IF OutputCount(e) > 0 THEN OutputCount(e) - 1 ELSE 0
    <2>1. OutputCount(e) \in Nat /\ i \in Nat /\ (i = 0 \/ i < OutputCount(e)) /\ e \in Nat /\ i + 1 >= OutputCount(e)
      BY EventSizes
    <2>2. PastEvent(e) = EventCursor(e, i)
      BY DEF PastEvent
    <2> HIDE DEF i
    <2>3. /\ CursorOK(EventCursor(e, i)) /\ EventCursor(e, i)[2] = e /\ EventCursor(e, i)[3] = i
          /\ EventCursor(e, i) \in Cursors
      BY ZenonT(120), <2>1, EventCursorOK DEF CursorOK
    <2>4. /\ r.summaries = <<>> /\ r.bytes = p.bytes /\ r.scanned = p.scanned + 1 /\ r.outputs = <<>>
          /\ r.next = EventCursor(e, i) /\ r.status = "scanning" /\ p.scanned \in Nat
      BY <1>1, <1>3, <2>2 DEF IsPage, Counted
    <2>5. IsPage(r)
      <3>1. p.scanned + 1 \in Nat
        BY <2>4
      <3>2. p \in [summaries : Seq(Nat), outputs : Seq(Nat \X Nat), bytes : Nat, scanned : Nat,
                   next : Cursors, status : {"scanning", "more", "refused"}]
        BY <1>1 DEF IsPage
      <3> QED BY <2>2, <2>3, <3>1, <3>2 DEF IsPage, Counted
    <2> HIDE DEF r
    <2>6. /\ p.next \in Cursors /\ after[2] \in Nat /\ after[3] \in Nat
          /\ (PastAll(p.next, e - 1) \/ p.next[2] = e)
      BY <1>1, LastNotBehind, EnteredCursors DEF Entering
    <2>7. Later(after, r.next) /\ ~Later(r.next, after)
      BY SMTT(120), <1>1, <2>1, <2>3, <2>4, <2>6 DEF Later, Entering
    <2>8. Between(after, r.next) = Between(after, p.next)
      <3>1. NoStep(p.next, e, i)
        BY <2>1, <2>6, StepOver
      <3>2. e \in Nat /\ i \in Nat
        BY <2>1
      <3>3. Between(after, EventCursor(e, i)) = Between(after, p.next)
        BY ZenonT(120), <3>1, <3>2, BetweenSame
      <3>4. r.next = EventCursor(e, i)
        BY <2>4
      <3> QED BY ZenonT(120), <3>3, <3>4
    <2>9. WithinLimits(r)
      BY SMTT(120), <1>1, <1>3, <2>4, ScanAssumption DEF PageOK, WithinLimits, Scanning
    <2>10. InOrder(r, Len(events)) /\ OutputsChain(r, after) /\ InOrder(r, e) /\ LastComplete(r) /\ NextOK(r, after)
      BY SMTT(120), <1>1, <2>4 DEF InOrder, OutputsChain, LastComplete, NextOK
    <2>11. PageOK(r, after)
      <3>1. {r.outputs[k] : k \in 1 .. Len(r.outputs)} = Between(after, r.next)
        BY SMTT(120), <1>1, <1>3, <2>4, <2>8 DEF PageOK
      <3> QED BY <2>3, <2>4, <2>5, <2>7, <2>9, <2>10, <3>1 DEF PageOK
    <2>12. Boundary(r, after, e)
      <3>1. PastAll(r.next, e) /\ ~(e < after[2])
        BY SMTT(120), <1>1, <2>1, <2>3, <2>4, <2>6 DEF PastAll, Entering
      <3>2. Len(r.summaries) = 0
        BY <2>4
      <3> QED BY SMTT(120), <2>7, <2>10, <3>1, <3>2 DEF Boundary
    <2>13. PassOver(p, e) = r
      BY <1>3 DEF PassOver, r
    <2> QED BY <2>11, <2>12, <2>13 DEF PageAfter
  <1> QED BY <1>2, <1>3

(* A page that is counted. *)
LEMMA CountedOK ==
  ASSUME NEW p, NEW after, PageOK(p, after), p.scanned # EventLimit
  PROVE  /\ PageOK(Counted(p), after) /\ Counted(p).status = p.status /\ Counted(p).next = p.next
         /\ Counted(p).outputs = p.outputs /\ Counted(p).summaries = p.summaries
         /\ Counted(p).bytes = p.bytes
  <1> DEFINE q == Counted(p)
  <1>1. IsPage(p)
    BY DEF PageOK
  <1>2. /\ IsPage(q) /\ q.status = p.status
        /\ q.outputs = p.outputs /\ q.summaries = p.summaries /\ q.bytes = p.bytes
        /\ q.scanned = p.scanned + 1 /\ q.next = p.next /\ p.scanned \in Nat
    <2>1. p \in [summaries : Seq(Nat), outputs : Seq(Nat \X Nat), bytes : Nat, scanned : Nat,
                 next : Cursors, status : {"scanning", "more", "refused"}]
      BY <1>1 DEF IsPage
    <2>2. p.scanned \in Nat /\ p.scanned + 1 \in Nat
      BY SMTT(120), <2>1
    <2>3. IsPage(q)
      BY <2>1, <2>2 DEF IsPage, Counted
    <2> QED BY <2>1, <2>2, <2>3 DEF Counted
  <1> HIDE DEF q
  <1>3. InOrder(q, Len(events)) /\ OutputsChain(q, after) /\ NextOK(q, after)
    BY ZenonT(120), <1>2 DEF PageOK, InOrder, OutputsChain, NextOK, LastCursor, LastComplete
  <1>4. WithinLimits(q)
    BY SMTT(120), <1>2, ScanAssumption DEF PageOK, WithinLimits
  <1>5. PageOK(q, after)
    BY <1>2, <1>3, <1>4 DEF PageOK
  <1> QED BY <1>2, <1>5 DEF q

(* The page while the outputs of event e are added to q0: n of them are     *)
(* done, those before `start` without effect.                               *)
InEvent(q, q0, after, e, n, start) ==
    q.status = "refused" \/
    /\ PageOK(q, after)
    /\ q.status = "scanning" =>
         IF n <= start THEN q = q0
         ELSE /\ q.next = EventCursor(e, n - 1) /\ q.summaries = q0.summaries
              /\ q.outputs # <<>> /\ q.outputs[Len(q.outputs)] = <<e, n - 1>>

(* One output: it is added, or the page is cut before it, or the query is   *)
(* refused.                                                                 *)
LEMMA OutputTaken ==
  ASSUME EventsOK, NEW q, NEW after, CursorOK(after), PageOK(q, after), q.status = "scanning",
         NEW e \in 1 .. Len(events), NEW n \in Nat, n < OutputCount(e), Allowed(e),
         \E j \in 1 .. Len(q.summaries) : q.summaries[j] = e,
         Follows(LastCursor(q, after), <<e, n>>),
         OneStep(q.next, e, n), Later(after, EventCursor(e, n)),
         NEW r, r = AddOutput(q, e, n)
  PROVE  \/ r.status = "refused"
         \/ PageOK(r, after) /\ r.status = "more"
         \/ PageOK(r, after) /\ r = WithOutput(q, e, n)
  <1>1. IsPage(q) /\ q.outputs \in Seq(Nat \X Nat) /\ q.bytes \in Nat /\ OutputSize(e) \in Nat
    BY EventSizes DEF PageOK, IsPage
  <1>2. q.outputs # <<>> => Later(after, q.next)
    BY DEF PageOK
  <1>3. q.outputs # <<>> => PageOK([q EXCEPT !.status = "more"], after)
    BY <1>2, CutOK
  <1>4. [q EXCEPT !.status = "more"].status = "more" /\ [q EXCEPT !.status = "refused"].status = "refused"
    BY <1>1 DEF IsPage
  <1>5. CASE Len(q.outputs) = OutputLimit
    <2>1. q.outputs # <<>>
      BY <1>5, ScanAssumption
    <2>2. r = [q EXCEPT !.status = "more"]
      BY <1>5 DEF AddOutput, Cut
    <2> QED BY <1>3, <1>4, <2>1, <2>2
  <1>6. CASE Len(q.outputs) # OutputLimit /\ q.bytes + OutputSize(e) > ByteLimit
    <2>1. r = DoesNotFit(q, q.outputs = <<>>)
      BY <1>6 DEF AddOutput
    <2>2. CASE q.outputs = <<>>
      <3>1. r = [q EXCEPT !.status = "refused"]
        BY <2>1, <2>2 DEF DoesNotFit
      <3> QED BY <1>4, <3>1
    <2>3. CASE q.outputs # <<>>
      <3>1. r = [q EXCEPT !.status = "more"]
        BY <2>1, <2>3 DEF DoesNotFit
      <3> QED BY <1>3, <1>4, <2>3, <3>1
    <2> QED BY <2>2, <2>3
  <1>7. CASE Len(q.outputs) # OutputLimit /\ ~(q.bytes + OutputSize(e) > ByteLimit)
    <2>1. r = WithOutput(q, e, n)
      BY <1>7 DEF AddOutput, WithOutput
    <2>2. q.bytes + OutputSize(e) <= ByteLimit
      BY SMTT(120), <1>1, <1>7, ScanAssumption
    <2>3. PageOK(WithOutput(q, e, n), after)
      BY <1>7, <2>2, OutputAdded
    <2> QED BY <2>1, <2>3
  <1> QED BY <1>5, <1>6, <1>7

(* The loop over the outputs of an event. *)
LEMMA OutputsTaken ==
  ASSUME EventsOK, NEW p, NEW after, CursorOK(after), NEW e \in 1 .. Len(events),
         Scanning(p, after, e), p.bytes + SummarySize(e) <= ByteLimit,
         OutputCount(e) # 0, Allowed(e)
  PROVE  PageAfter(AddOutputs(WithSummary(Counted(p), e), e, StartOutput(after, e))[OutputCount(e)], after, e)
  <1> DEFINE q0 == WithSummary(Counted(p), e)
             start == StartOutput(after, e)
             N == OutputCount(e)
             F(n) == AddOutputs(q0, e, start)[n]
  <1>1. /\ PageOK(q0, after) /\ q0.status = "scanning" /\ InOrder(q0, e)
        /\ \E j \in 1 .. Len(q0.summaries) : q0.summaries[j] = e
        /\ q0.outputs = p.outputs /\ q0.next = p.next
    BY SMTT(120), SummaryAdded
  <1>2. PageOK(p, after) /\ Entering(p, after, e)
    BY DEF Scanning
  <1>3. N \in Nat /\ N > 0 /\ e \in Nat
    BY SMTT(120), EventSizes
  <1>4. F(0) = q0 /\ \A n \in 0 .. N - 1 : F(n + 1) = NextOutput(F(n), e, n, start)
    BY SMTT(120), <1>3, AddOutputsRec
  <1>5. /\ p.next \in Cursors /\ p.next[2] \in Nat /\ p.next[3] \in Nat /\ after[2] \in Nat /\ after[3] \in Nat
        /\ LastCursor(p, after)[2] \in Nat /\ LastCursor(p, after)[3] \in Nat
    BY <1>2, LastNotBehind
  <1>6. /\ after[2] < e => p.next[2] = e - 1 /\ LastCursor(p, after)[2] < e
        /\ after[2] = e => p.next = after /\ LastCursor(p, after) = after
    BY <1>2, EnteredCursors
  <1>7. /\ start \in Nat /\ start < N
        /\ (p.next[2] = e /\ start = p.next[3] + 1) \/ (PastAll(p.next, e - 1) /\ start = 0)
        /\ Follows(LastCursor(p, after), <<e, start>>)
        /\ after[2] < e \/ (after[2] = e /\ start > after[3])
    <2>1. CASE after[2] < e
      <3>1. start = 0 /\ PastAll(p.next, e - 1) /\ LastCursor(p, after)[2] < e
        BY SMTT(120), <1>2, <1>3, <1>5, <1>6, <2>1 DEF StartOutput, Entering
      <3>2. Follows(LastCursor(p, after), <<e, 0>>)
        BY SMTT(120), <1>3, <1>5, <3>1 DEF Follows
      <3> QED BY SMTT(120), <1>3, <2>1, <3>1, <3>2
    <2>2. CASE after[2] = e
      <3>1. start = after[3] + 1 /\ after[3] + 1 < N /\ p.next = after /\ LastCursor(p, after) = after
        BY SMTT(120), <1>2, <1>5, <1>6, <2>2 DEF StartOutput, Entering
      <3>2. Follows(after, <<e, after[3] + 1>>)
        BY <2>2 DEF Follows
      <3> QED BY SMTT(120), <1>3, <1>5, <2>2, <3>1, <3>2
    <2> QED BY ZenonT(120), <1>2, <2>1, <2>2 DEF Entering
  <1> HIDE DEF q0, start, N, F
  <1>8. ASSUME NEW n \in 0 .. N - 1, n >= start
        PROVE  Later(after, EventCursor(e, n))
    BY SMTT(120), <1>3, <1>5, <1>7, <1>8 DEF Later, EventCursor
  <1>9. ASSUME NEW n \in 0 .. N - 1, NEW q, InEvent(q, q0, after, e, n, start),
               NEW r, r = NextOutput(q, e, n, start)
        PROVE  InEvent(r, q0, after, e, n + 1, start)
    <2>1. n \in Nat /\ n < N /\ n + 1 - 1 = n /\ (n + 1 <= start <=> n < start)
      BY SMTT(120), <1>3, <1>7
    <2>2. CASE q.status # "scanning"
      <3>1. r = q
        BY <1>9, <2>2 DEF NextOutput
      <3> QED BY <1>9, <2>2, <3>1 DEF InEvent
    <2>3. CASE q.status = "scanning" /\ n < start
      <3>1. r = q /\ q = q0 /\ PageOK(q, after)
        BY SMTT(120), <1>7, <1>9, <2>1, <2>3 DEF NextOutput, InEvent
      <3> QED BY ZenonT(120), <2>1, <2>3, <3>1 DEF InEvent
    <2>4. CASE q.status = "scanning" /\ ~(n < start)
      <3>1. r = AddOutput(q, e, n) /\ PageOK(q, after)
        BY <1>9, <2>4 DEF NextOutput, InEvent
      <3>2. n >= start /\ (n <= start <=> n = start)
        BY SMTT(120), <1>7, <2>1, <2>4
      <3>3. /\ q.summaries = q0.summaries
            /\ Follows(LastCursor(q, after), <<e, n>>)
            /\ OneStep(q.next, e, n)
        <4>1. CASE n = start
          <5>1. q = q0
            BY <1>9, <2>4, <3>2, <4>1 DEF InEvent
          <5>2. OneStep(p.next, e, n)
            BY <1>5, <1>7, <2>1, <4>1, StepToNext
          <5>3. LastCursor(q, after) = LastCursor(p, after)
            BY <1>1, <5>1 DEF LastCursor
          <5> QED BY <1>1, <1>7, <4>1, <5>1, <5>2, <5>3
        <4>2. CASE n # start
          <5>1. /\ q.next = EventCursor(e, n - 1) /\ q.summaries = q0.summaries
                /\ q.outputs # <<>> /\ q.outputs[Len(q.outputs)] = <<e, n - 1>>
            BY <1>9, <2>4, <3>2, <4>2 DEF InEvent
          <5>2. LastCursor(q, after) = EventCursor(e, n - 1)
            BY <5>1 DEF LastCursor, OutputCursor
          <5>3. EventCursor(e, n - 1)[2] = e /\ EventCursor(e, n - 1)[3] = n - 1
            BY DEF EventCursor
          <5>4. q.next \in Cursors
            BY <3>1 DEF PageOK, CursorOK
          <5>5. n = (n - 1) + 1
            BY SMTT(120), <2>1
          <5>6. OneStep(q.next, e, n)
            BY <2>1, <5>1, <5>3, <5>4, <5>5, StepToNext
          <5> QED BY <5>1, <5>2, <5>3, <5>5, <5>6 DEF Follows
        <4> QED BY <4>1, <4>2
      <3>4. \E j \in 1 .. Len(q.summaries) : q.summaries[j] = e
        BY ZenonT(120), <1>1, <3>3
      <3>5. \/ r.status = "refused"
            \/ PageOK(r, after) /\ r.status = "more"
            \/ PageOK(r, after) /\ r = WithOutput(q, e, n)
        BY SMTT(120), <1>8, <2>1, <2>4, <3>1, <3>2, <3>3, <3>4, OutputTaken DEF N
      <3>6. CASE PageOK(r, after) /\ r = WithOutput(q, e, n)
        <4>1. IsPage(q) /\ q.outputs \in Seq(Nat \X Nat) /\ <<e, n>> \in Nat \X Nat
          BY ZenonT(120), <1>3, <2>1, <3>1 DEF PageOK, IsPage
        <4>2. r.next = EventCursor(e, n) /\ r.summaries = q.summaries /\ r.outputs = Append(q.outputs, <<e, n>>)
          BY <3>6, <4>1 DEF IsPage, WithOutput
        <4>3. r.outputs # <<>> /\ r.outputs[Len(r.outputs)] = <<e, n>>
          <5> DEFINE s == q.outputs
                     o == <<e, n>>
          <5>1. s \in Seq(Nat \X Nat) /\ o \in Nat \X Nat /\ r.outputs = Append(s, o)
            BY <4>1, <4>2
          <5> HIDE DEF s, o
          <5>2. Append(s, o) # <<>> /\ Append(s, o)[Len(Append(s, o))] = o
            BY SMTT(120), <5>1
          <5> QED BY <5>1, <5>2 DEF o
        <4>4. ~(n + 1 <= start) /\ (n + 1) - 1 = n
          BY <2>1, <2>4
        <4>5. r.summaries = q0.summaries
          BY <3>3, <4>2
        <4> QED BY ZenonT(120), <3>6, <4>2, <4>3, <4>4, <4>5 DEF InEvent
      <3> QED BY ZenonT(120), <3>5, <3>6 DEF InEvent
    <2> QED BY ZenonT(120), <2>2, <2>3, <2>4
  <1>10. InEvent(F(N), q0, after, e, N, start)
    <2> DEFINE S == {n \in 0 .. N : InEvent(F(n), q0, after, e, n, start)}
    <2>1. 0 \in S
      <3>1. InEvent(q0, q0, after, e, 0, start)
        BY <1>1, <1>7 DEF InEvent
      <3> QED BY <1>3, <1>4, <3>1
    <2>2. ASSUME NEW n \in 0 .. N - 1, n \in S PROVE n + 1 \in S
      <3>1. InEvent(F(n), q0, after, e, n, start) /\ F(n + 1) = NextOutput(F(n), e, n, start)
        BY <1>4, <2>2
      <3>2. InEvent(F(n + 1), q0, after, e, n + 1, start)
        BY <1>9, <3>1
      <3> QED BY SMTT(120), <1>3, <3>2
    <2> HIDE DEF S
    <2>3. \A n \in 0 .. N : n \in S
      BY <1>3, <2>1, <2>2, UpTo, ZenonT(120)
    <2>4. N \in S
      BY SMTT(120), <1>3, <2>3
    <2> QED BY <2>4 DEF S
  <1>11. PageAfter(F(N), after, e)
    <2> DEFINE q == F(N)
    <2>1. InEvent(q, q0, after, e, N, start)
      BY <1>10
    <2> HIDE DEF q
    <2> SUFFICES ASSUME q.status = "scanning", q.status # "refused", PageOK(q, after)
                 PROVE  Boundary(q, after, e)
      BY <2>1 DEF InEvent, PageAfter, q
    <2>2. /\ q.next = EventCursor(e, N - 1) /\ q.summaries = q0.summaries
          /\ q.outputs # <<>> /\ q.outputs[Len(q.outputs)] = <<e, N - 1>>
      BY SMTT(120), <1>3, <1>7, <2>1 DEF InEvent
    <2>3. PastAll(q.next, e) /\ ~(e < after[2])
      BY SMTT(120), <1>3, <1>5, <1>7, <2>2 DEF PastAll, EventCursor, N
    <2>4. InOrder(q, e)
      BY <1>1, <2>2 DEF InOrder
    <2>5. Later(after, q.next)
      BY <2>2 DEF PageOK
    <2>6. LastComplete(q)
      BY SMTT(120), <1>3, <2>2 DEF LastComplete, N
    <2>7. LastCursor(q, after)[2] = e
      BY SMTT(120), <2>2 DEF LastCursor, OutputCursor, EventCursor
    <2>8. \A i \in 1 .. Len(q.summaries) : ~(q.summaries[i] > LastCursor(q, after)[2])
      BY SMTT(120), <1>3, <2>4, <2>7 DEF InOrder
    <2> QED BY <2>3, <2>4, <2>5, <2>6, <2>8 DEF Boundary
  <1> QED BY <1>11 DEF F, N, q0, start

(* One round of the loop over the events. *)
LEMMA EventTaken ==
  ASSUME EventsOK, NEW p, NEW after, CursorOK(after), NEW e \in 1 .. Len(events),
         PageAfter(p, after, e - 1)
  PROVE  PageAfter(AddEvent(p, after, e), after, e)
  <1>1. after[2] \in Nat /\ after[3] \in Nat /\ OutputCount(e) \in Nat /\ SummarySize(e) \in Nat /\ e \in Nat
    BY EventSizes DEF CursorOK, Cursors
  <1>2. CASE p.status # "scanning"
    BY <1>2 DEF AddEvent, PageAfter
  <1>3. CASE p.status = "scanning" /\ Passed(after, e)
    <2>1. AddEvent(p, after, e) = p /\ PageOK(p, after) /\ Boundary(p, after, e - 1)
      BY <1>3 DEF AddEvent, PageAfter
    <2>2. e - 1 < after[2] /\ e <= after[2] /\ (e = after[2] => after[3] + 1 >= OutputCount(e))
      BY SMTT(120), <1>1, <1>3 DEF Passed
    <2>3. p = EmptyPage(after)
      BY <2>1, <2>2 DEF Boundary
    <2>4. p.next = after /\ InOrder(p, e) /\ p.summaries = <<>> /\ p.scanned = 0 /\ LastComplete(p)
      BY SMTT(120), <2>3 DEF EmptyPage, InOrder, LastComplete
    <2>5. e = after[2] => PastAll(p.next, e)
      BY <2>2, <2>4 DEF PastAll
    <2>6. e < after[2] \/ e = after[2]
      BY SMTT(120), <1>1, <2>2
    <2>7. Boundary(p, after, e)
      BY <1>1, <2>3, <2>4, <2>5, <2>6 DEF Boundary
    <2> QED BY <1>3, <2>1, <2>7 DEF PageAfter
  <1>4. CASE p.status = "scanning" /\ ~Passed(after, e)
    <2>1. PageOK(p, after) /\ IsPage(p) /\ Boundary(p, after, e - 1) /\ Entering(p, after, e)
      BY <1>4, EventEntered DEF PageAfter, PageOK
    <2>2. CASE p.scanned = EventLimit \/ Len(p.outputs) = OutputLimit
      <3>1. p.scanned > 0 \/ p.outputs # <<>>
        BY SMTT(120), <2>2, ScanAssumption
      <3>2. Later(after, p.next)
        BY <2>1, <3>1 DEF Boundary, PageOK
      <3>3. PageOK(Cut(p), after) /\ Cut(p).status = "more" /\ AddEvent(p, after, e) = Cut(p)
        BY <1>4, <2>1, <2>2, <3>2, CutOK DEF Cut, IsPage, AddEvent
      <3> QED BY <3>3 DEF PageAfter
    <2>3. CASE ~(p.scanned = EventLimit \/ Len(p.outputs) = OutputLimit)
      <3>1. Scanning(p, after, e)
        BY <1>4, <2>1, <2>3 DEF Scanning
      <3>2. CASE ~Allowed(e)
        <4>1. AddEvent(p, after, e) = PassOver(p, e)
          BY <1>4, <2>3, <3>2 DEF AddEvent
        <4> QED BY <3>1, <3>2, <4>1, FilteredEventPassed
      <3>3. CASE Allowed(e)
        <4> DEFINE c == Counted(p)
        <4>1. AddEvent(p, after, e) = AddAllowed(c, after, e)
          BY <1>4, <2>3, <3>3 DEF AddEvent
        <4>2. /\ PageOK(c, after) /\ c.status = "scanning" /\ c.next = p.next /\ c.outputs = p.outputs
              /\ c.summaries = p.summaries /\ c.bytes = p.bytes /\ p.bytes \in Nat
          BY <1>4, <2>1, <2>3, CountedOK DEF IsPage
        <4> HIDE DEF c
        <4>3. CASE c.bytes + SummarySize(e) > ByteLimit
          <5>1. AddAllowed(c, after, e) = DoesNotFit(c, c.summaries = <<>> /\ c.outputs = <<>>)
            BY <4>3 DEF AddAllowed
          <5>2. IsPage(c)
            BY <4>2 DEF PageOK
          <5>3. CASE c.summaries = <<>> /\ c.outputs = <<>>
            <6>1. AddAllowed(c, after, e) = [c EXCEPT !.status = "refused"]
              BY <5>1, <5>3 DEF DoesNotFit
            <6>2. [c EXCEPT !.status = "refused"].status = "refused"
              BY <5>2 DEF IsPage
            <6> QED BY <4>1, <6>1, <6>2 DEF PageAfter
          <5>4. CASE ~(c.summaries = <<>> /\ c.outputs = <<>>)
            <6>1. AddAllowed(c, after, e) = [c EXCEPT !.status = "more"]
              BY <5>1, <5>4 DEF DoesNotFit
            <6>2. [c EXCEPT !.status = "more"].status = "more"
              BY <5>2 DEF IsPage
            <6>3. Later(after, c.next)
              BY <2>1, <4>2, <5>4 DEF Boundary, PageOK
            <6>4. PageOK([c EXCEPT !.status = "more"], after)
              BY <4>2, <6>3, CutOK
            <6> QED BY <4>1, <6>1, <6>2, <6>4 DEF PageAfter
          <5> QED BY <5>3, <5>4
        <4>4. CASE ~(c.bytes + SummarySize(e) > ByteLimit)
          <5>1. p.bytes + SummarySize(e) <= ByteLimit
            BY SMTT(120), <1>1, <4>2, <4>4, ScanAssumption
          <5>2. CASE OutputCount(e) = 0
            <6>1. AddAllowed(c, after, e) = [WithSummary(c, e) EXCEPT !.next = EventCursor(e, 0)]
              BY <4>4, <5>2 DEF AddAllowed
            <6> DEFINE r == [WithSummary(c, e) EXCEPT !.next = EventCursor(e, 0)]
            <6>2. PageAfter(r, after, e)
              BY <3>1, <5>1, <5>2, EmptyEventTaken, ZenonT(120) DEF c
            <6> HIDE DEF r
            <6>3. AddEvent(p, after, e) = r
              BY <4>1, <6>1 DEF r
            <6> QED BY <6>2, <6>3
          <5>3. CASE OutputCount(e) # 0
            <6>1. AddAllowed(c, after, e) = AddOutputs(WithSummary(c, e), e, StartOutput(after, e))[OutputCount(e)]
              BY <4>4, <5>3 DEF AddAllowed
            <6> QED BY <3>1, <3>3, <4>1, <5>1, <5>3, <6>1, OutputsTaken, ZenonT(120) DEF c
          <5> QED BY <5>2, <5>3
        <4> QED BY <4>3, <4>4
      <3> QED BY <3>2, <3>3
    <2> QED BY <2>2, <2>3
  <1> QED BY <1>2, <1>3, <1>4

(* Every page the keeper makes of the first events is refused or accepted.  *)
LEMMA PagesOK ==
  ASSUME EventsOK, NEW after, CursorOK(after), NEW last \in 0 .. Len(events)
  PROVE  PageAfter(ScanEvents(after, last)[last], after, last)
  <1> DEFINE F(n) == ScanEvents(after, last)[n]
             S == {n \in 0 .. last : PageAfter(F(n), after, n)}
  <1>1. Len(events) \in Nat /\ last \in Nat
    BY DEF EventsOK
  <1>2. F(0) = EmptyPage(after) /\ \A n \in 0 .. last - 1 : F(n + 1) = AddEvent(F(n), after, n + 1)
    BY <1>1, ScanEventsRec
  <1> HIDE DEF F
  <1>3. 0 \in S
    <2> DEFINE p == EmptyPage(after)
    <2>1. PageOK(p, after)
      BY EmptyPageOK
    <2>2. /\ p.next = after /\ InOrder(p, 0) /\ p.summaries = <<>> /\ p.scanned = 0 /\ LastComplete(p)
      BY DEF EmptyPage, InOrder, LastComplete
    <2>3. after[2] \in Nat
      BY DEF CursorOK, Cursors
    <2>4. IF 0 < after[2] THEN p = EmptyPage(after) ELSE PastAll(p.next, 0)
      BY SMTT(120), <2>2, <2>3 DEF PastAll
    <2> HIDE DEF p
    <2>5. Boundary(p, after, 0)
      BY <2>2, <2>4 DEF Boundary, p
    <2>6. PageAfter(F(0), after, 0)
      BY <1>2, <2>1, <2>5 DEF PageAfter, p
    <2> QED BY SMTT(120), <1>1, <2>6
  <1>4. ASSUME NEW n \in 0 .. last - 1, n \in S PROVE n + 1 \in S
    <2>1. n + 1 \in 1 .. Len(events) /\ (n + 1) - 1 = n /\ n + 1 \in 0 .. last
      BY <1>1
    <2>2. PageAfter(F(n), after, n)
      BY <1>4
    <2> DEFINE e == n + 1
    <2>3. e \in 1 .. Len(events) /\ PageAfter(F(n), after, e - 1)
      BY <2>1, <2>2
    <2> HIDE DEF e
    <2>4. PageAfter(AddEvent(F(n), after, e), after, e)
      BY <2>3, EventTaken
    <2> QED BY <1>2, <2>1, <2>4 DEF e
  <1> HIDE DEF S
  <1>5. \A n \in 0 .. last : n \in S
    BY <1>1, <1>3, <1>4, UpTo, ZenonT(120)
  <1>6. last \in S
    BY SMTT(120), <1>1, <1>5
  <1> QED BY <1>6 DEF S, F

(* The replica's events are the first ones. *)
LEMMA IndexedOK ==
  ASSUME EventsOK, NEW h
  PROVE  Indexed(h) \in 0 .. Len(events)
  <1> DEFINE D == {e \in DOMAIN events : events[e].height <= h}
  <1>1. Len(events) \in Nat /\ DOMAIN events = 1 .. Len(events)
    BY DEF EventsOK
  <1>2. IsFiniteSet(1 .. Len(events)) /\ Cardinality(1 .. Len(events)) = Len(events)
    <2> DEFINE n == Len(events)
    <2>1. n \in Nat /\ n \in Int /\ 1 \in Int
      BY <1>1
    <2> HIDE DEF n
    <2>2. IsFiniteSet(1 .. n) /\ Cardinality(1 .. n) = IF 1 > n THEN 0 ELSE n - 1 + 1
      BY <2>1, FS_Interval
    <2>3. Cardinality(1 .. n) = n
      BY SMTT(120), <2>1, <2>2
    <2> QED BY <2>2, <2>3 DEF n
  <1>3. D \subseteq 1 .. Len(events)
    BY <1>1
  <1>4. IsFiniteSet(D) /\ Cardinality(D) <= Cardinality(1 .. Len(events))
    BY <1>2, <1>3, FS_Subset
  <1>5. Cardinality(D) \in Nat
    BY <1>4, FS_CardinalityType
  <1> QED BY SMTT(120), <1>1, <1>2, <1>4, <1>5 DEF Indexed

-----------------------------------------------------------------------------
(* Notes *)

Distinct(s) == \A i, j \in 1 .. Len(s) : s[i] = s[j] => i = j

Members(s) == {s[i] : i \in 1 .. Len(s)}

(* The range of a sequence is the set of its members. *)
LEMMA RangeMembers ==
  ASSUME NEW T, NEW s \in Seq(T)
  PROVE  Range(s) = Members(s) /\ Len(s) \in Nat /\ Members(s) \subseteq T
  BY DEF Range, Members

(* One more member. *)
LEMMA MembersAppend ==
  ASSUME NEW T, NEW s \in Seq(T), NEW x \in T
  PROVE  /\ Append(s, x) \in Seq(T) /\ Members(Append(s, x)) = Members(s) \cup {x}
         /\ Distinct(s) /\ x \notin Members(s) => Distinct(Append(s, x))
  <1> DEFINE n == Len(s)
             t == Append(s, x)
  <1>1. n \in Nat /\ t \in Seq(T) /\ Len(t) = n + 1 /\ t[n + 1] = x /\ \A k \in 1 .. n : t[k] = s[k]
    OBVIOUS
  <1> HIDE DEF t, n
  <1>2. \A k \in 1 .. n + 1 : k \in 1 .. n \/ k = n + 1
    BY <1>1
  <1>3. \A k \in 1 .. n : k \in 1 .. n + 1
    BY SMTT(120), <1>1
  <1>4. Members(t) = {t[k] : k \in 1 .. n + 1} /\ Members(s) = {s[k] : k \in 1 .. n}
    BY <1>1 DEF Members, n
  <1>5. n + 1 \in 1 .. n + 1
    BY <1>1
  <1>6. Members(t) = Members(s) \cup {x}
    BY <1>1, <1>2, <1>3, <1>4, <1>5, ZenonT(120)
  <1>7. ASSUME Distinct(s), x \notin Members(s), NEW j \in 1 .. n + 1, NEW k \in 1 .. n + 1, t[j] = t[k]
        PROVE  j = k
    <2>1. CASE j \in 1 .. n /\ k \in 1 .. n
      BY <1>1, <1>7, <2>1 DEF Distinct, n
    <2>2. CASE j = n + 1 /\ k = n + 1
      BY <2>2
    <2>3. CASE j = n + 1 /\ k \in 1 .. n
      BY <1>1, <1>4, <1>7, <2>3
    <2>4. CASE j \in 1 .. n /\ k = n + 1
      BY <1>1, <1>4, <1>7, <2>4
    <2> QED BY <1>2, <2>1, <2>2, <2>3, <2>4
  <1>8. Distinct(s) /\ x \notin Members(s) => Distinct(t)
    BY <1>1, <1>7 DEF Distinct
  <1> QED BY <1>1, <1>6, <1>8 DEF t

(* Kept returns the members in the set, and repeats none that was not       *)
(* repeated.                                                                *)
LEMMA KeptMembers ==
  ASSUME NEW T, NEW s \in Seq(T), NEW set
  PROVE  LET k == Kept(s, set)[Len(s)]
         IN  /\ k \in Seq(T) /\ Members(k) = Members(s) \cap set
             /\ Distinct(s) => Distinct(k)
  <1> DEFINE N == Len(s)
             F(n) == Kept(s, set)[n]
             Upto(n) == {s[i] : i \in 1 .. n}
             P(n) == /\ F(n) \in Seq(T) /\ Members(F(n)) = Upto(n) \cap set
                     /\ Distinct(s) => Distinct(F(n))
             S == {n \in 0 .. N : P(n)}
  <1>1. N \in Nat /\ \A i \in 1 .. N : s[i] \in T
    BY SMTT(120)
  <1>2. F(0) = <<>> /\ \A n \in 0 .. N - 1 : F(n + 1) = IF s[n + 1] \in set THEN Append(F(n), s[n + 1]) ELSE F(n)
    BY SMTT(120), <1>1, KeptRec
  <1> HIDE DEF F, N
  <1>3. 0 \in S
    <2>1. Upto(0) = {} /\ Members(<<>>) = {} /\ <<>> \in Seq(T) /\ Distinct(<<>>)
      BY SMTT(120) DEF Members, Distinct
    <2> HIDE DEF Upto
    <2>2. P(0)
      BY <1>2, <2>1
    <2> QED BY SMTT(120), <1>1, <2>2
  <1>4. ASSUME NEW n \in 0 .. N - 1, n \in S PROVE n + 1 \in S
    <2> DEFINE x == s[n + 1]
               f == F(n)
    <2>1. /\ n \in Nat /\ n + 1 \in 0 .. N /\ n + 1 \in 1 .. N /\ x \in T
          /\ \A i \in 1 .. n + 1 : i \in 1 .. n \/ i = n + 1
          /\ \A i \in 1 .. n : i \in 1 .. n + 1 /\ i \in 1 .. N /\ i # n + 1
          /\ n + 1 \in 1 .. n + 1
      BY SMTT(120), <1>1
    <2>2. f \in Seq(T) /\ Members(f) = Upto(n) \cap set /\ (Distinct(s) => Distinct(f))
      BY <1>4
    <2>3. Upto(n + 1) = Upto(n) \cup {x}
      BY <2>1, ZenonT(120)
    <2>4. Distinct(s) => x \notin Upto(n)
      BY <2>1 DEF Distinct, N
    <2>5. F(n + 1) = IF x \in set THEN Append(f, x) ELSE f
      BY <1>2
    <2> HIDE DEF x, f, Upto
    <2>6. P(n + 1)
      <3>1. CASE x \in set
        <4>1. F(n + 1) = Append(f, x)
          BY <2>5, <3>1
        <4>2. /\ Append(f, x) \in Seq(T) /\ Members(Append(f, x)) = Members(f) \cup {x}
              /\ Distinct(f) /\ x \notin Members(f) => Distinct(Append(f, x))
          BY <2>1, <2>2, MembersAppend
        <4>3. Members(f) \cup {x} = Upto(n + 1) \cap set
          BY <2>2, <2>3, <3>1
        <4> QED BY <2>2, <2>4, <4>1, <4>2, <4>3
      <3>2. CASE x \notin set
        <4>1. F(n + 1) = f
          BY <2>5, <3>2
        <4>2. Upto(n) \cap set = Upto(n + 1) \cap set
          BY <2>3, <3>2
        <4> QED BY <2>2, <4>1, <4>2
      <3> QED BY <3>1, <3>2
    <2> QED BY <2>1, <2>6
  <1> HIDE DEF S
  <1>5. \A n \in 0 .. N : n \in S
    BY <1>1, <1>3, <1>4, UpTo, ZenonT(120)
  <1>6. N \in S
    BY SMTT(120), <1>1, <1>5
  <1>7. P(N)
    BY <1>6 DEF S
  <1> QED BY <1>7 DEF F, N, Members

(* The members of two sequences in a row. *)
LEMMA MembersConcat ==
  ASSUME NEW T, NEW s \in Seq(T), NEW t \in Seq(T)
  PROVE  /\ s \o t \in Seq(T) /\ Members(s \o t) = Members(s) \cup Members(t)
         /\ Distinct(s) /\ Distinct(t) /\ Members(s) \cap Members(t) = {} => Distinct(s \o t)
  <1> DEFINE m == Len(s)
             n == Len(t)
             u == s \o t
  <1>1. /\ m \in Nat /\ n \in Nat /\ u \in Seq(T) /\ Len(u) = m + n
        /\ \A k \in 1 .. m : u[k] = s[k]
        /\ \A k \in 1 .. m + n : k > m => u[k] = t[k - m]
    OBVIOUS
  <1> HIDE DEF u, m, n
  <1>2. Members(u) = {u[k] : k \in 1 .. m + n} /\ Members(s) = {s[k] : k \in 1 .. m} /\ Members(t) = {t[k] : k \in 1 .. n}
    BY <1>1 DEF Members, m, n
  <1>3. \A k \in 1 .. m + n : k \in 1 .. m \/ (k > m /\ k - m \in 1 .. n)
    BY SMTT(120), <1>1
  <1>4. \A k \in 1 .. m + n : (k \in 1 .. m /\ u[k] = s[k]) \/ (k > m /\ k - m \in 1 .. n /\ u[k] = t[k - m])
    BY <1>1, <1>3
  <1>5. \A k \in 1 .. n : k + m \in 1 .. m + n /\ u[k + m] = t[k]
    <2> TAKE k \in 1 .. n
    <2>1. k + m \in 1 .. m + n /\ k + m > m /\ (k + m) - m = k
      BY SMTT(120), <1>1
    <2> QED BY <1>1, <2>1
  <1>6. \A k \in 1 .. m : k \in 1 .. m + n /\ u[k] = s[k]
    BY <1>1
  <1>7. Members(u) = Members(s) \cup Members(t)
    <2>1. ASSUME NEW x, x \in Members(u) PROVE x \in Members(s) \cup Members(t)
      <3>1. PICK k \in 1 .. m + n : x = u[k]
        BY <1>2, <2>1
      <3> QED BY <1>2, <1>4, <3>1
    <2>2. ASSUME NEW x, x \in Members(s) PROVE x \in Members(u)
      BY SMTT(120), <1>2, <1>6, <2>2
    <2>3. ASSUME NEW x, x \in Members(t) PROVE x \in Members(u)
      BY SMTT(120), <1>2, <1>5, <2>3
    <2> QED BY <2>1, <2>2, <2>3, ZenonT(120)
  <1>8. ASSUME Distinct(s), Distinct(t), Members(s) \cap Members(t) = {},
               NEW j \in 1 .. m + n, NEW k \in 1 .. m + n, u[j] = u[k]
        PROVE  j = k
    <2>1. CASE j \in 1 .. m /\ k \in 1 .. m
      BY <1>6, <1>8, <2>1 DEF Distinct, m
    <2>2. CASE j > m /\ k > m
      <3>1. /\ j - m \in 1 .. n /\ k - m \in 1 .. n /\ t[j - m] = t[k - m]
        BY SMTT(120), <1>1, <1>4, <1>8, <2>2
      <3>2. j - m = k - m
        BY <1>8, <3>1 DEF Distinct, n
      <3> QED BY SMTT(120), <1>1, <3>2
    <2>3. CASE j \in 1 .. m /\ k > m
      <3>1. u[j] \in Members(s) /\ u[k] \in Members(t)
        BY SMTT(120), <1>1, <1>2, <1>4, <2>3
      <3> QED BY <1>8, <3>1
    <2>4. CASE j > m /\ k \in 1 .. m
      <3>1. u[k] \in Members(s) /\ u[j] \in Members(t)
        BY SMTT(120), <1>1, <1>2, <1>4, <2>4
      <3> QED BY <1>8, <3>1
    <2> QED BY <1>3, <2>1, <2>2, <2>3, <2>4
  <1>9. Distinct(s) /\ Distinct(t) /\ Members(s) \cap Members(t) = {} => Distinct(u)
    BY <1>1, <1>8 DEF Distinct
  <1> QED BY <1>1, <1>7, <1>9 DEF u

(* A sequence without repetitions is as long as its set of members. *)
LEMMA DistinctLength ==
  ASSUME NEW T, NEW s \in Seq(T), Distinct(s)
  PROVE  Len(s) = Cardinality(Members(s))
  <1>1. Len(s) \in Nat
    OBVIOUS
  <1>2. s \in Bijection(1 .. Len(s), Members(s))
    BY SMTT(120) DEF Bijection, Injection, Surjection, IsInjective, Members, Distinct
  <1>3. ExistsBijection(1 .. Len(s), Members(s))
    BY <1>2 DEF ExistsBijection
  <1> QED BY <1>1, <1>3, FS_CountingElements

(* Outputs lists every output once. *)
LEMMA OutputsListed ==
  ASSUME EventsOK
  PROVE  /\ Outputs \in Seq(Nat \X Nat) /\ Distinct(Outputs)
         /\ Members(Outputs) = {o \in Nat \X Nat : IsOutput(o[1], o[2])}
  <1> DEFINE N == Len(events)
             F(n) == OutputsUpTo[n]
             Upto(n) == {o \in Nat \X Nat : IsOutput(o[1], o[2]) /\ o[1] <= n}
             P(n) == F(n) \in Seq(Nat \X Nat) /\ Distinct(F(n)) /\ Members(F(n)) = Upto(n)
             S == {n \in 0 .. N : P(n)}
  <1>1. N \in Nat
    BY DEF EventsOK
  <1>2. F(0) = <<>> /\ \A n \in 0 .. N - 1 : F(n + 1) = F(n) \o EventOutputs(n + 1)
    BY <1>1, OutputsRec
  <1> HIDE DEF F
  <1>3. 0 \in S
    <2>1. Members(<<>>) = {} /\ <<>> \in Seq(Nat \X Nat) /\ Distinct(<<>>)
      BY SMTT(120) DEF Members, Distinct
    <2>2. Upto(0) = {}
      BY <1>1 DEF IsOutput
    <2> HIDE DEF Upto
    <2>3. P(0)
      BY <1>2, <2>1, <2>2
    <2> QED BY SMTT(120), <1>1, <2>3
  <1>4. ASSUME NEW n \in 0 .. N - 1, n \in S PROVE n + 1 \in S
    <2> DEFINE e == n + 1
               s == F(n)
               t == EventOutputs(e)
               c == OutputCount(e)
    <2>1. n \in Nat /\ e \in 0 .. N /\ e \in 1 .. N /\ e \in Nat
      BY <1>1
    <2>2. s \in Seq(Nat \X Nat) /\ Distinct(s) /\ Members(s) = Upto(n)
      BY <1>4
    <2>3. F(n + 1) = s \o t
      BY <1>2
    <2>4. c \in Nat
      BY <2>1, EventSizes
    <2>5. t \in Seq(Nat \X Nat) /\ Len(t) = c /\ \A i \in 1 .. c : t[i] = <<e, i - 1>>
      <3> HIDE DEF e
      <3> QED BY SMTT(120), <2>1, <2>4 DEF EventOutputs
    <2> HIDE DEF s, t, c
    <2>6. Distinct(t)
      <3>1. \A i, j \in 1 .. c : t[i] = t[j] => i - 1 = j - 1
        BY SMTT(120), <2>5
      <3> QED BY <2>4, <2>5, <3>1 DEF Distinct
    <2>7. Members(t) = {o \in Nat \X Nat : o[1] = e /\ o[2] \in 0 .. c - 1}
      <3>1. ASSUME NEW x \in Members(t) PROVE x \in {o \in Nat \X Nat : o[1] = e /\ o[2] \in 0 .. c - 1}
        <4>1. PICK i \in 1 .. c : x = <<e, i - 1>>
          BY <2>5 DEF Members
        <4>2. i - 1 \in 0 .. c - 1 /\ i - 1 \in Nat
          BY SMTT(120), <2>4
        <4> HIDE DEF e
        <4> QED BY <2>1, <4>1, <4>2
      <3>2. ASSUME NEW x \in Nat \X Nat, x[1] = e, x[2] \in 0 .. c - 1 PROVE x \in Members(t)
        <4>1. x = <<e, x[2]>>
          BY SMTT(120), <3>2
        <4>2. x[2] + 1 \in 1 .. c /\ (x[2] + 1) - 1 = x[2]
          BY SMTT(120), <2>4, <3>2
        <4>3. t[x[2] + 1] = x
          BY <2>5, <4>1, <4>2
        <4> QED BY <2>5, <4>2, <4>3 DEF Members
      <3> QED BY <3>1, <3>2
    <2>8. Upto(e) = Upto(n) \cup Members(t) /\ Upto(n) \cap Members(t) = {}
      <3>1. \A o \in Nat \X Nat : o[1] \in Nat
        OBVIOUS
      <3>2. \A o \in Nat \X Nat : o \in Members(t) <=> o[1] = e /\ IsOutput(o[1], o[2])
        BY <2>1, <2>7 DEF IsOutput, c
      <3>3. \A o \in Nat \X Nat : (o[1] <= e <=> o[1] <= n \/ o[1] = e) /\ (o[1] <= n => o[1] # e)
        BY SMTT(120), <2>1, <3>1
      <3>4. Members(t) \subseteq Nat \X Nat
        BY <2>7
      <3> HIDE DEF e
      <3> QED BY <3>2, <3>3, <3>4, ZenonT(120)
    <2>9. P(n + 1)
      <3> HIDE DEF Upto
      <3>1. Members(s) \cap Members(t) = {}
        BY <2>2, <2>8
      <3>2. s \o t \in Seq(Nat \X Nat) /\ Members(s \o t) = Members(s) \cup Members(t) /\ Distinct(s \o t)
        BY SMTT(120), <2>2, <2>5, <2>6, <3>1, MembersConcat
      <3>3. Members(s \o t) = Upto(n + 1)
        BY <2>2, <2>8, <3>2
      <3> QED BY <2>3, <3>2, <3>3
    <2> QED BY <2>1, <2>9
  <1> HIDE DEF S
  <1>5. \A n \in 0 .. N : n \in S
    BY <1>1, <1>3, <1>4, UpTo, ZenonT(120)
  <1>6. N \in S
    BY SMTT(120), <1>1, <1>5
  <1>7. P(N)
    BY <1>6 DEF S
  <1>8. Upto(N) = {o \in Nat \X Nat : IsOutput(o[1], o[2])}
    BY <1>1 DEF IsOutput
  <1> QED BY <1>7, <1>8 DEF F, Outputs

(* Normalization keeps the notes and removes repetitions. *)
LEMMA Normalized ==
  ASSUME EventsOK, NEW notes \in Seq(Nat \X Nat),
         \A o \in Members(notes) : IsOutput(o[1], o[2])
  PROVE  /\ NormalizeFoundNotes(notes) \in Seq(Nat \X Nat) /\ Distinct(NormalizeFoundNotes(notes))
         /\ Members(NormalizeFoundNotes(notes)) = Members(notes)
  <1> DEFINE k == Kept(Outputs, Range(notes))[Len(Outputs)]
  <1>1. Range(notes) = Members(notes) /\ Members(notes) \subseteq Nat \X Nat
    BY RangeMembers
  <1>2. /\ Outputs \in Seq(Nat \X Nat) /\ Distinct(Outputs)
        /\ Members(Outputs) = {o \in Nat \X Nat : IsOutput(o[1], o[2])}
    BY OutputsListed
  <1>3. k \in Seq(Nat \X Nat) /\ Members(k) = Members(Outputs) \cap Range(notes) /\ Distinct(k)
    BY <1>2, KeptMembers
  <1>4. Members(Outputs) \cap Range(notes) = Members(notes)
    BY <1>1, <1>2
  <1> HIDE DEF k
  <1> QED BY <1>3, <1>4 DEF NormalizeFoundNotes, k

-----------------------------------------------------------------------------
(* The inductive invariant *)

(* The owned outputs the client asked for, up to the cursor c. *)
Mine(c) ==
    {o \in Nat \X Nat : /\ o[1] \in 1 .. Len(events) /\ o[2] \in events[o[1]].mine
                        /\ Allowed(o[1]) /\ Reached(c, o[1], o[2])}

WalletOK ==
    /\ wallet \in [cursor : Cursors, notes : Seq(Nat \X Nat)]
    /\ CursorOK(wallet.cursor)
    /\ Distinct(wallet.notes) /\ Members(wallet.notes) = Mine(wallet.cursor)

(* While pages are read, the notes of the wallet and the new ones are the   *)
(* owned outputs up to the cursor of the sync.                              *)
SyncOK ==
    /\ sync.pc # "rejected"
    /\ sync.pc = "page" =>
         /\ sync \in [pc : {"page"}, cursor : Cursors, found : Seq(Nat \X Nat)]
         /\ CursorOK(sync.cursor)
         /\ Members(wallet.notes) \cup Members(sync.found) = Mine(sync.cursor)

ScanInv ==
    /\ EventsOK
    /\ tip \in Nat /\ \A e \in 1 .. Len(events) : events[e].height <= tip + 1
    /\ WalletOK /\ SyncOK

(* An owned output is an output of its event. *)
LEMMA MineIsOutput ==
  ASSUME EventsOK, NEW e \in 1 .. Len(events), NEW i \in events[e].mine
  PROVE  IsOutput(e, i) /\ e \in Nat /\ i \in Nat
  <1>1. i \in 0 .. OutputCount(e) - 1
    BY DEF EventsOK
  <1>2. OutputCount(e) \in Nat /\ e \in Nat
    BY SMTT(120), EventSizes
  <1> QED BY SMTT(120), <1>1, <1>2 DEF IsOutput

(* The set Owned, output by output. *)
LEMMA OwnedOutputs ==
  ASSUME EventsOK
  PROVE  Owned = {o \in Nat \X Nat : o[1] \in 1 .. Len(events) /\ o[2] \in events[o[1]].mine}
  <1>1. DOMAIN events = 1 .. Len(events)
    BY DEF EventsOK
  <1>2. ASSUME NEW o \in Owned
        PROVE  o \in Nat \X Nat /\ o[1] \in 1 .. Len(events) /\ o[2] \in events[o[1]].mine
    <2>1. PICK e \in DOMAIN events : o \in {<<e, i>> : i \in events[e].mine}
      BY DEF Owned
    <2>2. PICK i \in events[e].mine : o = <<e, i>>
      BY <2>1
    <2>3. e \in Nat /\ i \in Nat
      BY <1>1, <2>2, MineIsOutput
    <2> QED BY <1>1, <2>2, <2>3
  <1>3. ASSUME NEW o \in Nat \X Nat, o[1] \in 1 .. Len(events), o[2] \in events[o[1]].mine
        PROVE  o \in Owned
    <2>1. o = <<o[1], o[2]>>
      OBVIOUS
    <2>2. o \in {<<o[1], i>> : i \in events[o[1]].mine}
      BY <1>3, <2>1
    <2> QED BY SMTT(120), <1>1, <1>3, <2>2 DEF Owned
  <1> QED BY <1>2, <1>3

(* The members of a cursor's set are outputs. *)
LEMMA MineOutputs ==
  ASSUME EventsOK, NEW c, NEW o \in Mine(c)
  PROVE  IsOutput(o[1], o[2])
  <1> DEFINE e == o[1]
             i == o[2]
  <1>1. e \in 1 .. Len(events) /\ i \in events[e].mine
    BY DEF Mine
  <1> HIDE DEF e, i
  <1>2. IsOutput(e, i)
    BY <1>1, MineIsOutput
  <1> QED BY <1>2 DEF e, i

(* A page adds the owned outputs between its cursors. *)
LEMMA MineGrows ==
  ASSUME EventsOK, NEW a, NEW b, CursorOK(a), CursorOK(b), ~Later(b, a)
  PROVE  Mine(b) = Mine(a) \cup (Between(a, b) \cap Owned)
  <1>1. a[2] \in Nat /\ a[3] \in Nat /\ b[2] \in Nat /\ b[3] \in Nat
    BY DEF CursorOK, Cursors
  <1>2. Owned = {o \in Nat \X Nat : o[1] \in 1 .. Len(events) /\ o[2] \in events[o[1]].mine}
    BY OwnedOutputs
  <1>3. ASSUME NEW o \in Nat \X Nat PROVE Reached(a, o[1], o[2]) => Reached(b, o[1], o[2])
    BY SMTT(120), <1>1 DEF Reached, Later
  <1>4. ASSUME NEW o \in Mine(b) PROVE o \in Mine(a) \cup (Between(a, b) \cap Owned)
    <2>1. IsOutput(o[1], o[2])
      BY MineOutputs
    <2> QED BY <1>2, <2>1 DEF Mine, Between
  <1>5. ASSUME NEW o \in Mine(a) PROVE o \in Mine(b)
    BY <1>3 DEF Mine
  <1>6. ASSUME NEW o \in Between(a, b) \cap Owned PROVE o \in Mine(b)
    BY <1>2 DEF Mine, Between
  <1> QED BY <1>4, <1>5, <1>6

(* Nothing is up to the start. *)
LEMMA MineStart ==
  ASSUME EventsOK
  PROVE  Mine(Start) = {} /\ CursorOK(Start) /\ Start \in Cursors
  <1>1. Start[2] = 0 /\ Start[3] = 0 /\ Start \in Cursors
    BY DEF Start, Cursors
  <1>2. \A d \in 1 .. Len(events), j \in Nat : ~Reached(Start, d, j)
    BY SMTT(120), <1>1, EventSizes DEF Reached
  <1> QED BY ZenonT(120), <1>1, <1>2 DEF Mine, CursorOK

(* Initially there is nothing. *)
LEMMA ScanInitInv == ScanInit => ScanInv
  <1> SUFFICES ASSUME ScanInit PROVE ScanInv
    OBVIOUS
  <1>1. EventsOK /\ Len(events) = 0
    BY SMTT(120) DEF ScanInit, EventsOK
  <1>2. Mine(Start) = {} /\ CursorOK(Start) /\ Start \in Cursors
    BY <1>1, MineStart
  <1>3. wallet.cursor = Start /\ wallet.notes = <<>> /\ <<>> \in Seq(Nat \X Nat)
    BY DEF ScanInit
  <1>4. Members(<<>>) = {} /\ Distinct(<<>>)
    BY SMTT(120) DEF Members, Distinct
  <1>5. wallet \in [cursor : Cursors, notes : Seq(Nat \X Nat)]
    BY SMTT(120), <1>2 DEF ScanInit
  <1>6. WalletOK
    BY <1>2, <1>3, <1>4, <1>5 DEF WalletOK
  <1>7. SyncOK
    BY DEF SyncOK, ScanInit, IdleSync
  <1> QED BY SMTT(120), <1>1, <1>6, <1>7 DEF ScanInv, ScanInit

(* A committed event lies behind every cursor. *)
LEMMA CommitEventInv ==
  ASSUME ScanInv, NEW type \in DOMAIN EventTypes,
         NEW owned \in SUBSET (0 .. EventTypes[type].outputs - 1), CommitEvent(type, owned)
  PROVE  ScanInv'
  <1> DEFINE N == Len(events)
             Rec == [type : DOMAIN EventTypes, height : Nat, mine : SUBSET Nat]
             r == [type |-> type, height |-> tip + 1, mine |-> owned]
             NewMine(c) == {o \in Nat \X Nat : /\ o[1] \in 1 .. Len(events') /\ o[2] \in events'[o[1]].mine
                                               /\ filter' = {} \/ events'[o[1]].type \in filter'
                                               /\ Reached(c, o[1], o[2])}
  <1>1. events \in Seq(Rec) /\ N \in Nat /\ tip \in Nat /\ EventsOK
    BY DEF ScanInv, EventsOK
  <1>2. events' = Append(events, r) /\ tip' = tip /\ filter' = filter /\ wallet' = wallet /\ sync' = sync
    BY DEF CommitEvent
  <1>3. r \in Rec /\ r.type = type /\ r.height = tip + 1 /\ r.mine = owned /\ EventTypes[type].outputs \in Nat
    BY SMTT(120), <1>1, ScanAssumption
  <1>4. events' \in Seq(Rec) /\ Len(events') = N + 1 /\ events'[N + 1] = r /\ \A e \in 1 .. N : events'[e] = events[e]
    <2> HIDE DEF Rec, r
    <2> QED BY SMTT(120), <1>1, <1>2, <1>3
  <1>5. \A e \in 1 .. N + 1 : e \in 1 .. N \/ e = N + 1
    BY SMTT(120), <1>1
  <1>6. \A e \in 1 .. N : EventTypes[events'[e].type].outputs = OutputCount(e) /\ OutputCount(e) \in Nat
    BY <1>1, <1>4, EventSizes DEF OutputCount
  <1> HIDE DEF r, N
  <1>7. \A e \in 1 .. N : /\ events[e].height > 0 /\ events[e].height <= tip + 1 /\ events[e].height \in Nat
                          /\ events[e].mine \subseteq 0 .. OutputCount(e) - 1
    BY <1>1, EventSizes DEF ScanInv, EventsOK, N
  <1>8. EventsOK'
    <2>1. \A e \in 1 .. Len(events') :
            events'[e].height > 0 /\ events'[e].mine \subseteq 0 .. EventTypes[events'[e].type].outputs - 1
      <3> SUFFICES ASSUME NEW e \in 1 .. N + 1
                   PROVE  /\ events'[e].height > 0
                          /\ events'[e].mine \subseteq 0 .. EventTypes[events'[e].type].outputs - 1
        BY <1>4
      <3>1. CASE e \in 1 .. N
        <4>1. /\ events'[e] = events[e] /\ EventTypes[events'[e].type].outputs = OutputCount(e)
              /\ events[e].height > 0 /\ events[e].mine \subseteq 0 .. OutputCount(e) - 1
          BY <1>4, <1>6, <1>7, <3>1
        <4> QED BY <4>1
      <3>2. CASE e = N + 1
        <4>1. events'[e] = r
          BY <1>4, <3>2
        <4>2. tip + 1 > 0
          BY SMTT(120), <1>1
        <4> QED BY <1>3, <4>1, <4>2
      <3> QED BY <1>5, <3>1, <3>2
    <2>2. \A d, e \in 1 .. Len(events') : d <= e => events'[d].height <= events'[e].height
      <3> SUFFICES ASSUME NEW d \in 1 .. N + 1, NEW e \in 1 .. N + 1, d <= e
                   PROVE  events'[d].height <= events'[e].height
        BY <1>4
      <3>1. CASE e \in 1 .. N
        <4>1. d \in 1 .. N
          BY SMTT(120), <1>1, <3>1
        <4> QED BY <1>1, <1>4, <3>1, <4>1 DEF EventsOK, N
      <3>2. CASE e = N + 1
        <4>1. events'[e].height = tip + 1
          BY <1>3, <1>4, <3>2
        <4>2. CASE d \in 1 .. N
          <5>1. events'[d] = events[d] /\ events[d].height <= tip + 1
            BY <1>4, <1>7, <4>2
          <5> QED BY ZenonT(120), <4>1, <5>1
        <4>3. CASE d = N + 1
          <5>1. tip + 1 <= tip + 1
            BY SMTT(120), <1>1
          <5> QED BY ZenonT(120), <3>2, <4>1, <4>3, <5>1
        <4> QED BY <1>5, <4>2, <4>3
      <3> QED BY <1>5, <3>1, <3>2
    <2> QED BY <1>4, <2>1, <2>2 DEF EventsOK, OutputCount
  <1>9. \A e \in 1 .. Len(events') : events'[e].height <= tip' + 1
    BY SMTT(120), <1>1, <1>2, <1>3, <1>4, <1>5, <1>7
  <1>10. ASSUME NEW c, CursorOK(c)
         PROVE  /\ c \in Cursors
                /\ c = Start \/ (/\ c[2] \in 1 .. Len(events') /\ c[1] = events'[c[2]].height
                                 /\ c[3] = 0 \/ c[3] < EventTypes[events'[c[2]].type].outputs)
                /\ NewMine(c) = Mine(c)
    <2>1. c \in Cursors /\ c[2] \in Nat
      BY <1>10 DEF CursorOK, Cursors
    <2>2. CASE c = Start
      <3>1. c[2] = 0
        BY <2>2 DEF Start
      <3>2. \A o \in Nat \X Nat : o[1] \in 1 .. Len(events') => o[1] # 0 /\ ~(o[1] < 0)
        BY SMTT(120), <1>1, <1>4
      <3>3. NewMine(c) = {}
        BY <3>1, <3>2 DEF Reached
      <3> QED BY ZenonT(120), <1>1, <2>1, <2>2, <3>3, MineStart
    <2>3. CASE c # Start
      <3>1. c[2] \in 1 .. N /\ c[1] = events[c[2]].height /\ (c[3] = 0 \/ c[3] < OutputCount(c[2]))
        BY <1>10, <2>3 DEF CursorOK, N
      <3>2. c[2] \in 1 .. Len(events')
        BY SMTT(120), <1>1, <1>4, <3>1
      <3>3. ASSUME NEW o \in Nat \X Nat PROVE o \in NewMine(c) <=> o \in Mine(c)
        <4>1. Reached(c, o[1], o[2]) => (o[1] \in 1 .. Len(events') <=> o[1] \in 1 .. N)
          BY SMTT(120), <1>1, <1>4, <2>1, <3>1 DEF Reached
        <4>2. o[1] \in 1 .. N => events'[o[1]] = events[o[1]]
          BY <1>4
        <4> QED BY <1>2, <4>1, <4>2 DEF Mine, Allowed, N
      <3>4. NewMine(c) \subseteq Nat \X Nat /\ Mine(c) \subseteq Nat \X Nat
        BY DEF Mine
      <3> HIDE DEF NewMine
      <3>5. NewMine(c) = Mine(c)
        BY <3>3, <3>4, ZenonT(120)
      <3> QED BY <1>4, <1>6, <2>1, <3>1, <3>2, <3>5
    <2> QED BY <2>2, <2>3
  <1>11. WalletOK'
    <2>1. /\ wallet \in [cursor : Cursors, notes : Seq(Nat \X Nat)] /\ CursorOK(wallet.cursor)
          /\ Distinct(wallet.notes) /\ Members(wallet.notes) = Mine(wallet.cursor)
      BY DEF ScanInv, WalletOK
    <2>2. CursorOK(wallet.cursor)'
      BY <1>2, <1>10, <2>1 DEF CursorOK, OutputCount
    <2>3. Mine(wallet.cursor)' = Mine(wallet.cursor)
      <3>1. NewMine(wallet.cursor) = Mine(wallet.cursor)
        BY <1>10, <2>1
      <3>2. Mine(wallet.cursor)' = NewMine(wallet.cursor)
        BY <1>2 DEF Mine, Allowed
      <3> QED BY <3>1, <3>2
    <2> QED BY <1>2, <2>1, <2>2, <2>3 DEF WalletOK, Distinct, Members
  <1>12. SyncOK'
    <2> SUFFICES ASSUME sync.pc = "page" PROVE SyncOK'
      BY <1>2 DEF ScanInv, SyncOK
    <2>1. /\ sync \in [pc : {"page"}, cursor : Cursors, found : Seq(Nat \X Nat)] /\ CursorOK(sync.cursor)
          /\ Members(wallet.notes) \cup Members(sync.found) = Mine(sync.cursor)
      BY DEF ScanInv, SyncOK
    <2>2. CursorOK(sync.cursor)'
      BY ZenonT(120), <1>2, <1>10, <2>1 DEF CursorOK, OutputCount
    <2>3. Mine(sync.cursor)' = Mine(sync.cursor)
      <3>1. NewMine(sync.cursor) = Mine(sync.cursor)
        BY <1>10, <2>1
      <3>2. Mine(sync.cursor)' = NewMine(sync.cursor)
        BY <1>2 DEF Mine, Allowed
      <3> QED BY <3>1, <3>2
    <2> QED BY ZenonT(120), <1>2, <2>1, <2>2, <2>3 DEF SyncOK, Members
  <1> QED BY ZenonT(120), <1>1, <1>2, <1>8, <1>9, <1>11, <1>12 DEF ScanInv

(* A step that leaves events and filter alone. *)
LEMMA EventsKept ==
  ASSUME ScanInv, events' = events, filter' = filter, tip' = tip, WalletOK', SyncOK'
  PROVE  ScanInv'
  BY DEF ScanInv, EventsOK, OutputCount

(* Wallet and sync stay as they are. *)
LEMMA WalletKept ==
  ASSUME WalletOK, events' = events, filter' = filter, wallet' = wallet
  PROVE  WalletOK'
  <1>1. CursorOK(wallet.cursor)' <=> CursorOK(wallet.cursor)
    BY DEF CursorOK, OutputCount
  <1>2. Mine(wallet.cursor)' = Mine(wallet.cursor)
    BY DEF Mine, Allowed
  <1>3. (Distinct(wallet.notes)' <=> Distinct(wallet.notes)) /\ Members(wallet.notes)' = Members(wallet.notes)
    BY DEF Distinct, Members
  <1> QED BY <1>1, <1>2, <1>3 DEF WalletOK

(* The same of a running sync. *)
LEMMA SyncKept ==
  ASSUME SyncOK, events' = events, filter' = filter, wallet' = wallet, sync' = sync
  PROVE  SyncOK'
  <1>1. CursorOK(sync.cursor)' <=> CursorOK(sync.cursor)
    BY DEF CursorOK, OutputCount
  <1>2. Mine(sync.cursor)' = Mine(sync.cursor)
    BY DEF Mine, Allowed
  <1>3. Members(sync.found)' = Members(sync.found) /\ Members(wallet.notes)' = Members(wallet.notes)
    BY DEF Members
  <1> QED BY <1>1, <1>2, <1>3 DEF SyncOK

(* The start of a sync: reset or normalized, the wallet is exact. *)
LEMMA StartSyncInv ==
  ASSUME ScanInv, NEW force, StartSync(force)
  PROVE  ScanInv'
  <1>1. PICK h \in Replicas :
          LET w == IF force \/ wallet.cursor[1] > h THEN ResetWallet(wallet)
                   ELSE [wallet EXCEPT !.notes = NormalizeFoundNotes(@)]
          IN  /\ wallet' = w
              /\ sync' = IF h > w.cursor[1] THEN [pc |-> "page", cursor |-> w.cursor, found |-> <<>>]
                         ELSE IdleSync
    BY DEF StartSync
  <1>2. events' = events /\ filter' = filter /\ tip' = tip
    BY DEF StartSync
  <1>3. /\ EventsOK /\ wallet \in [cursor : Cursors, notes : Seq(Nat \X Nat)] /\ CursorOK(wallet.cursor)
        /\ Distinct(wallet.notes) /\ Members(wallet.notes) = Mine(wallet.cursor)
    BY DEF ScanInv, WalletOK
  <1>4. Members(<<>>) = {} /\ Distinct(<<>>) /\ <<>> \in Seq(Nat \X Nat)
    BY DEF Members, Distinct
  <1>5. /\ wallet' \in [cursor : Cursors, notes : Seq(Nat \X Nat)] /\ CursorOK(wallet'.cursor)
        /\ Distinct(wallet'.notes) /\ Members(wallet'.notes) = Mine(wallet'.cursor)
    <2>1. CASE force \/ wallet.cursor[1] > h
      <3>1. wallet' = [cursor |-> Start, notes |-> <<>>]
        BY <1>1, <2>1 DEF ResetWallet
      <3>2. wallet'.cursor = Start /\ wallet'.notes = <<>>
        BY <3>1
      <3> QED BY ZenonT(120), <1>3, <1>4, <3>1, <3>2, MineStart
    <2>2. CASE ~(force \/ wallet.cursor[1] > h)
      <3> DEFINE n == NormalizeFoundNotes(wallet.notes)
      <3>1. n \in Seq(Nat \X Nat) /\ Distinct(n) /\ Members(n) = Members(wallet.notes)
        BY <1>3, MineOutputs, Normalized
      <3>2. wallet' = [wallet EXCEPT !.notes = n]
        BY <1>1, <2>2
      <3> HIDE DEF n
      <3>3. wallet'.cursor = wallet.cursor /\ wallet'.notes = n /\ wallet' \in [cursor : Cursors, notes : Seq(Nat \X Nat)]
        BY <1>3, <3>1, <3>2
      <3> QED BY <1>3, <3>1, <3>3
    <2> QED BY <2>1, <2>2
  <1>6. sync' = [pc |-> "page", cursor |-> wallet'.cursor, found |-> <<>>] \/ sync' = IdleSync
    BY <1>1
  <1>7. WalletOK'
    BY <1>2, <1>5 DEF WalletOK, CursorOK, OutputCount, Distinct, Members, Mine, Allowed
  <1>8. SyncOK'
    <2>1. CASE sync' = IdleSync
      BY <2>1 DEF SyncOK, IdleSync
    <2>2. CASE sync' = [pc |-> "page", cursor |-> wallet'.cursor, found |-> <<>>]
      <3>1. sync'.pc = "page" /\ sync'.cursor = wallet'.cursor /\ sync'.found = <<>> /\ wallet'.cursor \in Cursors
        BY <1>5, <2>2
      <3>2. sync' \in [pc : {"page"}, cursor : Cursors, found : Seq(Nat \X Nat)]
        BY <1>4, <2>2, <3>1
      <3>3. Members(wallet'.notes) \cup Members(sync'.found) = Mine(sync'.cursor) /\ CursorOK(sync'.cursor)
        BY <1>4, <1>5, <3>1
      <3> QED BY <1>2, <3>1, <3>2, <3>3 DEF SyncOK, CursorOK, OutputCount, Members, Mine, Allowed
    <2> QED BY <1>6, <2>1, <2>2
  <1> QED BY <1>2, <1>7, <1>8, EventsKept

(* A page is accepted or the query refused; the notes found so far and the  *)
(* cursor stay together.                                                    *)
LEMMA ScanPageInv ==
  ASSUME ScanInv, ScanPage
  PROVE  ScanInv'
  <1> DEFINE Page(h) == GetPrivacyScanPageV2(sync.cursor, h)
             Found(h) == sync.found \o NewNotes(Page(h))
  <1>1. PICK h \in Replicas :
          \/ /\ Page(h).status = "refused"
             /\ sync' = [pc |-> "refused", at |-> sync.cursor, height |-> h]
             /\ wallet' = wallet
          \/ /\ Page(h).status # "refused" /\ ~ClientAccepts(Page(h), sync.cursor)
          \/ /\ Page(h).status # "refused" /\ ClientAccepts(Page(h), sync.cursor)
             /\ IF HasMore(Page(h))
                THEN /\ sync' = [sync EXCEPT !.cursor = Page(h).next, !.found = Found(h)]
                     /\ wallet' = wallet
                ELSE /\ wallet' = [cursor |-> Page(h).next,
                                   notes |-> NormalizeFoundNotes(wallet.notes \o Found(h))]
                     /\ sync' = IdleSync
    BY DEF ScanPage, Accumulate
  <1>2. sync.pc = "page" /\ events' = events /\ filter' = filter /\ tip' = tip
    BY DEF ScanPage
  <1>3. /\ EventsOK /\ wallet \in [cursor : Cursors, notes : Seq(Nat \X Nat)] /\ CursorOK(wallet.cursor)
        /\ Distinct(wallet.notes) /\ Members(wallet.notes) = Mine(wallet.cursor) /\ WalletOK
    BY DEF ScanInv, WalletOK
  <1>4. /\ sync \in [pc : {"page"}, cursor : Cursors, found : Seq(Nat \X Nat)] /\ CursorOK(sync.cursor)
        /\ Members(wallet.notes) \cup Members(sync.found) = Mine(sync.cursor)
    BY <1>2 DEF ScanInv, SyncOK
  <1> DEFINE page == Page(h)
             found == Found(h)
  <1>5. PageAfter(page, sync.cursor, Indexed(h))
    BY <1>3, <1>4, IndexedOK, PagesOK DEF GetPrivacyScanPageV2
  <1> HIDE DEF Page
  <1>6. CASE page.status = "refused"
    <2>1. sync' = [pc |-> "refused", at |-> sync.cursor, height |-> h] /\ wallet' = wallet
      BY <1>1, <1>6
    <2>2. WalletOK'
      BY <1>2, <1>3, <2>1, WalletKept
    <2>3. SyncOK'
      BY <2>1 DEF SyncOK
    <2> QED BY <1>2, <2>2, <2>3, EventsKept
  <1>7. CASE page.status # "refused"
    <2>1. PageOK(page, sync.cursor) /\ ClientAccepts(page, sync.cursor)
      BY ZenonT(120), <1>3, <1>4, <1>5, <1>7, PageAccepted DEF PageAfter
    <2>2. /\ CursorOK(page.next) /\ ~Later(page.next, sync.cursor) /\ page.next \in Cursors
          /\ page.outputs \in Seq(Nat \X Nat) /\ Members(page.outputs) = Between(sync.cursor, page.next)
      BY <2>1 DEF PageOK, IsPage, CursorOK, Members
    <2>3. /\ NewNotes(page) \in Seq(Nat \X Nat)
          /\ Members(NewNotes(page)) = Members(page.outputs) \cap
               (Owned \ (Members(wallet.notes) \cup Members(sync.found)))
      <3>1. Range(wallet.notes) = Members(wallet.notes) /\ Range(sync.found) = Members(sync.found)
        BY <1>3, <1>4, RangeMembers
      <3> DEFINE s == page.outputs
                 set == Owned \ (Range(wallet.notes) \cup Range(sync.found))
      <3>2. s \in Seq(Nat \X Nat)
        BY <2>2
      <3>3. NewNotes(page) = Kept(s, set)[Len(s)]
        BY DEF NewNotes
      <3> HIDE DEF s, set
      <3>4. Kept(s, set)[Len(s)] \in Seq(Nat \X Nat) /\ Members(Kept(s, set)[Len(s)]) = Members(s) \cap set
        BY <3>2, KeptMembers
      <3> QED BY <3>1, <3>3, <3>4 DEF s, set
    <2>4. found \in Seq(Nat \X Nat) /\ Members(found) = Members(sync.found) \cup Members(NewNotes(page))
      <3> DEFINE s == sync.found
                 t == NewNotes(page)
      <3>1. s \in Seq(Nat \X Nat) /\ t \in Seq(Nat \X Nat) /\ found = s \o t
        BY <1>4, <2>3
      <3> HIDE DEF s, t, found
      <3> QED BY SMTT(120), <3>1, MembersConcat DEF s, t
    <2> HIDE DEF found, page, Found
    <2>5. Members(wallet.notes) \cup Members(found) = Mine(page.next)
      <3>1. Mine(page.next) = Mine(sync.cursor) \cup (Between(sync.cursor, page.next) \cap Owned)
        BY ZenonT(120), <1>3, <1>4, <2>2, MineGrows
      <3> QED BY <1>4, <2>2, <2>3, <2>4, <3>1, ZenonT(120)
    <2>6. CASE HasMore(page)
      <3>1. sync' = [sync EXCEPT !.cursor = page.next, !.found = found] /\ wallet' = wallet
        BY <1>1, <1>7, <2>1, <2>6 DEF page, found
      <3>2. /\ sync' \in [pc : {"page"}, cursor : Cursors, found : Seq(Nat \X Nat)]
            /\ sync'.cursor = page.next /\ sync'.found = found /\ sync'.pc = "page"
        BY <1>4, <2>2, <2>4, <3>1
      <3>3. WalletOK'
        BY <1>2, <1>3, <3>1, WalletKept
      <3>4. /\ CursorOK(sync'.cursor)
            /\ Members(wallet'.notes) \cup Members(sync'.found) = Mine(sync'.cursor)
        BY ZenonT(120), <2>2, <2>5, <3>1, <3>2
      <3>5. SyncOK'
        BY ZenonT(120), <1>2, <3>2, <3>4 DEF SyncOK, CursorOK, OutputCount, Members, Mine, Allowed
      <3> QED BY <1>2, <3>3, <3>5, EventsKept
    <2>7. CASE ~HasMore(page)
      <3> DEFINE all == wallet.notes \o found
                 n == NormalizeFoundNotes(all)
      <3>1. wallet' = [cursor |-> page.next, notes |-> n] /\ sync' = IdleSync
        BY <1>1, <1>7, <2>1, <2>7 DEF page, found
      <3>2. all \in Seq(Nat \X Nat) /\ Members(all) = Mine(page.next)
        <4> DEFINE s == wallet.notes
        <4>1. s \in Seq(Nat \X Nat) /\ all = s \o found
          BY <1>3
        <4> HIDE DEF s, all
        <4>2. all \in Seq(Nat \X Nat) /\ Members(all) = Members(s) \cup Members(found)
          BY SMTT(120), <2>4, <4>1, MembersConcat
        <4> QED BY <2>5, <4>2 DEF s
      <3> HIDE DEF all
      <3>3. n \in Seq(Nat \X Nat) /\ Distinct(n) /\ Members(n) = Mine(page.next)
        BY <1>3, <3>2, MineOutputs, Normalized
      <3> HIDE DEF n
      <3>4. /\ wallet' \in [cursor : Cursors, notes : Seq(Nat \X Nat)]
            /\ wallet'.cursor = page.next /\ wallet'.notes = n
        BY <2>2, <3>1, <3>3
      <3>5. /\ CursorOK(wallet'.cursor) /\ Distinct(wallet'.notes)
            /\ Members(wallet'.notes) = Mine(wallet'.cursor)
        BY <2>2, <3>3, <3>4
      <3>6. WalletOK'
        BY <1>2, <3>4, <3>5 DEF WalletOK, CursorOK, OutputCount, Distinct, Members, Mine, Allowed
      <3>7. SyncOK'
        BY <3>1 DEF SyncOK, IdleSync
      <3> QED BY <1>2, <3>6, <3>7, EventsKept
    <2> QED BY <2>6, <2>7
  <1> QED BY <1>6, <1>7

(* Every step keeps the invariant. *)
LEMMA ScanStepInv ==
  ASSUME ScanInv, [ScanNext]_scanVars
  PROVE  ScanInv'
  <1>1. ASSUME NEW type \in DOMAIN EventTypes,
               NEW owned \in SUBSET (0 .. EventTypes[type].outputs - 1), CommitEvent(type, owned)
        PROVE  ScanInv'
    BY <1>1, CommitEventInv
  <1>2. ASSUME CommitBlock PROVE ScanInv'
    <2>1. /\ tip' = tip + 1 /\ events' = events /\ filter' = filter /\ wallet' = wallet /\ sync' = sync
          /\ tip \in Nat /\ EventsOK /\ WalletOK /\ SyncOK
      BY <1>2 DEF CommitBlock, ScanInv
    <2>2. tip' \in Nat /\ \A e \in 1 .. Len(events') : events'[e].height <= tip' + 1
      <3>1. \A e \in 1 .. Len(events) : events[e].height \in Nat /\ events[e].height <= tip + 1
        BY <2>1, EventSizes DEF ScanInv
      <3> QED BY SMTT(120), <2>1, <3>1
    <2>3. EventsOK'
      BY <2>1 DEF EventsOK, OutputCount
    <2>4. WalletOK'
      BY <2>1, WalletKept
    <2>5. SyncOK'
      BY <2>1, SyncKept
    <2> QED BY <2>2, <2>3, <2>4, <2>5 DEF ScanInv
  <1>3. ASSUME NEW force \in BOOLEAN, StartSync(force) PROVE ScanInv'
    BY <1>3, StartSyncInv
  <1>4. ASSUME ScanPage PROVE ScanInv'
    BY <1>4, ScanPageInv
  <1>5. ASSUME AbandonSync PROVE ScanInv'
    <2>1. /\ events' = events /\ filter' = filter /\ tip' = tip /\ wallet' = wallet /\ sync' = IdleSync
          /\ WalletOK
      BY <1>5 DEF AbandonSync, ScanInv
    <2>2. WalletOK'
      BY <2>1, WalletKept
    <2>3. SyncOK'
      BY <2>1 DEF SyncOK, IdleSync
    <2> QED BY <2>1, <2>2, <2>3, EventsKept
  <1>6. ASSUME UNCHANGED scanVars PROVE ScanInv'
    <2>1. /\ events' = events /\ filter' = filter /\ tip' = tip /\ wallet' = wallet /\ sync' = sync
          /\ WalletOK /\ SyncOK
      BY <1>6 DEF scanVars, ScanInv
    <2>2. WalletOK'
      BY <2>1, WalletKept
    <2>3. SyncOK'
      BY <2>1, SyncKept
    <2> QED BY <2>1, <2>2, <2>3, EventsKept
  <1> QED BY ZenonT(120), <1>1, <1>2, <1>3, <1>4, <1>5, <1>6 DEF ScanNext

(* Up to a cursor the comparison of cursors and the reached outputs agree.  *)
LEMMA CoveredIsMine ==
  ASSUME ScanInv
  PROVE  Covered = Mine(wallet.cursor)
  <1>1. EventsOK /\ CursorOK(wallet.cursor)
    BY DEF ScanInv, WalletOK
  <1>2. Owned = {o \in Nat \X Nat : o[1] \in 1 .. Len(events) /\ o[2] \in events[o[1]].mine}
    BY <1>1, OwnedOutputs
  <1>3. ASSUME NEW o \in Owned
        PROVE  compareCursor(OutputCursor(o), wallet.cursor) <= 0 <=> Reached(wallet.cursor, o[1], o[2])
    <2> DEFINE e == o[1]
               i == o[2]
               c == wallet.cursor
    <2>1. e \in 1 .. Len(events) /\ i \in events[e].mine
      BY <1>2
    <2> HIDE DEF e, i
    <2>2. IsOutput(e, i) /\ e \in Nat /\ i \in Nat /\ i < OutputCount(e)
      BY SMTT(120), <1>1, <2>1, MineIsOutput, EventSizes DEF IsOutput
    <2>3. CursorOK(EventCursor(e, i)) /\ EventCursor(e, i)[2] = e /\ EventCursor(e, i)[3] = i
      BY <1>1, <2>1, <2>2, EventCursorOK
    <2>4. compareCursor(EventCursor(e, i), c) <= 0 <=> ~Later(c, EventCursor(e, i))
      BY <1>1, <2>3, CursorOrder
    <2>5. c[2] \in Nat /\ c[3] \in Nat
      BY <1>1 DEF CursorOK, Cursors
    <2>6. ~Later(c, EventCursor(e, i)) <=> Reached(c, e, i)
      BY SMTT(120), <2>2, <2>3, <2>5 DEF Later, Reached
    <2> QED BY <2>4, <2>6 DEF e, i, OutputCursor
  <1> QED BY <1>2, <1>3 DEF Covered, Mine

(* The invariant holds throughout: the events are in order of height, every *)
(* cursor stands on an output or an event without outputs, and notes and    *)
(* cursor belong together in the wallet and in a running sync.              *)
THEOREM ScanSafety == ScanSpec => []ScanInv
  <1>1. ScanInit => ScanInv
    BY ScanInitInv
  <1>2. ScanInv /\ [ScanNext]_scanVars => ScanInv'
    BY ScanStepInv
  <1> QED BY <1>1, <1>2, PTL DEF ScanSpec

(* SyncNotes of sdk/scan/service.go: the notes it stores are exactly the    *)
(* owned outputs up to the cursor it stores, each once, whatever limits and *)
(* filter the client asks for, whatever sizes the events have and however   *)
(* far behind the replicas are.                                             *)
THEOREM WalletExactSafe == ScanSpec => []WalletExact
  <1>1. ScanInv => WalletExact
    <2> SUFFICES ASSUME ScanInv PROVE WalletExact
      OBVIOUS
    <2>1. /\ wallet \in [cursor : Cursors, notes : Seq(Nat \X Nat)]
          /\ Distinct(wallet.notes) /\ Members(wallet.notes) = Mine(wallet.cursor)
      BY DEF ScanInv, WalletOK
    <2>2. Covered = Mine(wallet.cursor)
      BY CoveredIsMine
    <2> DEFINE s == wallet.notes
    <2>3. s \in Seq(Nat \X Nat)
      BY <2>1
    <2> HIDE DEF s
    <2>4. Range(s) = Members(s)
      BY <2>3, RangeMembers
    <2>5. Distinct(s) => Len(s) = Cardinality(Members(s))
      BY <2>3, DistinctLength
    <2> QED BY <2>1, <2>2, <2>4, <2>5 DEF WalletExact, s
  <1> QED BY <1>1, ScanSafety, PTL

(* Every page that GetPrivacyScanPageV2 of keeper/privacy_scan.go returns   *)
(* passes the checks of sdk/provider/typed_scan.go and sdk/scan/service.go: *)
(* a sync is never ended by a page its client rejects.                      *)
THEOREM PagesAcceptedSafe == ScanSpec => []HonestPagesAccepted
  <1>1. ScanInv => HonestPagesAccepted
    BY DEF ScanInv, SyncOK, HonestPagesAccepted
  <1> QED BY <1>1, ScanSafety, PTL
=============================================================================
