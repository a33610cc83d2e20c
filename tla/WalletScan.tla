----------------------------- MODULE WalletScan -----------------------------
(***************************************************************************)
(* The wallet follows the chain: the keeper's paged scan query             *)
(* (GetPrivacyScanPageV2 of keeper/privacy_scan.go), the checks a client   *)
(* makes of a page (sdk/provider/typed_scan.go, sdk/scan/service.go), and  *)
(* SyncNotes, which asks for pages until there are no more and then moves  *)
(* the wallet's notes and its cursor together.  Blocks are committed       *)
(* between any two requests, and each request may be answered by a replica *)
(* that is some blocks behind.                                             *)
(*                                                                         *)
(* An event is known by its global sequence, its position in `events`; an  *)
(* output by <<sequence, index>>.  A cursor is <<height, sequence, index>>. *)
(* Encoded sizes are small numbers.  The wallet owns the outputs in `mine`. *)
(***************************************************************************)
EXTENDS Integers, Sequences, FiniteSets, Functions

CONSTANTS EventTypes,    \* event type -> [outputs, summary size, output size]
          OutputLimit,   \* the limits the client asks for
          EventLimit,
          ByteLimit,
          Filters,       \* sets of event types a client may ask for, {} = all
          MaxLag         \* blocks a replica may be behind

\* normalizePrivacyScanLimits replaces a limit of zero by the default.
ASSUME ScanAssumption ==
    /\ \A t \in DOMAIN EventTypes :
          /\ EventTypes[t].outputs \in Nat
          /\ EventTypes[t].summary \in Nat /\ EventTypes[t].output \in Nat
    /\ OutputLimit \in Nat \ {0} /\ EventLimit \in Nat \ {0} /\ ByteLimit \in Nat
    /\ MaxLag \in Nat

VARIABLES events,   \* committed events: type, height and owned outputs
          tip,      \* the committed height
          filter,   \* event types this client asks for
          wallet,   \* LocalWalletData: cursor and notes
          sync      \* the running SyncNotes

scanVars == <<events, tip, filter, wallet, sync>>

Start == <<0, 0, 0>>

IdleSync == [pc |-> "idle"]

ScanInit ==
    /\ events = <<>>
    /\ tip = 1
    /\ filter \in Filters
    /\ wallet = [cursor |-> Start, notes |-> <<>>]
    /\ sync = IdleSync

-----------------------------------------------------------------------------
(* What the index holds *)

OutputCount(e) == EventTypes[events[e].type].outputs

SummarySize(e) == EventTypes[events[e].type].summary

OutputSize(e) == EventTypes[events[e].type].output

Allowed(e) == filter = {} \/ events[e].type \in filter

EventCursor(e, i) == <<events[e].height, e, i>>

compareCursor(a, b) ==
    LET d == {i \in 1..3 : a[i] # b[i]}
    IN  IF d = {} THEN 0
        ELSE LET i == CHOOSE i \in d : \A j \in d : i <= j
             IN  IF a[i] < b[i] THEN -1 ELSE 1

Before(a, b) == compareCursor(a, b) < 0

-----------------------------------------------------------------------------
(* GetPrivacyScanPageV2 on the state of height h *)

\* A page is being filled ("scanning"), was cut with more to come ("more"), or
\* the query returns errPrivacyScanRecordExceedsBudget ("refused").
EmptyPage(after) ==
    [summaries |-> <<>>, outputs |-> <<>>, bytes |-> 0, scanned |-> 0,
     next |-> after, status |-> "scanning"]

Cut(page) == [page EXCEPT !.status = "more"]

\* The next record does not fit: an error if the page has nothing yet.
DoesNotFit(page, nothing) ==
    [page EXCEPT !.status = IF nothing THEN "refused" ELSE "more"]

\* The cursor behind a whole event: its last output, 0 if it has none.
PastEvent(e) == EventCursor(e, IF OutputCount(e) > 0 THEN OutputCount(e) - 1 ELSE 0)

\* The cursor's own output again.
SameOutputAgain(after, e) == IF e = after[2] THEN after[3] ELSE 0

\* Where the page enters an event: behind the cursor's output in its own event.
StartOutput(after, e) == IF e = after[2] THEN after[3] + 1 ELSE 0

AddOutput(page, e, i) ==
    IF Len(page.outputs) = OutputLimit THEN Cut(page)
    ELSE IF page.bytes + OutputSize(e) > ByteLimit THEN DoesNotFit(page, page.outputs = <<>>)
    ELSE [page EXCEPT !.outputs = Append(@, <<e, i>>),
                      !.bytes = @ + OutputSize(e),
                      !.next = EventCursor(e, i)]

\* The loop over the outputs of an event; a page that was cut stays as it is.
NextOutput(page, e, i, start) ==
    IF i < start \/ page.status # "scanning" THEN page ELSE AddOutput(page, e, i)

AddOutputs(page, e, start) ==
    LET upTo[i \in 0 .. OutputCount(e)] ==
          IF i = 0 THEN page ELSE NextOutput(upTo[i - 1], e, i - 1, start)
    IN  upTo

Counted(page) == [page EXCEPT !.scanned = @ + 1]

\* A filtered event only moves the cursor, and that of an empty page only.
PassOver(page, e) ==
    IF page.outputs # <<>> \/ page.summaries # <<>> THEN Cut(page)
    ELSE [Counted(page) EXCEPT !.next = PastEvent(e)]

WithSummary(page, e) ==
    [page EXCEPT !.summaries = Append(@, e), !.bytes = @ + SummarySize(e)]

AddAllowed(page, after, e) ==
    IF page.bytes + SummarySize(e) > ByteLimit
    THEN DoesNotFit(page, page.summaries = <<>> /\ page.outputs = <<>>)
    ELSE IF OutputCount(e) = 0 THEN [WithSummary(page, e) EXCEPT !.next = EventCursor(e, 0)]
    ELSE AddOutputs(WithSummary(page, e), e, StartOutput(after, e))[OutputCount(e)]

\* The iterator starts at the cursor's event, which is passed when the cursor
\* stands on its last output.  The cursor was returned by an earlier page, so
\* its index never exceeds its event.
Passed(after, e) == e < after[2] \/ (e = after[2] /\ after[3] >= OutputCount(e) - 1)

\* One round of the loop over the summaries.
AddEvent(page, after, e) ==
    IF page.status # "scanning" \/ Passed(after, e) THEN page
    ELSE IF page.scanned = EventLimit \/ Len(page.outputs) = OutputLimit THEN Cut(page)
    ELSE IF Allowed(e) THEN AddAllowed(Counted(page), after, e)
    ELSE PassOver(page, e)

\* The pages after each of the first events.
ScanEvents(after, last) ==
    LET upTo[e \in 0 .. last] ==
          IF e = 0 THEN EmptyPage(after) ELSE AddEvent(upTo[e - 1], after, e)
    IN  upTo

\* The events a replica at height h has indexed.
Indexed(h) == Cardinality({e \in DOMAIN events : events[e].height <= h})

GetPrivacyScanPageV2(after, h) == ScanEvents(after, Indexed(h))[Indexed(h)]

HasMore(page) == page.status = "more"

-----------------------------------------------------------------------------
(* What a client checks of a page *)

OutputCursor(o) == EventCursor(o[1], o[2])

Ordered(page, after) ==
    \A i \in DOMAIN page.outputs :
        LET previous == IF i = 1 THEN after ELSE OutputCursor(page.outputs[i - 1])
            cursor   == OutputCursor(page.outputs[i])
        IN  /\ Before(previous, cursor)
            /\ IF cursor[2] = previous[2] THEN cursor[3] = previous[3] + 1
               ELSE cursor[3] = 0

\* validateZeroOutputCursorAdvance, validateTypedScanCursorBoundary: the cursor
\* may move from an event to a later one only along summaries without outputs.
ZeroOutputAdvance(page, from) ==
    /\ page.next[3] = 0 /\ page.next[2] > from[2]
    /\ \E i \in DOMAIN page.summaries : page.summaries[i] = page.next[2]
    /\ \A i \in DOMAIN page.summaries :
          page.summaries[i] \in (from[2] + 1)..page.next[2] =>
              OutputCount(page.summaries[i]) = 0

NextCursorProven(page, after, filtered) ==
    IF page.outputs = <<>>
    THEN Before(after, page.next) => filtered \/ ZeroOutputAdvance(page, after)
    ELSE LET o == page.outputs[Len(page.outputs)]
         IN  \/ page.next = OutputCursor(o)
             \/ /\ Before(OutputCursor(o), page.next)
                /\ o[2] + 1 = OutputCount(o[1])
                /\ ZeroOutputAdvance(page, OutputCursor(o))

ValidatePrivacyScanPage(page, after) ==
    /\ Len(page.outputs) <= OutputLimit
    /\ page.scanned <= EventLimit
    /\ page.bytes <= ByteLimit
    /\ \A i, j \in DOMAIN page.summaries : i < j => page.summaries[i] < page.summaries[j]
    /\ Ordered(page, after)
    /\ \A i \in DOMAIN page.outputs :
          /\ page.outputs[i][2] < OutputCount(page.outputs[i][1])
          /\ \E j \in DOMAIN page.summaries : page.summaries[j] = page.outputs[i][1]
    /\ ~Before(page.next, after)
    /\ NextCursorProven(page, after, filter # {})
    /\ HasMore(page) => Before(after, page.next)

\* SyncNotes, which never filters, checks the page once more.
ValidateTypedScanResponseForSync(page, after) ==
    /\ Ordered(page, after)
    /\ NextCursorProven(page, after, FALSE)
    /\ HasMore(page) => Before(after, page.next)

ClientAccepts(page, after) ==
    /\ ValidatePrivacyScanPage(page, after)
    /\ filter = {} => ValidateTypedScanResponseForSync(page, after)

-----------------------------------------------------------------------------
(* The chain *)

CommitEvent(type, owned) ==
    /\ events' = Append(events, [type |-> type, height |-> tip + 1, mine |-> owned])
    /\ UNCHANGED <<tip, filter, wallet, sync>>

\* The events delivered since the last block become visible together.
CommitBlock ==
    /\ tip' = tip + 1
    /\ UNCHANGED <<events, filter, wallet, sync>>

Replicas == {h \in (tip - MaxLag)..tip : h >= 1}

-----------------------------------------------------------------------------
(* SyncNotes *)

\* The outputs the wallet's keys open.
Owned == UNION {{<<e, i>> : i \in events[e].mine} : e \in DOMAIN events}

\* The members of a sequence that lie in a set, in their order.
Kept(s, set) ==
    LET upTo[n \in 0 .. Len(s)] ==
          IF n = 0 THEN <<>>
          ELSE IF s[n] \in set THEN Append(upTo[n - 1], s[n]) ELSE upTo[n - 1]
    IN  upTo

ResetNotesOnly(w) == [w EXCEPT !.notes = <<>>]

ResetWallet(w) == [cursor |-> Start, notes |-> <<>>]

EventOutputs(e) == [i \in 1 .. OutputCount(e) |-> <<e, i - 1>>]

\* The outputs of the first events, in order.
OutputsUpTo ==
    LET upTo[e \in 0 .. Len(events)] ==
          IF e = 0 THEN <<>> ELSE upTo[e - 1] \o EventOutputs(e)
    IN  upTo

Outputs == OutputsUpTo[Len(events)]

\* The notes without repetitions, sorted by height; the order of transaction
\* hashes and nullifiers within a height is that of the outputs here.
NormalizeFoundNotes(notes) == Kept(Outputs, Range(notes))[Len(Outputs)]

\* Normalization, LatestBlockHeight, then a forced rescan or a reset when the
\* node is behind the wallet.  The reset is made in the caller's wallet.
StartSync(force) ==
    /\ sync.pc = "idle"
    /\ \E h \in Replicas :
          LET w == IF force \/ wallet.cursor[1] > h THEN ResetWallet(wallet)
                   ELSE [wallet EXCEPT !.notes = NormalizeFoundNotes(@)]
          IN  /\ wallet' = w
              /\ sync' = IF h > w.cursor[1]
                         THEN [pc |-> "page", cursor |-> w.cursor, found |-> <<>>]
                         ELSE IdleSync
    /\ UNCHANGED <<events, tip, filter>>

\* The notes of a page that the wallet and the sync do not have yet.
NewNotes(page) ==
    Kept(page.outputs, Owned \ (Range(wallet.notes) \cup Range(sync.found)))[Len(page.outputs)]

Accumulate(found, new) == found \o new

\* One page: after the last one the wallet takes notes and cursor together and
\* normalizes the notes.  A refused query and a page that fails a check end the
\* call and leave the wallet alone.
ScanPage ==
    /\ sync.pc = "page"
    /\ \E h \in Replicas :
          LET page  == GetPrivacyScanPageV2(sync.cursor, h)
              found == Accumulate(sync.found, NewNotes(page))
          IN  \/ /\ page.status = "refused"
                 /\ sync' = [pc |-> "refused", at |-> sync.cursor, height |-> h]
                 /\ UNCHANGED wallet
              \/ /\ page.status # "refused" /\ ~ClientAccepts(page, sync.cursor)
                 /\ sync' = [pc |-> "rejected"]
                 /\ UNCHANGED wallet
              \/ /\ page.status # "refused" /\ ClientAccepts(page, sync.cursor)
                 /\ IF HasMore(page)
                    THEN /\ sync' = [sync EXCEPT !.cursor = page.next, !.found = found]
                         /\ UNCHANGED wallet
                    ELSE /\ wallet' = [cursor |-> page.next,
                                        notes |-> NormalizeFoundNotes(wallet.notes \o found)]
                         /\ sync' = IdleSync
    /\ UNCHANGED <<events, tip, filter>>

\* The caller is told of the failure, or a request is lost: nothing is kept.
AbandonSync ==
    /\ sync.pc # "idle"
    /\ sync' = IdleSync
    /\ UNCHANGED <<events, tip, filter, wallet>>

ScanNext ==
    \/ \E type \in DOMAIN EventTypes :
         \E owned \in SUBSET (0 .. EventTypes[type].outputs - 1) : CommitEvent(type, owned)
    \/ CommitBlock
    \/ \E force \in BOOLEAN : StartSync(force)
    \/ ScanPage
    \/ AbandonSync

ScanSpec == ScanInit /\ [][ScanNext]_scanVars

-----------------------------------------------------------------------------
\* The owned outputs the wallet has come past.
Covered ==
    {o \in Owned : Allowed(o[1]) /\ compareCursor(OutputCursor(o), wallet.cursor) <= 0}

\* WalletExact: between calls and during them the stored notes are exactly the
\* owned outputs up to the stored cursor, each of them once, whatever was
\* committed between two pages, however far behind the replicas were that
\* answered, and wherever a call ended.
WalletExact ==
    /\ Range(wallet.notes) = Covered
    /\ Len(wallet.notes) = Cardinality(Covered)

\* HonestPagesAccepted: no page the keeper makes fails the client's checks,
\* which are written separately in the provider and in the scan service: a
\* page that stops inside an event, ends on summaries without outputs or jumps
\* over filtered events is accepted by the client that asked for it.
HonestPagesAccepted == sync.pc # "rejected"

\* WithdrawAdvancesCursor: a page that starts with an event without outputs
\* whose summary fits is returned, with the cursor behind it: the query refuses
\* only where the first record it has to return does not fit.
WithdrawAdvancesCursor ==
    sync.pc = "refused" =>
        LET first == sync.at[2] + 1
        IN  ~ /\ sync.at[2] = 0 \/ sync.at = PastEvent(sync.at[2])
              /\ first <= Indexed(sync.height) /\ Allowed(first)
              /\ OutputCount(first) = 0 /\ SummarySize(first) <= ByteLimit
=============================================================================
