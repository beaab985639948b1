------------------------------- MODULE Insights -------------------------------
(***************************************************************************)
(* InsightsService: the daily figures of campaigns, ad sets and ads, copied *)
(* from Meta into one snapshot row per object and day, and listed with     *)
(* their totals.  A figure stands for impressions, clicks, spend and       *)
(* conversions, which are treated alike.                                   *)
(*                                                                         *)
(* Meta corrects the figures of past days, several syncs may overlap, and  *)
(* an answer of the Graph API holds PageSize rows, whatever was asked for. *)
(***************************************************************************)
EXTENDS Naturals, FiniteSets, FiniteSetsExt

CONSTANTS
    Campaign, AdSet, Ad,
    LastDay,       \* a natural number, as the next three: days are numbered from 1
    MaxFigure,     \* bound: a day's figure
    MaxRangeDays,  \* MAX_RANGE_DAYS, 400 in the code
    PageSize,      \* rows in one answer, 500 in the code
    Request,
    None

Day == 1..LastDay
Object == Campaign \cup AdSet \cup Ad

VARIABLES
    row,      \* row[o]     : status of the row of o, None without one
    figure,   \* figure[o]  : what Meta reports of o, day by day
    snap,     \* snap[o]    : the snapshots of o, None for a day without one
    sync,     \* sync[r]    : where the sync in slot r stands
    changed   \* history: days others have changed since sync r read Meta

ivars == <<row, figure, snap, sync, changed>>

Dates == Object \X Day
NoSnap == [o \in Object |-> [d \in Day |-> None]]
NoSync == [pc |-> "idle", objects |-> {}, days |-> {}, todo |-> {}, read |-> NoSnap]

InsightsTypeOK ==
    /\ row \in [Object -> {"ACTIVE", "DELETED", None}]
    /\ figure \in [Object -> [Day -> 0..MaxFigure]]
    /\ snap \in [Object -> [Day -> 0..MaxFigure \cup {None}]]
    /\ \A o \in Object, d \in Day : snap[o][d] # None => row[o] # None
    /\ sync \in [Request -> [pc : {"idle", "fetch", "write", "synced"},
                             objects : SUBSET Object, days : SUBSET Day,
                             todo : SUBSET Dates,
                             read : [Object -> [Day -> 0..MaxFigure \cup {None}]]]]
    /\ changed \in [Request -> SUBSET Dates]

InsightsInit ==
    /\ row \in [Object -> {"ACTIVE", "DELETED", None}]
    /\ figure = [o \in Object |-> [d \in Day |-> 0]]
    /\ snap = NoSnap
    /\ sync = [r \in Request |-> NoSync]
    /\ changed = [r \in Request |-> {}]

-----------------------------------------------------------------------------
(* Ranges and totals.                                                      *)

\* assertRange: both ends count.
Accepted(from, to) == from <= to /\ to - from + 1 <= MaxRangeDays

\* Mutant: lt instead of lte.
FoundBefore(o, from, to) == {d \in Day : d >= from /\ d < to /\ snap[o][d] # None}

\* The rows a listing finds: date gte from and lte to.
Found(o, from, to) == {d \in Day : d >= from /\ d <= to /\ snap[o][d] # None}

\* sumTotals over the rows of the listing of one object.
TotalOf(o, from, to) == MapThenSumSet(LAMBDA d : snap[o][d], Found(o, from, to))

\* The same in listForWorkspace, over every campaign.
TotalOfWorkspace(from, to) ==
    MapThenSumSet(LAMBDA x : snap[x[1]][x[2]],
                  UNION {{c} \X Found(c, from, to) : c \in Campaign})

-----------------------------------------------------------------------------
(* The syncs.                                                              *)

Note(dates, r) ==
    changed' = [q \in Request |-> IF q # r /\ sync[q].pc = "write"
                                  THEN changed[q] \cup dates ELSE changed[q]]

Begin(r, objects, from, to) ==
    /\ sync[r].pc = "idle"
    /\ Accepted(from, to)
    /\ sync' = [sync EXCEPT ![r] = [NoSync EXCEPT !.pc = "fetch", !.objects = objects,
                                                  !.days = from..to]]
    /\ UNCHANGED <<row, figure, snap, changed>>

\* syncForWorkspace: the campaigns that are ACTIVE or PAUSED, in one question.
SyncForWorkspace(r, from, to) ==
    LET running == {c \in Campaign : row[c] = "ACTIVE"} IN
    /\ running # {}
    /\ Begin(r, running, from, to)

\* syncForAdSet, syncForAd: one object, which must not be DELETED.
SyncForAdSet(r, o, from, to) == row[o] = "ACTIVE" /\ Begin(r, {o}, from, to)
SyncForAd(r, o, from, to) == row[o] = "ACTIVE" /\ Begin(r, {o}, from, to)

\* What the Graph API may answer when it is asked for the figures asked.
Answers(asked) ==
    {page \in SUBSET asked : /\ Cardinality(page) = PageSize \/ page = asked
                             /\ Cardinality(page) <= PageSize}

\* A second page is not asked for.
FetchInsights(r) ==
    /\ sync[r].pc = "fetch"
    /\ \E page \in Answers(sync[r].objects \X sync[r].days) :
        /\ sync' = [sync EXCEPT
              ![r].pc = "write", ![r].todo = page,
              ![r].read = [o \in Object |-> [d \in Day |->
                              IF <<o, d>> \in page THEN figure[o][d] ELSE None]]]
    /\ changed' = [changed EXCEPT ![r] = {}]
    /\ UNCHANGED <<row, figure, snap>>

\* Mutant: a snapshot that is there already is left as it is.
UpsertInsightOnce(r) ==
    /\ sync[r].pc = "write"
    /\ \E x \in sync[r].todo :
        /\ IF row[x[1]] = None
           THEN sync' = [sync EXCEPT ![r] = NoSync] /\ UNCHANGED snap
           ELSE /\ snap' = IF snap[x[1]][x[2]] = None
                           THEN [snap EXCEPT ![x[1]][x[2]] = sync[r].read[x[1]][x[2]]]
                           ELSE snap
                /\ sync' = [sync EXCEPT ![r].todo = @ \ {x}]
        /\ Note({x}, r)
    /\ UNCHANGED <<row, figure>>

\* Upsert of one day; without the row of its object it fails and ends the sync.
UpsertInsight(r) ==
    /\ sync[r].pc = "write"
    /\ \E x \in sync[r].todo :
        IF row[x[1]] = None
        THEN sync' = [sync EXCEPT ![r] = NoSync] /\ UNCHANGED <<snap, changed>>
        ELSE /\ snap' = [snap EXCEPT ![x[1]][x[2]] = sync[r].read[x[1]][x[2]]]
             /\ sync' = [sync EXCEPT ![r].todo = @ \ {x}]
             /\ Note({x}, r)
    /\ UNCHANGED <<row, figure>>

\* The loop is over; the audit record and the answer follow.
InsightsWritten(r) ==
    /\ sync[r].pc = "write" /\ sync[r].todo = {}
    /\ sync' = [sync EXCEPT ![r].pc = "synced"]
    /\ UNCHANGED <<row, figure, snap, changed>>

InsightsDone(r) ==
    /\ sync[r].pc = "synced"
    /\ sync' = [sync EXCEPT ![r] = NoSync]
    /\ changed' = [changed EXCEPT ![r] = {}]
    /\ UNCHANGED <<row, figure, snap>>

-----------------------------------------------------------------------------
(* What else happens.                                                      *)

\* A late number arrives at Meta.
Correct(o, d) ==
    /\ figure[o][d] < MaxFigure
    /\ figure' = [figure EXCEPT ![o][d] = @ + 1]
    /\ Note({<<o, d>>}, None)
    /\ UNCHANGED <<row, snap, sync>>

\* A sync of the hierarchy marks a row DELETED.
RowDeleted(o) ==
    /\ row[o] = "ACTIVE"
    /\ row' = [row EXCEPT ![o] = "DELETED"]
    /\ UNCHANGED <<figure, snap, sync, changed>>

\* The sync of ad accounts replaces the account row: everything below it goes.
RowsGone ==
    /\ row' = [o \in Object |-> None]
    /\ snap' = NoSnap
    /\ Note(Dates, None)
    /\ UNCHANGED <<figure, sync>>

\* The process dies, or Meta does not answer.
SyncCut(r) ==
    /\ sync[r].pc # "idle"
    /\ sync' = [sync EXCEPT ![r] = NoSync]
    /\ changed' = [changed EXCEPT ![r] = {}]
    /\ UNCHANGED <<row, figure, snap>>

InsightsNext ==
    \/ \E r \in Request, from, to \in Day :
        \/ SyncForWorkspace(r, from, to)
        \/ \E o \in AdSet : SyncForAdSet(r, o, from, to)
        \/ \E o \in Ad : SyncForAd(r, o, from, to)
    \/ \E r \in Request : \/ FetchInsights(r) \/ UpsertInsight(r) \/ InsightsWritten(r)
                          \/ InsightsDone(r) \/ SyncCut(r)
    \/ \E o \in Object, d \in Day : Correct(o, d)
    \/ \E o \in Object : RowDeleted(o)
    \/ RowsGone

-----------------------------------------------------------------------------
(* Properties.                                                             *)

\* When a sync of insights ends, every day that was asked for and that nobody
\* else has written or corrected since Meta was read shows the figure of Meta,
\* corrections of the past included, as long as one answer of Meta holds them
\* all (the comment of syncForWorkspace: re-syncing refreshes the numbers).
SyncEndsExact ==
    \A r \in Request :
        sync[r].pc = "write" /\ sync'[r].pc = "synced"
        /\ Cardinality(sync[r].objects \X sync[r].days) <= PageSize
            => \A x \in (sync[r].objects \X sync[r].days) \ changed[r] :
                  row[x[1]] # None => snap[x[1]][x[2]] = figure[x[1]][x[2]]

\* Both ends of a range count, in the listings as in the length of the range:
\* the totals of two adjacent ranges add up to those of the whole, object by
\* object and over the workspace, a range of one day included, and exactly the
\* ranges of at most MaxRangeDays days are accepted (assertRange, sumTotals).
\* Day LastDay + 1 has no figures.
RangesAddUp ==
    \A from, to \in 1..LastDay + 1 :
        /\ Accepted(from, to) <=> from..to # {} /\ Cardinality(from..to) <= MaxRangeDays
        /\ \A cut \in from..to - 1 :
            /\ \A o \in Object :
                  TotalOf(o, from, to) = TotalOf(o, from, cut) + TotalOf(o, cut + 1, to)
            /\ TotalOfWorkspace(from, to) =
                  TotalOfWorkspace(from, cut) + TotalOfWorkspace(cut + 1, to)
=============================================================================
