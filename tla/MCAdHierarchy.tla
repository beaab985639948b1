---------------------------- MODULE MCAdHierarchy ----------------------------
(***************************************************************************)
(* AdHierarchy, and the insights that hang on its rows, on small instances *)
(* for TLC.  Four kinds of behaviours are explored side by side:           *)
(*   "overlap"   requests on ads and creatives overlap, processes die, and *)
(*               others change ads and creatives in Meta's own tools;      *)
(*   "alone"     the same, ad sets included, one request at a time;        *)
(*   "ours"      one request at a time, nobody dies, nobody else; two ads  *)
(*               and two creatives;                                        *)
(*   "insights"  the syncs of insights, in a hierarchy that stands still   *)
(*               but for deletions.                                        *)
(***************************************************************************)
EXTENDS AdHierarchy, TLC

CONSTANTS Campaign, LastDay, MaxFigure, MaxRangeDays, PageSize

ASSUME FiguresAssumption ==
    /\ {LastDay, MaxFigure, MaxRangeDays, PageSize} \subseteq Nat
    /\ IsFiniteSet(Campaign)

VARIABLES mode, row, figure, snap, sync, changed

I == INSTANCE Insights

insights == <<row, figure, snap, sync, changed>>

MCAdSetOf == [a \in Ad |-> CHOOSE s \in AdSet : TRUE]

AtMost(n, S) == Cardinality({o \in S : remote[o] # None}) <= n

Overlapping == \E r, p \in Request : r # p /\ req[r].pc # "idle" /\ req[p].pc # "idle"

AdSetPc == {"adsets.fetch", "adsets.write", "adset.post", "adset.read", "adset.insert",
            "adset.patch", "adset.reread", "adset.store", "adset.delete", "adset.mark"}

Paused ==
    \/ \E o \in Object : remote[o] = "PAUSED"
    \/ \E r \in Request : req[r].status = "PAUSED"

Allowed ==
    CASE mode = "overlap" ->
           /\ AtMost(1, Ad) /\ AtMost(1, Creative) /\ ~Paused
           /\ \A s \in AdSet : remote[s] = "ACTIVE"
           /\ \A r \in Request : req[r].pc \notin AdSetPc
      [] mode = "alone" ->
           /\ AtMost(1, Ad) /\ AtMost(1, Creative) /\ ~Paused /\ ~Overlapping
           /\ \A r \in Request : ~req[r].lost
      [] mode = "ours" -> ~Overlapping
      [] mode = "insights" -> \A r \in Request : req[r].pc = "idle"

InitSynced ==
    /\ remote = [o \in Object |-> IF o \in AdSet THEN "ACTIVE" ELSE None]
    /\ local = remote
    /\ uses = NoCreative /\ ref = NoCreative
    /\ req = [r \in Request |-> Idle]
    /\ touched = [r \in Request |-> {}]

\* Insights of one level at a time, those of ad sets with overlap; at most one
\* day that Meta corrects.
InsightsAllowed ==
    /\ \E L \in {Campaign, AdSet} \cup {{a} : a \in Ad} :
        /\ \A o \in I!Object \ L : row[o] = None
        /\ L # AdSet => Cardinality({r \in Request : sync[r].pc # "idle"}) <= 1
    /\ Cardinality({x \in I!Dates : figure[x[1]][x[2]] > 0}) <= 1

\* Requests that overlap start with an ad set that has been synced.
MCInit ==
    /\ mode \in {"overlap", "alone", "ours", "insights"}
    /\ IF mode \in {"alone", "ours"} THEN Init ELSE InitSynced
    /\ Allowed
    /\ IF mode = "insights" THEN I!InsightsInit /\ InsightsAllowed
       ELSE row = [o \in I!Object |-> None] /\ I!InsightsInit

MCNext ==
    /\ UNCHANGED mode
    /\ \/ /\ mode = "insights"
          /\ I!InsightsNext
          /\ InsightsAllowed'
          /\ UNCHANGED vars
       \/ /\ mode # "insights"
          /\ Own \/ (mode # "ours" /\ (Elsewhere \/ \E r \in Request : Crash(r)))
          /\ Allowed'
          /\ UNCHANGED insights

MCSpec == MCInit /\ [][MCNext]_<<vars, insights, mode>>

-----------------------------------------------------------------------------

\* Both halves keep their types and the foreign keys of their rows: an ad hangs
\* on an ad set and refers to a creative of the library, a snapshot to the row
\* of its object (schema.prisma, models AdSet to MetaAdInsightSnapshot).
RowsAreWellFormed == TypeOK /\ I!InsightsTypeOK

\* As long as no two requests overlap, an ad set or ad that runs at Meta is
\* never shown as deleted, crashes and changes in Meta's own tools included
\* (AdSetsService and AdsService, syncFor... and delete).
AloneDeletedIsGone == mode # "overlap" => DeletedIsGone

\* As long as no two requests overlap, an ad that is alive never loses its
\* creative because that is deleted here (the comment of CreativesService.delete).
AloneAdsKeepCreative == [][mode # "overlap" => KeepsCreative]_vars

\* As long as only metaflow changes what hangs below the campaign, one request
\* at a time and none cut short, what it shows is what Meta has, and no
\* creative that it still shows is gone (schema.prisma: read-through cache).
OursIsExact == mode = "ours" => SettledIsExact

\* See Insights: what a sync of insights guarantees at its end.
InsightsAreExact == [][I!SyncEndsExact]_insights

\* See Insights: both ends of a range count.
RangesAddUp == I!RangesAddUp

Symmetry ==
    Permutations(Ad) \cup Permutations(Creative) \cup Permutations(Request)
=============================================================================
