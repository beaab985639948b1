--------------------------- MODULE MCCampaignCache ---------------------------
(***************************************************************************)
(* CampaignCache on small instances, for TLC.  Three kinds of behaviours   *)
(* are explored side by side:                                              *)
(*   "overlap"  requests overlap, processes die, others change campaigns   *)
(*              in Meta's own tools; two campaigns at most, and no insight *)
(*              sync, which writes nothing that another handler reads;     *)
(*   "alone"    the same, one request at a time, three campaigns;          *)
(*   "ours"     one request at a time, nobody dies, nobody else.           *)
(***************************************************************************)
EXTENDS CampaignCache, TLC

VARIABLE mode

AtMostOne ==
    \A r, s \in Request : req[r].pc # "idle" /\ req[s].pc # "idle" => r = s
CampaignsAtMost(n) == Cardinality({c \in Campaign : remote[c] # None}) <= n

Allowed ==
    IF mode = "overlap"
    THEN CampaignsAtMost(2) /\ \A r \in Request : req[r].pc # "insights"
    ELSE AtMostOne

MCInit == Init /\ mode \in {"overlap", "alone", "ours"} /\ Allowed
MCNext ==
    /\ \/ Own
       \/ /\ mode # "ours"
          /\ \/ \E r \in Request : Crash(r)
             \/ \E c \in Campaign : ElsewhereChange(c)
    /\ UNCHANGED mode
    /\ Allowed'
MCSpec == MCInit /\ [][MCNext]_<<vars, mode>>

\* As long as no two requests overlap, a campaign that runs at Meta is never
\* shown as deleted (the comment of syncFromMeta).
AloneDeletedIsGone == mode # "overlap" => DeletedIsGone

\* As long as no two requests overlap, a row that says DELETED says so for
\* good, until its account row is replaced (CampaignsService.update and delete).
AloneDeletedIsFinal ==
    [][mode # "overlap" =>
        \A c \in Campaign :
            local[c] = "DELETED" /\ acct' = acct => local'[c] = "DELETED"]_vars

\* Campaign is a read-through cache (schema.prisma): as long as only metaflow
\* changes campaigns, one request at a time and none cut short, what it shows
\* is what Meta has.
OursSettledIsExact == mode = "ours" => SettledIsExact

Symmetry == Permutations(Campaign) \cup Permutations(Request)
=============================================================================
