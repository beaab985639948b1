---------------------------- MODULE CampaignCache ----------------------------
(***************************************************************************)
(* The campaigns table as a cache of one ad account of Meta:               *)
(* CampaignsService (syncFromMeta, create, update, delete),                *)
(* MetaConnectionsService.syncAdAccounts, which replaces the row that the  *)
(* campaigns hang on, and InsightsService.syncForWorkspace, which hangs    *)
(* daily figures on the campaigns.                                         *)
(*                                                                         *)
(* Every handler talks to Meta and to Postgres in turns and holds nothing  *)
(* in between, so other requests, and people who work in Meta's own tools, *)
(* come in.  Deleting the account row cascades to its campaigns and their  *)
(* insights; a write that refers to a row that is gone fails.              *)
(***************************************************************************)
EXTENDS Naturals, FiniteSets

CONSTANTS
    Campaign,     \* campaign ids at Meta
    Request,      \* requests that can be in flight at the same time
    PageSize,     \* campaigns in one answer of the Graph API (250 in the code)
    MaxRow,       \* bound: ad account rows written
    None

ASSUME NumbersAssumption == PageSize \in Nat /\ MaxRow \in Nat

VARIABLES
    remote,    \* remote[c] : the campaign at Meta
    acct,      \* the current MetaAdAccount row, 0 without one
    rows,      \* ad account rows written so far
    local,     \* local[c] : status in the row of c under acct, None without one
    insights,  \* campaigns whose row has insight snapshots
    req,       \* req[r] : where the handler in slot r stands
    touched    \* history: campaigns others have changed since r's sync read Meta

vars == <<remote, acct, rows, local, insights, req, touched>>

Running == {"ACTIVE", "PAUSED"}
Status == Running \cup {"DELETED"}

ASSUME NoneAssumption == None \notin Campaign \cup Request \cup Status

Pc == {"idle", "syncFetch", "syncUpsert", "synced",
       "create", "createFetch", "createRow",
       "update", "updateFetch", "updateRow",
       "delete", "deleteRow", "insights"}

NoSnapshot == [c \in Campaign |-> None]

Idle == [pc |-> "idle", acct |-> 0, camp |-> None, status |-> None,
         snap |-> NoSnapshot, todo |-> {}]

TypeOK ==
    /\ remote \in [Campaign -> Status \cup {None}]
    /\ acct \in 0..rows
    /\ rows \in 0..MaxRow
    /\ local \in [Campaign -> Status \cup {None}]
    /\ acct = 0 => local = NoSnapshot
    /\ insights \subseteq {c \in Campaign : local[c] # None}
    /\ req \in [Request -> [pc : Pc, acct : 0..rows, camp : Campaign \cup {None},
                            status : Status \cup {None},
                            snap : [Campaign -> Running \cup {None}],
                            todo : SUBSET Campaign]]
    /\ touched \in [Request -> SUBSET Campaign]

\* Some campaigns are older than the connection.
Init ==
    /\ remote \in [Campaign -> {"ACTIVE", None}]
    /\ acct = 0 /\ rows = 0
    /\ local = NoSnapshot
    /\ insights = {}
    /\ req = [r \in Request |-> Idle]
    /\ touched = [r \in Request |-> {}]

\* What GET /{account}/campaigns lists.
Listed == {c \in Campaign : remote[c] \in Running}

Goto(r, pc) == req' = [req EXCEPT ![r].pc = pc]
Finish(r) == req' = [req EXCEPT ![r] = Idle]
Start(r, q) == req[r].pc = "idle" /\ req' = [req EXCEPT ![r] = q]

\* The account row that the handler read is still there.
Current(r) == acct # 0 /\ req[r].acct = acct

\* History: request r changes the campaigns C under everybody else's feet.
Touch(C, r) ==
    touched' = [q \in Request |->
                   IF q = r \/ req[q].pc # "syncUpsert" THEN touched[q]
                                                        ELSE touched[q] \cup C]

cache == <<acct, rows, local, insights>>

-----------------------------------------------------------------------------
(* MetaConnectionsService.syncAdAccounts: the rows read play no part in the *)
(* transaction, which deletes the row of the account, everything below it   *)
(* by cascade, and writes a new one if Meta still lists the account.        *)

SyncAdAccounts ==
    /\ rows < MaxRow
    /\ rows' = rows + 1
    /\ acct' \in {0, rows + 1}
    /\ local' = NoSnapshot
    /\ insights' = {}
    /\ Touch(Campaign, None)
    /\ UNCHANGED <<remote, req>>

(* CampaignsService.syncFromMeta                                           *)

SyncStart(r) ==
    /\ acct # 0
    /\ Start(r, [Idle EXCEPT !.pc = "syncFetch", !.acct = acct])
    /\ UNCHANGED <<remote, cache, touched>>

\* One page of the listing, and no second one.
SyncFetch(r) ==
    /\ req[r].pc = "syncFetch"
    /\ \E page \in SUBSET Listed :
        /\ Cardinality(page) = PageSize \/ page = Listed
        /\ Cardinality(page) <= PageSize
        /\ req' = [req EXCEPT
              ![r].pc = "syncUpsert", ![r].todo = page,
              ![r].snap = [c \in Campaign |-> IF c \in page THEN remote[c] ELSE None]]
    /\ touched' = [touched EXCEPT ![r] = IF Current(r) THEN {} ELSE Campaign]
    /\ UNCHANGED <<remote, cache>>

\* One upsert per campaign; without the account row it fails and ends the sync.
SyncUpsert(r) ==
    /\ req[r].pc = "syncUpsert"
    /\ \E c \in req[r].todo :
        IF Current(r)
        THEN /\ local' = [local EXCEPT ![c] = req[r].snap[c]]
             /\ req' = [req EXCEPT ![r].todo = @ \ {c}]
             /\ Touch({c}, r)
        ELSE /\ Finish(r)
             /\ UNCHANGED <<local, touched>>
    /\ UNCHANGED <<remote, acct, rows, insights>>

\* Mutant: rows that Meta no longer lists are left as they are.
SyncMarkNothing(r) ==
    /\ req[r].pc = "syncUpsert"
    /\ req[r].todo = {}
    /\ Goto(r, "synced")
    /\ UNCHANGED <<remote, cache, touched>>

\* updateMany: the rows that were not in the listing become DELETED.
SyncMark(r) ==
    LET missing == {c \in Campaign : /\ Current(r) /\ req[r].snap[c] = None
                                     /\ local[c] \in Running}
    IN
    /\ req[r].pc = "syncUpsert"
    /\ req[r].todo = {}
    /\ local' = [c \in Campaign |-> IF c \in missing THEN "DELETED" ELSE local[c]]
    /\ Goto(r, "synced")
    /\ Touch(missing, r)
    /\ UNCHANGED <<remote, acct, rows, insights>>

\* audit.record, and the answer.
SyncDone(r) ==
    /\ req[r].pc = "synced"
    /\ Finish(r)
    /\ touched' = [touched EXCEPT ![r] = {}]
    /\ UNCHANGED <<remote, cache>>

(* CampaignsService.create: loadContext, POST, GET, insert.                *)

CreateStart(r, s) ==
    /\ acct # 0
    /\ Start(r, [Idle EXCEPT !.pc = "create", !.acct = acct, !.status = s])
    /\ UNCHANGED <<remote, cache, touched>>

CreateRemote(r) ==
    /\ req[r].pc = "create"
    /\ \E c \in Campaign :
        /\ remote[c] = None
        /\ remote' = [remote EXCEPT ![c] = req[r].status]
        /\ req' = [req EXCEPT ![r].pc = "createFetch", ![r].camp = c]
        /\ Touch({c}, r)
    /\ UNCHANGED cache

\* GET of the campaign by id, after the POST of a create or an update.
Fetch(r, pc, next) ==
    /\ req[r].pc = pc
    /\ req' = [req EXCEPT ![r].pc = next, ![r].status = remote[req[r].camp]]
    /\ UNCHANGED <<remote, cache, touched>>

CreateFetch(r) == Fetch(r, "createFetch", "createRow")

\* The insert fails if the account row is gone, or if a sync was faster.
CreateRow(r) ==
    LET c == req[r].camp IN
    /\ req[r].pc = "createRow"
    /\ IF Current(r) /\ local[c] = None
       THEN local' = [local EXCEPT ![c] = req[r].status] /\ Touch({c}, r)
       ELSE UNCHANGED <<local, touched>>
    /\ Finish(r)
    /\ UNCHANGED <<remote, acct, rows, insights>>

(* CampaignsService.update: read and check, POST, GET, update by id.       *)

UpdateStart(r, c, s) ==
    /\ local[c] \in Running
    /\ Start(r, [Idle EXCEPT !.pc = "update", !.acct = acct, !.camp = c, !.status = s])
    /\ UNCHANGED <<remote, cache, touched>>

\* Meta refuses to change a campaign that has been deleted.
UpdateRemote(r) ==
    LET c == req[r].camp IN
    /\ req[r].pc = "update"
    /\ IF remote[c] \in Running
       THEN /\ remote' = [remote EXCEPT ![c] = req[r].status]
            /\ Goto(r, "updateFetch")
            /\ Touch({c}, r)
       ELSE /\ Finish(r)
            /\ UNCHANGED <<remote, touched>>
    /\ UNCHANGED cache

UpdateFetch(r) == Fetch(r, "updateFetch", "updateRow")

\* Mutant: the snapshot is returned and the row left as it was.
UpdateRowSkipped(r) ==
    /\ req[r].pc = "updateRow"
    /\ Finish(r)
    /\ UNCHANGED <<remote, cache, touched>>

UpdateRow(r) ==
    LET c == req[r].camp IN
    /\ req[r].pc = "updateRow"
    /\ IF Current(r)
       THEN local' = [local EXCEPT ![c] = req[r].status] /\ Touch({c}, r)
       ELSE UNCHANGED <<local, touched>>
    /\ Finish(r)
    /\ UNCHANGED <<remote, acct, rows, insights>>

(* CampaignsService.delete: read and check, DELETE, update by id.          *)

\* Mutant: the row is marked before Meta is asked.
DeleteStartLocal(r, c) ==
    /\ local[c] \in Running
    /\ Start(r, [Idle EXCEPT !.pc = "delete", !.acct = acct, !.camp = c])
    /\ local' = [local EXCEPT ![c] = "DELETED"]
    /\ Touch({c}, r)
    /\ UNCHANGED <<remote, acct, rows, insights>>

DeleteStart(r, c) ==
    /\ local[c] \in Running
    /\ Start(r, [Idle EXCEPT !.pc = "delete", !.acct = acct, !.camp = c])
    /\ UNCHANGED <<remote, cache, touched>>

\* Mutant: an error of the DELETE is swallowed.
DeleteRemoteTried(r) ==
    LET c == req[r].camp IN
    /\ req[r].pc = "delete"
    /\ remote' \in {remote, [remote EXCEPT ![c] = "DELETED"]}
    /\ Goto(r, "deleteRow")
    /\ Touch({c}, r)
    /\ UNCHANGED cache

\* What Meta answers when the campaign is gone already is left open.
DeleteRemote(r) ==
    LET c == req[r].camp IN
    /\ req[r].pc = "delete"
    /\ \/ /\ remote' = [remote EXCEPT ![c] = "DELETED"]
          /\ Goto(r, "deleteRow")
          /\ Touch({c}, r)
       \/ /\ remote[c] = "DELETED"
          /\ Finish(r)
          /\ UNCHANGED <<remote, touched>>
    /\ UNCHANGED cache

DeleteRow(r) ==
    LET c == req[r].camp IN
    /\ req[r].pc = "deleteRow"
    /\ IF Current(r)
       THEN local' = [local EXCEPT ![c] = "DELETED"] /\ Touch({c}, r)
       ELSE UNCHANGED <<local, touched>>
    /\ Finish(r)
    /\ UNCHANGED <<remote, acct, rows, insights>>

(* InsightsService.syncForWorkspace: the running campaigns are read, their *)
(* figures fetched (Meta may have some for C only), and upserted one by    *)
(* one.                                                                    *)

InsightsStart(r, C) ==
    /\ C # {} /\ C \subseteq {c \in Campaign : local[c] \in Running}
    /\ Start(r, [Idle EXCEPT !.pc = "insights", !.acct = acct, !.todo = C])
    /\ UNCHANGED <<remote, cache, touched>>

InsightsUpsert(r) ==
    /\ req[r].pc = "insights"
    /\ \E c \in req[r].todo :
        IF Current(r)
        THEN /\ insights' = insights \cup {c}
             /\ IF req[r].todo # {c} THEN req' = [req EXCEPT ![r].todo = @ \ {c}]
                                     ELSE Finish(r)
        ELSE Finish(r) /\ UNCHANGED insights
    /\ UNCHANGED <<remote, acct, rows, local, touched>>

(* The world outside.                                                      *)

ElsewhereChange(c) ==
    /\ \E s \in Status :
        /\ remote[c] \in Running \/ (remote[c] = None /\ s \in Running)
        /\ s # remote[c]
        /\ remote' = [remote EXCEPT ![c] = s]
    /\ Touch({c}, None)
    /\ UNCHANGED <<cache, req>>

\* The process dies, or Meta does not answer: the rest never runs.
Crash(r) ==
    /\ req[r].pc # "idle"
    /\ Finish(r)
    /\ touched' = [touched EXCEPT ![r] = {}]
    /\ UNCHANGED <<remote, cache>>

-----------------------------------------------------------------------------

Sync(r) == SyncStart(r) \/ SyncFetch(r) \/ SyncUpsert(r) \/ SyncMark(r) \/ SyncDone(r)

Create(r) ==
    (\E s \in Running : CreateStart(r, s)) \/ CreateRemote(r) \/ CreateFetch(r) \/ CreateRow(r)

Update(r) ==
    \/ \E c \in Campaign, s \in Running : UpdateStart(r, c, s)
    \/ UpdateRemote(r) \/ UpdateFetch(r) \/ UpdateRow(r)

Delete(r) == (\E c \in Campaign : DeleteStart(r, c)) \/ DeleteRemote(r) \/ DeleteRow(r)

Insights(r) == (\E C \in SUBSET Campaign : InsightsStart(r, C)) \/ InsightsUpsert(r)

\* What metaflow does by itself.
Own ==
    \/ \E r \in Request : Sync(r) \/ Create(r) \/ Update(r) \/ Delete(r) \/ Insights(r)
    \/ SyncAdAccounts

Next ==
    \/ Own
    \/ \E r \in Request : Crash(r)
    \/ \E c \in Campaign : ElsewhereChange(c)

Spec == Init /\ [][Next]_vars

-----------------------------------------------------------------------------
(* Properties.                                                             *)

Exact(c) == IF c \in Listed THEN local[c] = remote[c] ELSE local[c] \notin Running

\* When a campaign sync reaches its end and the account row is the one it
\* began with, every campaign that nobody else has changed since it read Meta
\* is cached as it is there: campaigns others are at work on do not spoil the
\* rest, and what crashes have left behind (a campaign created or deleted only
\* at Meta) is made up for.
SyncIsExact ==
    [][\A r \in Request :
        req[r].pc = "syncUpsert" /\ req'[r].pc = "synced"
            => \A c \in Campaign \ touched[r] : Exact(c)']_vars

\* The comment of syncFromMeta: the rows marked DELETED are those missing
\* upstream.  A campaign that runs at Meta is never shown as deleted (which
\* would also lock its owner out: update refuses with campaign_deleted).
DeletedIsGone == \A c \in Campaign : local[c] = "DELETED" => remote[c] = "DELETED"

\* A row that says DELETED says so for good, until its account row is replaced.
DeletedIsFinal ==
    [][\A c \in Campaign :
        local[c] = "DELETED" /\ acct' = acct => local'[c] = "DELETED"]_vars

\* Campaign is a read-through cache (schema.prisma): as long as only metaflow
\* changes campaigns, what it shows when it is at rest is what Meta has.
SettledIsExact ==
    (\A r \in Request : req[r].pc = "idle")
        => \A c \in Campaign : local[c] # None => Exact(c)

\* The comment of syncFromMeta and PROGRESS.md: rows are never deleted, so
\* that historical insights stay attached.
InsightsStay == [][insights \subseteq insights']_vars
=============================================================================
