----------------------------- MODULE AdHierarchy -----------------------------
(***************************************************************************)
(* What hangs below one campaign: its ad sets, their ads, and the creative *)
(* library of the ad account, each row a copy of an object at Meta         *)
(* (AdSetsService, AdsService, CreativesService over RealMetaApiClient).   *)
(*                                                                         *)
(* An ad refers to its creative twice: at Meta, and by the foreign key     *)
(* ads.creative_id (SetNull).  No handler sees both at the same time: the  *)
(* sync of ads looks the creative up in our library, the deletion of a     *)
(* creative looks only at our keys, and an update that does not choose a   *)
(* creative writes back the key that it read.                              *)
(***************************************************************************)
EXTENDS Naturals, FiniteSets

CONSTANTS
    AdSet, Ad, Creative,  \* ids at Meta
    AdSetOf,              \* the ad set an ad belongs to
    Request,              \* requests that can be in flight at the same time
    None

ASSUME ParentAssumption == AdSetOf \in [Ad -> AdSet]

\* Three tables.
ASSUME KindsAssumption ==
    /\ AdSet \cap Ad = {}
    /\ AdSet \cap Creative = {}
    /\ Ad \cap Creative = {}

VARIABLES
    remote,   \* remote[o] : the object at Meta, None before it exists
    uses,     \* uses[a]   : the creative of ad a at Meta
    local,    \* local[o]  : status in the row of o, None without one
    ref,      \* ref[a]    : creative_id in the row of ad a
    req,      \* req[r]    : where the handler in slot r stands
    touched   \* history: objects others have changed since r's sync read Meta

vars == <<remote, uses, local, ref, req, touched>>

Object == AdSet \cup Ad \cup Creative
Running == {"ACTIVE", "PAUSED"}
Status == Running \cup {"DELETED"}

ASSUME NoneAssumption == None \notin Object \cup Request \cup Status

Pc == {"idle",
       "adsets.fetch", "adsets.write", "adset.post", "adset.read", "adset.insert",
       "adset.patch", "adset.reread", "adset.store", "adset.delete", "adset.mark",
       "ads.fetch", "ads.resolve", "ads.write", "ad.post", "ad.read", "ad.insert",
       "ad.patch", "ad.reread", "ad.store", "ad.delete", "ad.mark",
       "creatives.fetch", "creatives.write", "creative.post", "creative.insert",
       "creative.delete", "creative.drop", "synced"}

NoObject == [o \in Object |-> None]
NoCreative == [a \in Ad |-> None]

\* scope: what a sync is about; lost: the rows that were read are gone.
Idle == [pc |-> "idle", obj |-> None, status |-> None, creative |-> None,
         keep |-> None, scope |-> {}, todo |-> {}, snap |-> NoObject, asset |-> NoCreative,
         lost |-> FALSE]

\* Besides types, the foreign keys: an ad hangs on the row of its ad set and
\* refers to a creative of the library (schema.prisma, models Ad and Creative).
TypeOK ==
    /\ remote \in [Object -> Status \cup {None}]
    /\ uses \in [Ad -> Creative \cup {None}]
    /\ local \in [Object -> Status \cup {None}]
    /\ \A a \in Ad : local[a] # None => local[AdSetOf[a]] # None
    /\ \A a \in Ad : ref[a] # None => local[a] # None /\ local[ref[a]] # None
    /\ ref \in [Ad -> Creative \cup {None}]
    /\ req \in [Request ->
          [pc : Pc, obj : Object \cup {None}, status : Status \cup {None},
           creative : Creative \cup {None}, keep : Creative \cup {None}, scope : SUBSET Object,
           todo : SUBSET Object, snap : [Object -> Status \cup {None}],
           asset : [Ad -> Creative \cup {None}], lost : BOOLEAN]]
    /\ touched \in [Request -> SUBSET Object]

\* Objects may be older than the connection; an ad then has a creative.
Init ==
    /\ remote \in [Object -> {"ACTIVE", None}]
    /\ uses \in [Ad -> Creative \cup {None}]
    /\ \A a \in Ad :
        /\ remote[a] = None <=> uses[a] = None
        /\ remote[a] # None => remote[AdSetOf[a]] # None /\ remote[uses[a]] # None
    /\ local = NoObject
    /\ ref = NoCreative
    /\ req = [r \in Request |-> Idle]
    /\ touched = [r \in Request |-> {}]

AtMeta == <<remote, uses>>
Rows == <<local, ref>>

\* What a listing of Meta returns of the objects S.
Listed(S) == {o \in S : remote[o] \in Running}

At(r, pc) == req[r].pc = pc
Start(r, q) == At(r, "idle") /\ req' = [req EXCEPT ![r] = q]
Goto(r, pc) == req' = [req EXCEPT ![r].pc = pc]
Finish(r) == req' = [req EXCEPT ![r] = Idle]

Syncing == {"adsets.write", "ads.resolve", "ads.write", "creatives.write"}

\* History: somebody else than r changes the objects O, at Meta or in our rows.
Touch(O, r) ==
    touched' = [q \in Request |->
                   IF q # r /\ req[q].pc \in Syncing
                   THEN touched[q] \cup O ELSE touched[q]]

\* The local creative that the sync of ads finds for one of Meta.
Resolve(k) == IF k # None /\ local[k] # None THEN k ELSE None

-----------------------------------------------------------------------------
(* Steps that the three services share.                                    *)

\* GET of the listing: one page, which here holds everything.
ReadListing(r, pc, next) ==
    LET listed == Listed(req[r].scope) IN
    /\ At(r, pc)
    /\ req' = [req EXCEPT
          ![r].pc = next, ![r].todo = listed,
          ![r].snap = [o \in Object |-> IF o \in listed THEN remote[o] ELSE None],
          ![r].asset = [a \in Ad |-> IF a \in listed THEN uses[a] ELSE None]]
    /\ touched' = [touched EXCEPT ![r] = {}]
    /\ UNCHANGED <<AtMeta, Rows>>

\* Upsert of object o with the creative k; a row below one that is gone, or
\* with a creative that is, cannot be written, which ends the sync.
Upsert(r, o, k, next) ==
    /\ IF req[r].lost \/ (k # None /\ local[k] = None)
       THEN Finish(r) /\ UNCHANGED <<Rows, touched>>
       ELSE /\ local' = [local EXCEPT ![o] = req[r].snap[o]]
            /\ ref' = IF o \in Ad THEN [ref EXCEPT ![o] = k] ELSE ref
            /\ req' = [req EXCEPT ![r].pc = next, ![r].todo = @ \ {o},
                                  ![r].obj = None, ![r].creative = None]
            /\ Touch({o}, r)
    /\ UNCHANGED AtMeta

\* updateMany: the rows that the listing lacks become DELETED.
MarkMissing(r, pc) ==
    LET missing == {o \in req[r].scope : /\ ~req[r].lost /\ req[r].snap[o] = None
                                         /\ local[o] \in Running}
    IN
    /\ At(r, pc) /\ req[r].todo = {}
    /\ local' = [o \in Object |-> IF o \in missing THEN "DELETED" ELSE local[o]]
    /\ Goto(r, "synced")
    /\ Touch(missing, r)
    /\ UNCHANGED <<AtMeta, ref>>

\* The audit record of a sync, and the answer.
SyncDone(r) ==
    /\ At(r, "synced")
    /\ Finish(r)
    /\ UNCHANGED <<AtMeta, Rows, touched>>

\* POST of an object that does not exist yet.
PostNew(r, pc, next, S) ==
    /\ At(r, pc)
    /\ \E o \in S :
        /\ remote[o] = None
        /\ remote' = [remote EXCEPT ![o] = req[r].status]
        /\ uses' = IF o \in Ad THEN [uses EXCEPT ![o] = req[r].creative] ELSE uses
        /\ req' = [req EXCEPT ![r].pc = next, ![r].obj = o]
        /\ Touch({o}, r)
    /\ UNCHANGED Rows

\* POST to an object that exists; Meta refuses it of a deleted one.
PostChange(r, pc, next) ==
    LET q == req[r] IN
    /\ At(r, pc)
    /\ IF remote[q.obj] \in Running
       THEN /\ remote' = [remote EXCEPT ![q.obj] = q.status]
            /\ uses' = IF q.creative # None THEN [uses EXCEPT ![q.obj] = q.creative] ELSE uses
            /\ Goto(r, next)
            /\ Touch({q.obj}, r)
       ELSE Finish(r) /\ UNCHANGED <<AtMeta, touched>>
    /\ UNCHANGED Rows

\* GET of one object by id, after the POST.
ReadOne(r, pc, next) ==
    /\ At(r, pc)
    /\ req' = [req EXCEPT ![r].pc = next, ![r].status = remote[req[r].obj]]
    /\ UNCHANGED <<AtMeta, Rows, touched>>

\* DELETE of one object; what Meta answers when it is gone already is left open.
DeleteOne(r, pc, next) ==
    LET o == req[r].obj IN
    /\ At(r, pc)
    /\ \/ remote' = [remote EXCEPT ![o] = "DELETED"] /\ Goto(r, next) /\ Touch({o}, r)
       \/ remote[o] = "DELETED" /\ Finish(r) /\ UNCHANGED <<remote, touched>>
    /\ UNCHANGED <<uses, Rows>>

\* Write of the row of req[r].obj, which fails if the row has gone.
Store(r, pc, s, k) ==
    LET o == req[r].obj IN
    /\ At(r, pc)
    /\ IF req[r].lost \/ (k # None /\ local[k] = None)
       THEN UNCHANGED <<Rows, touched>>
       ELSE /\ local' = [local EXCEPT ![o] = s]
            /\ ref' = IF o \in Ad THEN [ref EXCEPT ![o] = k] ELSE ref
            /\ Touch({o}, r)
    /\ Finish(r)
    /\ UNCHANGED AtMeta

\* Insert of a row, which a sync may have been faster to write.
Insert(r, pc) ==
    /\ At(r, pc)
    /\ IF local[req[r].obj] = None
       THEN Store(r, pc, req[r].status, req[r].creative)
       ELSE Finish(r) /\ UNCHANGED <<AtMeta, Rows, touched>>

-----------------------------------------------------------------------------
(* AdSetsService: syncForCampaign, create, update, delete.                 *)

AdSetSyncStart(r) ==
    /\ Start(r, [Idle EXCEPT !.pc = "adsets.fetch", !.scope = AdSet])
    /\ UNCHANGED <<AtMeta, Rows, touched>>

AdSetFetch(r) == ReadListing(r, "adsets.fetch", "adsets.write")

AdSetUpsert(r) ==
    /\ At(r, "adsets.write")
    /\ \E o \in req[r].todo : Upsert(r, o, None, "adsets.write")

AdSetMark(r) == MarkMissing(r, "adsets.write")

AdSetCreateStart(r, s) ==
    /\ Start(r, [Idle EXCEPT !.pc = "adset.post", !.status = s])
    /\ UNCHANGED <<AtMeta, Rows, touched>>

AdSetPost(r) == PostNew(r, "adset.post", "adset.read", AdSet)
AdSetRead(r) == ReadOne(r, "adset.read", "adset.insert")
AdSetInsert(r) == Insert(r, "adset.insert")

AdSetUpdateStart(r, o, s) ==
    /\ local[o] \in Running
    /\ Start(r, [Idle EXCEPT !.pc = "adset.patch", !.obj = o, !.status = s])
    /\ UNCHANGED <<AtMeta, Rows, touched>>

AdSetPatch(r) == PostChange(r, "adset.patch", "adset.reread")
AdSetReread(r) == ReadOne(r, "adset.reread", "adset.store")
AdSetStore(r) == Store(r, "adset.store", req[r].status, None)

\* Mutant: the row is marked before Meta is asked.
AdSetDeleteStartLocal(r, o) ==
    /\ local[o] \in Running
    /\ Start(r, [Idle EXCEPT !.pc = "adset.delete", !.obj = o])
    /\ local' = [local EXCEPT ![o] = "DELETED"]
    /\ UNCHANGED <<AtMeta, ref, touched>>

\* An ad set that is DELETED already is left alone.
AdSetDeleteStart(r, o) ==
    /\ local[o] \in Running
    /\ Start(r, [Idle EXCEPT !.pc = "adset.delete", !.obj = o])
    /\ UNCHANGED <<AtMeta, Rows, touched>>

AdSetRemove(r) == DeleteOne(r, "adset.delete", "adset.mark")
AdSetMarkDeleted(r) == Store(r, "adset.mark", "DELETED", None)

-----------------------------------------------------------------------------
(* AdsService: syncForAdSet, create, update, delete.  loadAdSet asks for   *)
(* the row of the ad set and not for its status.                           *)

AdSyncStart(r, s) ==
    /\ local[s] # None
    /\ Start(r, [Idle EXCEPT !.pc = "ads.fetch", !.scope = {a \in Ad : AdSetOf[a] = s}])
    /\ UNCHANGED <<AtMeta, Rows, touched>>

AdFetch(r) == ReadListing(r, "ads.fetch", "ads.resolve")

\* resolveCreativeId, best effort: null when the library lacks the creative.
AdResolve(r) ==
    /\ At(r, "ads.resolve")
    /\ \E a \in req[r].todo :
        req' = [req EXCEPT ![r].pc = "ads.write", ![r].obj = a,
                           ![r].creative = Resolve(req[r].asset[a])]
    /\ UNCHANGED <<AtMeta, Rows, touched>>

\* Mutant: the reference of a row that exists is left as it is.
AdUpsertKeep(r) ==
    /\ At(r, "ads.write")
    /\ Upsert(r, req[r].obj, IF local[req[r].obj] # None THEN ref[req[r].obj]
                                                       ELSE req[r].creative, "ads.resolve")

AdUpsert(r) ==
    /\ At(r, "ads.write")
    /\ Upsert(r, req[r].obj, req[r].creative, "ads.resolve")

AdMark(r) == MarkMissing(r, "ads.resolve")

AdCreateStart(r, s, k, status) ==
    /\ local[s] # None /\ local[k] # None
    /\ Start(r, [Idle EXCEPT !.pc = "ad.post", !.status = status, !.creative = k,
                             !.scope = {a \in Ad : AdSetOf[a] = s}])
    /\ UNCHANGED <<AtMeta, Rows, touched>>

\* Meta refuses an ad without its ad set or its creative.
AdPost(r) ==
    /\ At(r, "ad.post")
    /\ IF /\ remote[req[r].creative] \in Running
          /\ \A a \in req[r].scope : remote[AdSetOf[a]] \in Running
       THEN PostNew(r, "ad.post", "ad.read", req[r].scope)
       ELSE Finish(r) /\ UNCHANGED <<AtMeta, Rows, touched>>

AdRead(r) == ReadOne(r, "ad.read", "ad.insert")
AdInsert(r) == Insert(r, "ad.insert")

\* Without a choice of its own the request keeps the key that it has read.
AdUpdateStart(r, a, s, k) ==
    /\ local[a] \in Running
    /\ k # None => local[k] # None
    /\ Start(r, [Idle EXCEPT !.pc = "ad.patch", !.obj = a, !.status = s,
                             !.creative = k, !.keep = ref[a]])
    /\ UNCHANGED <<AtMeta, Rows, touched>>

\* Meta refuses a creative that it no longer has, like a deleted ad.
AdPatch(r) ==
    /\ At(r, "ad.patch")
    /\ IF req[r].creative # None => remote[req[r].creative] \in Running
       THEN PostChange(r, "ad.patch", "ad.reread")
       ELSE Finish(r) /\ UNCHANGED <<AtMeta, Rows, touched>>

AdReread(r) == ReadOne(r, "ad.reread", "ad.store")

\* Mutant: the key that was read is written, whatever was chosen.
AdStoreOld(r) == Store(r, "ad.store", req[r].status, req[r].keep)

AdStore(r) ==
    Store(r, "ad.store", req[r].status,
          IF req[r].creative # None THEN req[r].creative ELSE req[r].keep)

AdDeleteStart(r, a) ==
    /\ local[a] \in Running
    /\ Start(r, [Idle EXCEPT !.pc = "ad.delete", !.obj = a])
    /\ UNCHANGED <<AtMeta, Rows, touched>>

AdRemove(r) == DeleteOne(r, "ad.delete", "ad.mark")

\* The update names status and syncedAt only: the creative stays as it is.
AdMarkDeleted(r) == Store(r, "ad.mark", "DELETED", ref[req[r].obj])

-----------------------------------------------------------------------------
(* CreativesService: syncForAdAccount, create, delete.  The library only   *)
(* grows by a sync: rows that the listing lacks are not looked for.        *)

CreativeSyncStart(r) ==
    /\ Start(r, [Idle EXCEPT !.pc = "creatives.fetch", !.scope = Creative])
    /\ UNCHANGED <<AtMeta, Rows, touched>>

CreativeFetch(r) == ReadListing(r, "creatives.fetch", "creatives.write")

CreativeUpsert(r) ==
    /\ At(r, "creatives.write")
    /\ \E k \in req[r].todo : Upsert(r, k, None, "creatives.write")

CreativeSyncEnd(r) ==
    /\ At(r, "creatives.write") /\ req[r].todo = {}
    /\ Goto(r, "synced")
    /\ UNCHANGED <<AtMeta, Rows, touched>>

CreativeCreateStart(r) ==
    /\ Start(r, [Idle EXCEPT !.pc = "creative.post", !.status = "ACTIVE"])
    /\ UNCHANGED <<AtMeta, Rows, touched>>

CreativePost(r) == PostNew(r, "creative.post", "creative.insert", Creative)
CreativeInsert(r) == Insert(r, "creative.insert")

\* Ads that keep a creative from being deleted: status notIn DELETED, ARCHIVED.
Users(k) == {a \in Ad : ref[a] = k /\ local[a] \in Running}

\* Mutant: ads are not looked at.
CreativeDeleteUnchecked(r, k) ==
    /\ local[k] # None
    /\ Start(r, [Idle EXCEPT !.pc = "creative.delete", !.obj = k])
    /\ UNCHANGED <<AtMeta, Rows, touched>>

CreativeDeleteStart(r, k) ==
    /\ local[k] # None
    /\ Users(k) = {}
    /\ Start(r, [Idle EXCEPT !.pc = "creative.delete", !.obj = k])
    /\ UNCHANGED <<AtMeta, Rows, touched>>

CreativeRemove(r) == DeleteOne(r, "creative.delete", "creative.drop")

\* Mutant: the foreign key is not SetNull.
CreativeDropDangling(r) ==
    /\ At(r, "creative.drop")
    /\ local' = [local EXCEPT ![req[r].obj] = None]
    /\ Finish(r)
    /\ UNCHANGED <<AtMeta, ref, touched>>

\* The row goes, and with it (SetNull) what refers to it.
CreativeDrop(r) ==
    LET k == req[r].obj IN
    /\ At(r, "creative.drop")
    /\ IF req[r].lost \/ local[k] = None
       THEN UNCHANGED <<Rows, touched>>
       ELSE /\ local' = [local EXCEPT ![k] = None]
            /\ ref' = [a \in Ad |-> IF ref[a] = k THEN None ELSE ref[a]]
            /\ Touch({k} \cup {a \in Ad : ref[a] = k}, r)
    /\ Finish(r)
    /\ UNCHANGED AtMeta

-----------------------------------------------------------------------------
(* The world outside.                                                      *)

\* MetaConnectionsService.syncAdAccounts: the account row is replaced, and
\* everything below it, the campaign row included, goes with the old one.
AccountReplaced ==
    /\ local' = NoObject
    /\ ref' = NoCreative
    /\ req' = [r \in Request |-> IF At(r, "idle") THEN Idle ELSE [req[r] EXCEPT !.lost = TRUE]]
    /\ Touch(Object, None)
    /\ UNCHANGED AtMeta

\* Somebody creates, changes or deletes an object in Meta's own tools.
ElsewhereChange(o, s, k) ==
    /\ remote[o] \in Running \/ (remote[o] = None /\ s \in Running)
    /\ o \in Ad => k # None /\ (s \in Running => /\ remote[k] \in Running
                                                 /\ remote[AdSetOf[o]] \in Running)
    /\ o \notin Ad => k = None
    /\ o \in Creative => s # "PAUSED"
    /\ remote' = [remote EXCEPT ![o] = s]
    /\ uses' = IF o \in Ad THEN [uses EXCEPT ![o] = k] ELSE uses
    /\ <<remote', uses'>> # AtMeta
    /\ Touch({o}, None)
    /\ UNCHANGED <<Rows, req>>

\* The process dies, or Meta does not answer: the rest never runs.
Crash(r) ==
    /\ ~At(r, "idle")
    /\ Finish(r)
    /\ touched' = [touched EXCEPT ![r] = {}]
    /\ UNCHANGED <<AtMeta, Rows>>

-----------------------------------------------------------------------------

AdSets(r) ==
    \/ AdSetSyncStart(r) \/ AdSetFetch(r) \/ AdSetUpsert(r) \/ AdSetMark(r)
    \/ (\E s \in Running : AdSetCreateStart(r, s))
    \/ AdSetPost(r) \/ AdSetRead(r) \/ AdSetInsert(r)
    \/ (\E o \in AdSet, s \in Running : AdSetUpdateStart(r, o, s))
    \/ AdSetPatch(r) \/ AdSetReread(r) \/ AdSetStore(r)
    \/ (\E o \in AdSet : AdSetDeleteStart(r, o)) \/ AdSetRemove(r) \/ AdSetMarkDeleted(r)

Ads(r) ==
    \/ (\E s \in AdSet : AdSyncStart(r, s))
    \/ AdFetch(r) \/ AdResolve(r) \/ AdUpsert(r) \/ AdMark(r)
    \/ (\E s \in AdSet, k \in Creative, t \in Running : AdCreateStart(r, s, k, t))
    \/ AdPost(r) \/ AdRead(r) \/ AdInsert(r)
    \/ (\E a \in Ad, s \in Running, k \in Creative \cup {None} : AdUpdateStart(r, a, s, k))
    \/ AdPatch(r) \/ AdReread(r) \/ AdStore(r)
    \/ (\E a \in Ad : AdDeleteStart(r, a)) \/ AdRemove(r) \/ AdMarkDeleted(r)

Creatives(r) ==
    \/ CreativeSyncStart(r) \/ CreativeFetch(r) \/ CreativeUpsert(r) \/ CreativeSyncEnd(r)
    \/ CreativeCreateStart(r) \/ CreativePost(r) \/ CreativeInsert(r)
    \/ (\E k \in Creative : CreativeDeleteStart(r, k)) \/ CreativeRemove(r) \/ CreativeDrop(r)

\* What metaflow does by itself.
Own == AccountReplaced \/ \E r \in Request : AdSets(r) \/ Ads(r) \/ Creatives(r) \/ SyncDone(r)

Elsewhere == \E o \in Object, s \in Status, k \in Creative \cup {None} : ElsewhereChange(o, s, k)

Next == Own \/ Elsewhere \/ \E r \in Request : Crash(r)

Spec == Init /\ [][Next]_vars

-----------------------------------------------------------------------------
(* Properties.                                                             *)

Shown(o) == IF remote[o] \in Running THEN local[o] = remote[o] ELSE local[o] \notin Running

\* When a sync of ad sets or of ads ends over rows that are still there, every
\* one of them that nobody else has touched since the listing was read shows
\* what Meta has, and a running ad refers to the creative that it uses there,
\* unless the library lacks it or has only just got it: what crashes and others
\* have left behind is made up for (AdSetsService.syncForCampaign,
\* AdsService.syncForAdSet, resolveCreativeId).
SyncIsExact ==
    [][\A r \in Request :
        req[r].pc \in {"adsets.write", "ads.resolve"} /\ At(r, "synced")' /\ ~req[r].lost
            => \A o \in req[r].scope \ touched[r] :
                  /\ Shown(o)'
                  /\ o \in Ad /\ local'[o] \in Running
                        => \/ ref'[o] = Resolve(uses[o])'
                           \/ ref'[o] = None /\ uses'[o] \in touched[r]]_vars

\* A running object of Meta is never shown as deleted.
DeletedIsGone ==
    \A o \in AdSet \cup Ad : local[o] = "DELETED" => remote[o] \notin Running

\* This step does not take the creative of a living ad away by deleting it here.
KeepsCreative ==
    \A a \in Ad :
        local[a] \in Running /\ local'[a] \in Running /\ ref[a] # None /\ ref'[a] = None
            => \A r \in Request : ~(At(r, "creative.drop") /\ At(r, "idle")')

\* Every row at rest shows what Meta has, a living ad its creative there or none, and every
\* creative of the library still exists at Meta.
SettledIsExact ==
    (\A r \in Request : At(r, "idle")) =>
        /\ \A o \in AdSet \cup Ad : local[o] # None => Shown(o)
        /\ \A a \in Ad : local[a] \in Running => ref[a] \in {None, uses[a]}
        /\ \A k \in Creative : local[k] # None => remote[k] \in Running
=============================================================================
