------------------------- MODULE AdHierarchyProofs --------------------------
(***************************************************************************)
(* Proofs about AdHierarchy and Insights for any objects, requests, days   *)
(* and figures.                                                            *)
(*                                                                         *)
(* Rows come and go under a handler in three ways: the account row is      *)
(* replaced, which the handler finds out when it writes (lost); a creative *)
(* is dropped, which the foreign key finds out; and others write what they *)
(* have read.  At Meta, what is known stays known, and what is deleted     *)
(* stays deleted.                                                          *)
(***************************************************************************)
EXTENDS MCAdHierarchy, FiniteSetTheorems, WellFoundedInduction, TLAPS

USE ParentAssumption, KindsAssumption, NoneAssumption

ReqState ==
    [pc : Pc, obj : Object \cup {None}, status : Status \cup {None},
     creative : Creative \cup {None}, keep : Creative \cup {None}, scope : SUBSET Object,
     todo : SUBSET Object, snap : [Object -> Status \cup {None}],
     asset : [Ad -> Creative \cup {None}], lost : BOOLEAN]

\* A row is about an object that Meta has had.
RowsKnown == \A o \in Object : local[o] # None => remote[o] # None

\* Where a handler is about one object, by its kind.
WithAdSet == {"adset.read", "adset.insert", "adset.patch", "adset.reread", "adset.store",
              "adset.delete", "adset.mark"}
NewAd == {"ad.read", "ad.insert"}
OldAd == {"ad.patch", "ad.reread", "ad.store", "ad.delete", "ad.mark"}
WithCreative == {"creative.insert", "creative.delete", "creative.drop"}

\* Where it is about to change Meta, and what it does afterwards.
Posting == {"adset.post", "adset.patch", "ad.post", "ad.patch", "creative.post"}
Posted == {"adset.read", "adset.reread", "ad.read", "ad.reread"}
Storing == {"adset.insert", "adset.store", "ad.insert", "ad.store", "creative.insert"}
Removed == {"adset.mark", "ad.mark", "creative.drop"}

\* What a handler is about.
KindOK(r) ==
    LET q == req[r] IN
    /\ q.pc \in WithAdSet => q.obj \in AdSet
    /\ q.pc \in NewAd \cup OldAd => q.obj \in Ad
    /\ q.pc = "ads.write" => q.obj \in q.todo
    /\ q.pc \in WithCreative => q.obj \in Creative
    /\ q.pc \in {"adsets.fetch", "adsets.write"} => q.scope \subseteq AdSet
    /\ q.pc \in {"ads.fetch", "ads.resolve", "ads.write", "ad.post"} => q.scope \subseteq Ad
    /\ q.pc \in {"creatives.fetch", "creatives.write"} => q.scope \subseteq Creative

\* Which rows it may count on, unless the account row was replaced.
ParentOK(r) ==
    LET q == req[r] IN
    ~q.lost =>
        /\ q.pc \in {"ads.fetch", "ads.resolve", "ads.write", "ad.post"} =>
               \A a \in q.scope : local[AdSetOf[a]] # None
        /\ q.pc \in NewAd => local[AdSetOf[q.obj]] # None
        /\ q.pc \in OldAd => local[q.obj] # None

\* What it knows of Meta.
KnownOK(r) ==
    LET q == req[r] IN
    /\ q.pc \in Posting => q.status \in Running
    /\ q.pc \in Posted \cup Storing => remote[q.obj] # None
    /\ q.pc \in Storing => /\ q.status # None
                           /\ q.status = "DELETED" => remote[q.obj] = "DELETED"
    /\ q.pc \in Removed => remote[q.obj] = "DELETED"

\* What it holds of a listing.
ListingOK(r) ==
    LET q == req[r] IN
    q.pc \in Syncing =>
        /\ q.todo \subseteq q.scope
        /\ \A o \in q.todo : q.snap[o] # None
        /\ \A o \in Object : q.snap[o] # None => q.snap[o] \in Running /\ remote[o] # None

FlightOK(r) == KindOK(r) /\ ParentOK(r) /\ KnownOK(r) /\ ListingOK(r)

\* k is what the creative of ad a resolves to, or would have been until the
\* creative came into the library after the listing was read.
Chosen(a, k, r) ==
    /\ k \in {None, uses[a]}
    /\ k = None => Resolve(uses[a]) = None \/ uses[a] \in touched[r]

\* A sync under way is right about every object nobody else has touched: its
\* snapshot is what Meta has, and so is what it has written already.
SyncOK(r) ==
    LET q == req[r] IN
    q.pc \in Syncing /\ ~q.lost =>
        \A o \in q.scope \ touched[r] :
            /\ q.snap[o] = IF remote[o] \in Running THEN remote[o] ELSE None
            /\ q.snap[o] # None /\ o \notin q.todo => local[o] = remote[o]
            /\ o \in Ad /\ q.snap[o] # None =>
                  /\ q.asset[o] = uses[o]
                  /\ o \notin q.todo => Chosen(o, ref[o], r)
                  /\ q.pc = "ads.write" /\ o = q.obj => Chosen(o, q.creative, r)

Inv ==
    /\ TypeOK
    /\ RowsKnown
    /\ \A r \in Request : FlightOK(r) /\ SyncOK(r)

-----------------------------------------------------------------------------
(* How steps change the state: what all of them leave to the others.       *)

Others(r) == \A p \in Request \ {r} : req'[p] = req[p]

\* What Meta knows it does not forget, and it undeletes nothing.
Grows ==
    \A o \in Object : /\ remote[o] # None => remote'[o] # None
                      /\ remote[o] = "DELETED" => remote'[o] = "DELETED"

\* Rows of ad sets and ads stay.
RowsStay == \A o \in AdSet \cup Ad : local[o] # None => local'[o] # None

\* A sync of somebody else's is told about what a step of r changes.
Told(r) ==
    \A p \in Request \ {r} : req[p].pc \in Syncing =>
        /\ touched[p] \subseteq touched'[p]
        /\ \A o \in Object \ touched'[p] :
              /\ remote'[o] = remote[o] /\ local'[o] = local[o]
              /\ o \in Ad => uses'[o] = uses[o] /\ ref'[o] = ref[o]

LEMMA Frame ==
    ASSUME Inv, NEW r \in Request \cup {None}, Others(r), TypeOK', RowsKnown',
           Grows, RowsStay, Told(r),
           r \in Request => FlightOK(r)' /\ SyncOK(r)'
    PROVE  Inv'
<1>1. ASSUME NEW p \in Request \ {r} PROVE FlightOK(p)'
  <2>1. FlightOK(p) /\ req'[p] = req[p] /\ req[p] \in ReqState
    BY DEF Inv, Others, TypeOK, ReqState
  <2>2. KindOK(p)'
    BY <2>1 DEF FlightOK, KindOK
  <2>3. ParentOK(p)'
    BY <2>1 DEF FlightOK, KindOK, ParentOK, RowsStay, NewAd, OldAd
  <2>4. KnownOK(p)'
    BY <2>1 DEF FlightOK, KindOK, KnownOK, Grows, Object, WithAdSet, NewAd, OldAd, WithCreative,
                Posted, Storing, Removed
  <2>5. ListingOK(p)'
    BY <2>1 DEF FlightOK, ListingOK, Grows
  <2>6. QED BY <2>2, <2>3, <2>4, <2>5 DEF FlightOK
<1>2. ASSUME NEW p \in Request \ {r} PROVE SyncOK(p)'
  <2>1. SyncOK(p) /\ req'[p] = req[p] /\ req[p] \in ReqState
    BY DEF Inv, Others, TypeOK, ReqState
  <2> SUFFICES ASSUME req[p].pc \in Syncing, ~req[p].lost, NEW o \in req[p].scope \ touched'[p]
               PROVE  LET q == req[p] IN
                      /\ q.snap[o] = IF remote'[o] \in Running THEN remote'[o] ELSE None
                      /\ q.snap[o] # None /\ o \notin q.todo => local'[o] = remote'[o]
                      /\ o \in Ad /\ q.snap[o] # None =>
                            /\ q.asset[o] = uses'[o]
                            /\ o \notin q.todo => Chosen(o, ref[o], p)'
                            /\ q.pc = "ads.write" /\ o = q.obj => Chosen(o, q.creative, p)'
    BY <2>1 DEF SyncOK
  <2>2. o \in Object /\ o \notin touched[p]
    BY <2>1 DEF Told, ReqState
  <2>3. /\ remote'[o] = remote[o] /\ local'[o] = local[o]
        /\ o \in Ad => uses'[o] = uses[o] /\ ref'[o] = ref[o]
    BY <2>2 DEF Told
  <2>4. ASSUME o \in Ad, NEW k, Chosen(o, k, p)
        PROVE  k \in {None, uses'[o]} /\ (k = None => Resolve(uses[o])' = None \/ uses'[o] \in touched'[p])
    <3>1. CASE uses[o] \in touched[p]
      BY <2>3, <2>4, <3>1 DEF Chosen, Told
    <3>2. CASE k # None
      BY <2>3, <2>4, <3>2 DEF Chosen
    <3>3. CASE k = None /\ Resolve(uses[o]) = None
      <4>1. CASE uses[o] = None
        BY <2>3, <2>4, <4>1, <3>3 DEF Resolve
      <4>2. CASE uses[o] # None
        <5>1. uses[o] \in Object
          BY <2>4, <4>2 DEF Inv, TypeOK, Object
        <5>2. local[uses[o]] = None
          BY <3>3, <4>2 DEF Resolve
        <5>3. uses[o] \in touched'[p] \/ local'[uses[o]] = None
          BY <5>1, <5>2 DEF Told
        <5>4. QED BY <2>3, <2>4, <3>3, <5>3 DEF Resolve
      <4>3. QED BY <4>1, <4>2
    <3>4. QED BY <2>4, <3>1, <3>2, <3>3 DEF Chosen
  <2>5. QED BY <2>1, <2>2, <2>3, <2>4 DEF SyncOK, Chosen
<1>3. QED BY <1>1, <1>2 DEF Inv

\* The record of one request is replaced.
LEMMA Moves ==
    ASSUME TypeOK, NEW r \in Request, NEW q \in ReqState, req' = [req EXCEPT ![r] = q]
    PROVE  req' \in [Request -> ReqState] /\ req'[r] = q /\ Others(r)
  BY DEF TypeOK, ReqState, Others

LEMMA ReqType == ASSUME TypeOK, NEW r \in Request PROVE req[r] \in ReqState
  BY DEF TypeOK, ReqState

LEMMA IdleType == Idle \in ReqState /\ Idle.pc = "idle"
<1>1. NoObject \in [Object -> Status \cup {None}] /\ NoCreative \in [Ad -> Creative \cup {None}]
  BY DEF NoObject, NoCreative
<1>2. QED BY <1>1 DEF Idle, ReqState, Pc

\* A request at rest relies on nothing.
LEMMA Resting == ASSUME NEW r, req[r].pc = "idle" PROVE FlightOK(r) /\ SyncOK(r)
  BY DEF FlightOK, KindOK, ParentOK, KnownOK, ListingOK, SyncOK, WithAdSet, NewAd, OldAd,
         WithCreative, Posting, Posted, Storing, Removed, Syncing

LEMMA FinishMoves ==
    ASSUME TypeOK, NEW r \in Request, Finish(r)
    PROVE  req' \in [Request -> ReqState] /\ req'[r].pc = "idle" /\ Others(r)
           /\ FlightOK(r)' /\ SyncOK(r)'
<1>1. req' \in [Request -> ReqState] /\ req'[r] = Idle /\ Others(r)
  BY IdleType, Moves DEF Finish
<1>2. req'[r].pc = "idle"
  BY <1>1, IdleType
<1>3. FlightOK(r)' /\ SyncOK(r)'
  BY <1>2 DEF FlightOK, KindOK, ParentOK, KnownOK, ListingOK, SyncOK, WithAdSet, NewAd, OldAd,
              WithCreative, Posting, Posted, Storing, Removed, Syncing
<1>4. QED BY <1>1, <1>2, <1>3

LEMMA GotoMoves ==
    ASSUME TypeOK, NEW r \in Request, NEW pc \in Pc, Goto(r, pc)
    PROVE  /\ req' \in [Request -> ReqState] /\ Others(r)
           /\ req'[r].pc = pc /\ req'[r].obj = req[r].obj /\ req'[r].status = req[r].status
           /\ req'[r].creative = req[r].creative /\ req'[r].keep = req[r].keep
           /\ req'[r].scope = req[r].scope /\ req'[r].todo = req[r].todo
           /\ req'[r].snap = req[r].snap /\ req'[r].asset = req[r].asset
           /\ req'[r].lost = req[r].lost
<1> DEFINE q == [req[r] EXCEPT !.pc = pc]
<1>1. /\ q \in ReqState /\ q.pc = pc /\ q.obj = req[r].obj /\ q.status = req[r].status
      /\ q.creative = req[r].creative /\ q.keep = req[r].keep /\ q.scope = req[r].scope
      /\ q.todo = req[r].todo /\ q.snap = req[r].snap /\ q.asset = req[r].asset
      /\ q.lost = req[r].lost
  BY ReqType DEF ReqState
<1>2. req' = [req EXCEPT ![r] = q]
  BY DEF Goto
<1> HIDE DEF q
<1>3. QED BY <1>1, <1>2, Moves

\* The types, and the foreign keys, of the rows.
Keys ==
    /\ local \in [Object -> Status \cup {None}] /\ ref \in [Ad -> Creative \cup {None}]
    /\ \A a \in Ad : local[a] # None => local[AdSetOf[a]] # None
    /\ \A a \in Ad : ref[a] # None => local[a] # None /\ local[ref[a]] # None

LEMMA Types ==
    TypeOK <=> /\ remote \in [Object -> Status \cup {None}]
               /\ uses \in [Ad -> Creative \cup {None}]
               /\ Keys
               /\ req \in [Request -> ReqState]
               /\ touched \in [Request -> SUBSET Object]
  BY DEF TypeOK, Keys, ReqState

\* Nothing but the record of r, and what r has been told, is changed.
LEMMA Quiet ==
    ASSUME Inv, NEW r \in Request, req' \in [Request -> ReqState], Others(r),
           UNCHANGED <<AtMeta, Rows>>, touched' \in [Request -> SUBSET Object],
           \A p \in Request \ {r} : touched'[p] = touched[p],
           FlightOK(r)', SyncOK(r)'
    PROVE  Inv'
<1>1. UNCHANGED <<remote, uses, local, ref>>
  BY DEF AtMeta, Rows
<1>2. TypeOK'
  <2>1. Keys'
    BY <1>1, Types DEF Inv, Keys
  <2>2. QED BY <1>1, <2>1, Types DEF Inv, TypeOK, ReqState, Keys
<1>3. RowsKnown' /\ Grows /\ RowsStay
  BY <1>1 DEF Inv, RowsKnown, Grows, RowsStay
<1>4. Told(r)
  BY <1>1 DEF Told
<1>5. QED BY <1>2, <1>3, <1>4, Frame

\* One object changes at Meta.
LEMMA RemoteStep ==
    ASSUME Inv, NEW r \in Request \cup {None}, req' \in [Request -> ReqState], Others(r),
           NEW o \in Object, NEW s \in Status, remote[o] = "DELETED" => s = "DELETED",
           remote' = [remote EXCEPT ![o] = s],
           uses' \in [Ad -> Creative \cup {None}],
           \A a \in Ad \ {o} : uses'[a] = uses[a],
           UNCHANGED Rows, Touch({o}, r),
           r \in Request => FlightOK(r)' /\ SyncOK(r)'
    PROVE  Inv'
<1>1. UNCHANGED <<local, ref>>
  BY DEF Rows
<1>2. touched' \in [Request -> SUBSET Object]
  BY DEF Inv, TypeOK, Touch
<1>3. remote' \in [Object -> Status \cup {None}]
      /\ \A x \in Object : remote'[x] = IF x = o THEN s ELSE remote[x]
  BY DEF Inv, TypeOK
<1>4. TypeOK'
  <2>1. Keys'
    BY <1>1, Types DEF Inv, Keys
  <2>2. QED BY <1>2, <1>3, <2>1 DEF TypeOK, ReqState, Keys
<1>5. RowsKnown' /\ Grows /\ RowsStay
  BY <1>1, <1>3 DEF Inv, RowsKnown, Grows, RowsStay, Status, Running
<1>6. Told(r)
  BY <1>1, <1>3 DEF Told, Touch, Inv, TypeOK
<1>7. QED BY <1>4, <1>5, <1>6, Frame

\* One row is written.
LEMMA LocalStep ==
    ASSUME Inv, NEW r \in Request, req' \in [Request -> ReqState], Others(r),
           NEW o \in Object, NEW s \in Status, NEW k \in Creative \cup {None},
           remote[o] # None, k # None => local[k] # None,
           o \in Ad => local[AdSetOf[o]] # None,
           local' = [local EXCEPT ![o] = s],
           ref' = IF o \in Ad THEN [ref EXCEPT ![o] = k] ELSE ref,
           UNCHANGED AtMeta, Touch({o}, r), FlightOK(r)', SyncOK(r)'
    PROVE  Inv'
<1>1. UNCHANGED <<remote, uses>>
  BY DEF AtMeta
<1>2. touched' \in [Request -> SUBSET Object]
  BY DEF Inv, TypeOK, Touch
<1>3. local' \in [Object -> Status \cup {None}]
      /\ \A x \in Object : local'[x] = IF x = o THEN s ELSE local[x]
  BY DEF Inv, TypeOK
<1>4. ref' \in [Ad -> Creative \cup {None}]
      /\ \A a \in Ad : ref'[a] = IF a = o THEN k ELSE ref[a]
  BY DEF Inv, TypeOK
<1>5. \A x \in Object : local[x] # None => local'[x] # None
  BY <1>3
<1>6. Keys'
  <2>1. \A a \in Ad : local'[a] # None => local'[AdSetOf[a]] # None
    BY <1>3, <1>5 DEF Inv, TypeOK, Object
  <2>2. \A a \in Ad : ref'[a] # None => local'[a] # None /\ local'[ref'[a]] # None
    BY <1>3, <1>4, <1>5 DEF Inv, TypeOK, Object
  <2>3. QED BY <1>3, <1>4, <2>1, <2>2 DEF Keys
<1>7. TypeOK'
  BY <1>1, <1>2, <1>6 DEF Inv, TypeOK, ReqState, Keys
<1>8. RowsKnown' /\ Grows /\ RowsStay
  BY <1>1, <1>3, <1>5 DEF Inv, RowsKnown, Grows, RowsStay, Object
<1>9. Told(r)
  BY <1>1, <1>3, <1>4 DEF Told, Touch, Inv, TypeOK
<1>10. QED BY <1>7, <1>8, <1>9, Frame

-----------------------------------------------------------------------------
(* What the steps of a handler make of its record.                         *)

\* What a handler starts with.
Opening(q) ==
    /\ ~q.lost
    /\ \/ q.pc = "adsets.fetch" /\ q.scope = AdSet
       \/ q.pc = "adset.post" /\ q.status \in Running
       \/ q.pc = "adset.patch" /\ q.obj \in AdSet /\ q.status \in Running
       \/ q.pc = "adset.delete" /\ q.obj \in AdSet
       \/ q.pc = "ads.fetch" /\ q.scope \subseteq Ad
                             /\ \A a \in q.scope : local[AdSetOf[a]] # None
       \/ q.pc = "ad.post" /\ q.scope \subseteq Ad /\ q.status \in Running
                           /\ \A a \in q.scope : local[AdSetOf[a]] # None
       \/ q.pc = "ad.patch" /\ q.obj \in Ad /\ local[q.obj] # None /\ q.status \in Running
                            /\ (q.creative # None => local[q.creative] # None)
                            /\ local[q.obj] \in Running /\ q.keep = ref[q.obj]
       \/ q.pc = "ad.delete" /\ q.obj \in Ad /\ local[q.obj] # None
       \/ q.pc = "creatives.fetch" /\ q.scope = Creative
       \/ q.pc = "creative.post" /\ q.status \in Running
       \/ q.pc = "creative.delete" /\ q.obj \in Creative /\ Users(q.obj) = {}

Opens(r) ==
    \E q \in ReqState : Start(r, q) /\ Opening(q) /\ UNCHANGED <<AtMeta, Rows, touched>>

LEMMA AdSetOpens ==
    ASSUME NEW r \in Request,
           \/ AdSetSyncStart(r)
           \/ \E s \in Running : AdSetCreateStart(r, s)
           \/ \E o \in AdSet, s \in Running : AdSetUpdateStart(r, o, s)
           \/ \E o \in AdSet : AdSetDeleteStart(r, o)
    PROVE  Opens(r)
<1>1. CASE AdSetSyncStart(r)
  <2> DEFINE q == [Idle EXCEPT !.pc = "adsets.fetch", !.scope = AdSet]
  <2>1. q \in ReqState /\ q.pc = "adsets.fetch" /\ q.scope = AdSet /\ ~q.lost
    BY IdleType DEF ReqState, Pc, Idle, Object
  <2>2. Start(r, q) /\ UNCHANGED <<AtMeta, Rows, touched>>
    BY <1>1 DEF AdSetSyncStart
  <2> HIDE DEF q
  <2>3. QED BY <2>1, <2>2 DEF Opens, Opening
<1>2. ASSUME NEW s \in Running, AdSetCreateStart(r, s) PROVE Opens(r)
  <2> DEFINE q == [Idle EXCEPT !.pc = "adset.post", !.status = s]
  <2>1. q \in ReqState /\ q.pc = "adset.post" /\ q.status = s /\ ~q.lost
    BY IdleType DEF ReqState, Pc, Idle, Status
  <2>2. Start(r, q) /\ UNCHANGED <<AtMeta, Rows, touched>>
    BY <1>2 DEF AdSetCreateStart
  <2> HIDE DEF q
  <2>3. QED BY <2>1, <2>2 DEF Opens, Opening
<1>3. ASSUME NEW o \in AdSet, NEW s \in Running, AdSetUpdateStart(r, o, s) PROVE Opens(r)
  <2> DEFINE q == [Idle EXCEPT !.pc = "adset.patch", !.obj = o, !.status = s]
  <2>1. q \in ReqState /\ q.pc = "adset.patch" /\ q.obj = o /\ q.status = s /\ ~q.lost
    BY IdleType DEF ReqState, Pc, Idle, Status, Object
  <2>2. Start(r, q) /\ UNCHANGED <<AtMeta, Rows, touched>>
    BY <1>3 DEF AdSetUpdateStart
  <2> HIDE DEF q
  <2>3. QED BY <2>1, <2>2 DEF Opens, Opening
<1>4. ASSUME NEW o \in AdSet, AdSetDeleteStart(r, o) PROVE Opens(r)
  <2> DEFINE q == [Idle EXCEPT !.pc = "adset.delete", !.obj = o]
  <2>1. q \in ReqState /\ q.pc = "adset.delete" /\ q.obj = o /\ ~q.lost
    BY IdleType DEF ReqState, Pc, Idle, Object
  <2>2. Start(r, q) /\ UNCHANGED <<AtMeta, Rows, touched>>
    BY <1>4 DEF AdSetDeleteStart
  <2> HIDE DEF q
  <2>3. QED BY <2>1, <2>2 DEF Opens, Opening
<1>5. QED BY <1>1, <1>2, <1>3, <1>4

LEMMA AdOpens ==
    ASSUME Inv, NEW r \in Request,
           \/ \E s \in AdSet : AdSyncStart(r, s)
           \/ \E s \in AdSet, k \in Creative, t \in Running : AdCreateStart(r, s, k, t)
           \/ \E a \in Ad, s \in Running, k \in Creative \cup {None} : AdUpdateStart(r, a, s, k)
           \/ \E a \in Ad : AdDeleteStart(r, a)
    PROVE  Opens(r)
<1>1. ASSUME NEW s \in AdSet, AdSyncStart(r, s) PROVE Opens(r)
  <2> DEFINE scope == {a \in Ad : AdSetOf[a] = s}
             q == [Idle EXCEPT !.pc = "ads.fetch", !.scope = scope]
  <2>1. scope \subseteq Ad /\ \A a \in scope : local[AdSetOf[a]] # None
    BY <1>1 DEF AdSyncStart
  <2>2. Start(r, q) /\ UNCHANGED <<AtMeta, Rows, touched>>
    BY <1>1 DEF AdSyncStart
  <2> HIDE DEF scope
  <2>3. q \in ReqState /\ q.pc = "ads.fetch" /\ q.scope = scope /\ ~q.lost
    BY <2>1, IdleType DEF ReqState, Pc, Idle, Object
  <2> HIDE DEF q
  <2>4. QED BY <2>1, <2>2, <2>3 DEF Opens, Opening
<1>2. ASSUME NEW s \in AdSet, NEW k \in Creative, NEW t \in Running, AdCreateStart(r, s, k, t)
      PROVE  Opens(r)
  <2> DEFINE scope == {a \in Ad : AdSetOf[a] = s}
             q == [Idle EXCEPT !.pc = "ad.post", !.status = t, !.creative = k, !.scope = scope]
  <2>1. scope \subseteq Ad /\ \A a \in scope : local[AdSetOf[a]] # None
    BY <1>2 DEF AdCreateStart
  <2>2. Start(r, q) /\ UNCHANGED <<AtMeta, Rows, touched>>
    BY <1>2 DEF AdCreateStart
  <2> HIDE DEF scope
  <2>3. q \in ReqState /\ q.pc = "ad.post" /\ q.scope = scope /\ q.status = t /\ ~q.lost
    BY <2>1, IdleType DEF ReqState, Pc, Idle, Object, Status
  <2> HIDE DEF q
  <2>4. QED BY <2>1, <2>2, <2>3 DEF Opens, Opening
<1>3. ASSUME NEW a \in Ad, NEW s \in Running, NEW k \in Creative \cup {None},
             AdUpdateStart(r, a, s, k)
      PROVE  Opens(r)
  <2> DEFINE q == [Idle EXCEPT !.pc = "ad.patch", !.obj = a, !.status = s,
                               !.creative = k, !.keep = ref[a]]
  <2>1. local[a] \in Running /\ (k # None => local[k] # None) /\ ref[a] \in Creative \cup {None}
    BY <1>3 DEF AdUpdateStart, Inv, TypeOK
  <2>2. Start(r, q) /\ UNCHANGED <<AtMeta, Rows, touched>>
    BY <1>3 DEF AdUpdateStart
  <2>3. q \in ReqState /\ q.pc = "ad.patch" /\ q.obj = a /\ q.status = s /\ q.creative = k
        /\ q.keep = ref[a] /\ ~q.lost
    BY <2>1, IdleType DEF ReqState, Pc, Idle, Object, Status
  <2> HIDE DEF q
  <2>4. QED BY <2>1, <2>2, <2>3 DEF Opens, Opening, Running, Status
<1>4. ASSUME NEW a \in Ad, AdDeleteStart(r, a) PROVE Opens(r)
  <2> DEFINE q == [Idle EXCEPT !.pc = "ad.delete", !.obj = a]
  <2>1. q \in ReqState /\ q.pc = "ad.delete" /\ q.obj = a /\ ~q.lost
    BY IdleType DEF ReqState, Pc, Idle, Object
  <2>2. Start(r, q) /\ UNCHANGED <<AtMeta, Rows, touched>> /\ local[a] # None
    BY <1>4 DEF AdDeleteStart, Running, Status
  <2> HIDE DEF q
  <2>3. QED BY <2>1, <2>2 DEF Opens, Opening
<1>5. QED BY <1>1, <1>2, <1>3, <1>4

LEMMA CreativeOpens ==
    ASSUME NEW r \in Request,
           \/ CreativeSyncStart(r)
           \/ CreativeCreateStart(r)
           \/ \E k \in Creative : CreativeDeleteStart(r, k)
    PROVE  Opens(r)
<1>1. CASE CreativeSyncStart(r)
  <2> DEFINE q == [Idle EXCEPT !.pc = "creatives.fetch", !.scope = Creative]
  <2>1. q \in ReqState /\ q.pc = "creatives.fetch" /\ q.scope = Creative /\ ~q.lost
    BY IdleType DEF ReqState, Pc, Idle, Object
  <2>2. Start(r, q) /\ UNCHANGED <<AtMeta, Rows, touched>>
    BY <1>1 DEF CreativeSyncStart
  <2> HIDE DEF q
  <2>3. QED BY <2>1, <2>2 DEF Opens, Opening
<1>2. CASE CreativeCreateStart(r)
  <2> DEFINE q == [Idle EXCEPT !.pc = "creative.post", !.status = "ACTIVE"]
  <2>1. q \in ReqState /\ q.pc = "creative.post" /\ q.status \in Running /\ ~q.lost
    BY IdleType DEF ReqState, Pc, Idle, Status, Running
  <2>2. Start(r, q) /\ UNCHANGED <<AtMeta, Rows, touched>>
    BY <1>2 DEF CreativeCreateStart
  <2> HIDE DEF q
  <2>3. QED BY <2>1, <2>2 DEF Opens, Opening
<1>3. ASSUME NEW k \in Creative, CreativeDeleteStart(r, k) PROVE Opens(r)
  <2> DEFINE q == [Idle EXCEPT !.pc = "creative.delete", !.obj = k]
  <2>1. q \in ReqState /\ q.pc = "creative.delete" /\ q.obj = k /\ ~q.lost
    BY IdleType DEF ReqState, Pc, Idle, Object
  <2>2. Start(r, q) /\ UNCHANGED <<AtMeta, Rows, touched>> /\ Users(k) = {}
    BY <1>3 DEF CreativeDeleteStart
  <2> HIDE DEF q
  <2>3. QED BY <2>1, <2>2 DEF Opens, Opening
<1>4. QED BY <1>1, <1>2, <1>3

LEMMA ReadListingMoves ==
    ASSUME TypeOK, NEW r \in Request, NEW pc, NEW next \in Pc, ReadListing(r, pc, next)
    PROVE  /\ req' \in [Request -> ReqState] /\ Others(r)
           /\ req'[r].pc = next /\ req'[r].todo = Listed(req[r].scope)
           /\ req'[r].scope = req[r].scope /\ req'[r].lost = req[r].lost
           /\ \A o \in Object : req'[r].snap[o] =
                  IF o \in Listed(req[r].scope) THEN remote[o] ELSE None
           /\ \A a \in Ad : req'[r].asset[a] =
                  IF a \in Listed(req[r].scope) THEN uses[a] ELSE None
<1> DEFINE listed == Listed(req[r].scope)
           seen == [o \in Object |-> IF o \in listed THEN remote[o] ELSE None]
           asset == [a \in Ad |-> IF a \in listed THEN uses[a] ELSE None]
           q == [req[r] EXCEPT !.pc = next, !.todo = listed, !.snap = seen, !.asset = asset]
<1>1. req' = [req EXCEPT ![r] = q]
  BY DEF ReadListing
<1>2. listed \subseteq Object
  BY ReqType DEF ReqState, Listed
<1> HIDE DEF listed
<1>3. seen \in [Object -> Status \cup {None}]
      /\ \A o \in Object : seen[o] = IF o \in listed THEN remote[o] ELSE None
  BY DEF TypeOK
<1>4. asset \in [Ad -> Creative \cup {None}]
      /\ \A a \in Ad : asset[a] = IF a \in listed THEN uses[a] ELSE None
  BY DEF TypeOK
<1> HIDE DEF seen, asset
<1>5. q \in ReqState /\ q.pc = next /\ q.todo = listed /\ q.scope = req[r].scope
      /\ q.lost = req[r].lost /\ q.snap = seen /\ q.asset = asset
  <2>1. req[r] \in ReqState /\ listed \in SUBSET Object
    BY <1>2, ReqType
  <2>2. seen \in [Object -> Status \cup {None}] /\ asset \in [Ad -> Creative \cup {None}]
    BY <1>3, <1>4
  <2>3. QED BY <2>1, <2>2 DEF ReqState
<1> HIDE DEF q
<1>6. req' \in [Request -> ReqState] /\ req'[r] = q /\ Others(r)
  BY <1>1, <1>5, Moves
<1>7. QED BY <1>3, <1>4, <1>5, <1>6 DEF listed

\* A new object, or the answer about one.
NowAbout(r, next, o) == req' = [req EXCEPT ![r].pc = next, ![r].obj = o]

LEMMA ObjMoves ==
    ASSUME TypeOK, NEW r \in Request, NEW next \in Pc, NEW o \in Object,
           NowAbout(r, next, o)
    PROVE  /\ req' \in [Request -> ReqState] /\ Others(r)
           /\ req'[r].pc = next /\ req'[r].obj = o /\ req'[r].status = req[r].status
           /\ req'[r].creative = req[r].creative /\ req'[r].keep = req[r].keep
           /\ req'[r].scope = req[r].scope /\ req'[r].lost = req[r].lost
<1> DEFINE q == [req[r] EXCEPT !.pc = next, !.obj = o]
<1>1. /\ q \in ReqState /\ q.pc = next /\ q.obj = o /\ q.status = req[r].status
      /\ q.creative = req[r].creative /\ q.keep = req[r].keep
      /\ q.scope = req[r].scope /\ q.lost = req[r].lost
  <2>1. req[r] \in ReqState
    BY ReqType
  <2>2. q \in ReqState
    BY <2>1 DEF ReqState
  <2>3. q.pc = next /\ q.obj = o /\ q.status = req[r].status /\ q.creative = req[r].creative
    BY <2>1 DEF ReqState
  <2>4. q.keep = req[r].keep /\ q.scope = req[r].scope /\ q.lost = req[r].lost
    BY <2>1 DEF ReqState
  <2>5. QED BY <2>2, <2>3, <2>4
<1>2. req' = [req EXCEPT ![r] = q]
  BY DEF NowAbout
<1> HIDE DEF q
<1>3. QED BY <1>1, <1>2, Moves

NowKnows(r, next, s) == req' = [req EXCEPT ![r].pc = next, ![r].status = s]

LEMMA StatusMoves ==
    ASSUME TypeOK, NEW r \in Request, NEW next \in Pc, NEW s \in Status \cup {None},
           NowKnows(r, next, s)
    PROVE  /\ req' \in [Request -> ReqState] /\ Others(r)
           /\ req'[r].pc = next /\ req'[r].obj = req[r].obj /\ req'[r].status = s
           /\ req'[r].creative = req[r].creative /\ req'[r].keep = req[r].keep
           /\ req'[r].scope = req[r].scope /\ req'[r].lost = req[r].lost
<1> DEFINE q == [req[r] EXCEPT !.pc = next, !.status = s]
<1>1. /\ q \in ReqState /\ q.pc = next /\ q.obj = req[r].obj /\ q.status = s
      /\ q.creative = req[r].creative /\ q.keep = req[r].keep
      /\ q.scope = req[r].scope /\ q.lost = req[r].lost
  <2>1. req[r] \in ReqState
    BY ReqType
  <2>2. q \in ReqState
    BY <2>1 DEF ReqState
  <2>3. q.pc = next /\ q.obj = req[r].obj /\ q.status = s /\ q.creative = req[r].creative
    BY <2>1 DEF ReqState
  <2>4. q.keep = req[r].keep /\ q.scope = req[r].scope /\ q.lost = req[r].lost
    BY <2>1 DEF ReqState
  <2>5. QED BY <2>2, <2>3, <2>4
<1>2. req' = [req EXCEPT ![r] = q]
  BY DEF NowKnows
<1> HIDE DEF q
<1>3. QED BY <1>1, <1>2, Moves

\* The loop of a sync goes on to its next object, or with what it looked up.
NowWithout(r, next, o) ==
    req' = [req EXCEPT ![r].pc = next, ![r].todo = @ \ {o}, ![r].obj = None, ![r].creative = None]

LEMMA LoopMoves ==
    ASSUME TypeOK, NEW r \in Request, NEW next \in Pc, NEW o, NowWithout(r, next, o)
    PROVE  /\ req' \in [Request -> ReqState] /\ Others(r)
           /\ req'[r].pc = next /\ req'[r].todo = req[r].todo \ {o}
           /\ req'[r].obj = None /\ req'[r].creative = None
           /\ req'[r].scope = req[r].scope /\ req'[r].lost = req[r].lost
           /\ req'[r].snap = req[r].snap /\ req'[r].asset = req[r].asset
<1> DEFINE q == [req[r] EXCEPT !.pc = next, !.todo = req[r].todo \ {o},
                               !.obj = None, !.creative = None]
<1>1. /\ q \in ReqState /\ q.pc = next /\ q.todo = req[r].todo \ {o}
      /\ q.obj = None /\ q.creative = None /\ q.scope = req[r].scope /\ q.lost = req[r].lost
      /\ q.snap = req[r].snap /\ q.asset = req[r].asset
  <2>1. req[r] \in ReqState
    BY ReqType
  <2>2. q \in ReqState
    BY <2>1 DEF ReqState
  <2>3. q.pc = next /\ q.todo = req[r].todo \ {o} /\ q.obj = None /\ q.creative = None
    BY <2>1 DEF ReqState
  <2>4. /\ q.scope = req[r].scope /\ q.lost = req[r].lost
        /\ q.snap = req[r].snap /\ q.asset = req[r].asset
    BY <2>1 DEF ReqState
  <2>5. QED BY <2>2, <2>3, <2>4
<1>2. req' = [req EXCEPT ![r] = q]
  BY DEF NowWithout
<1> HIDE DEF q
<1>3. QED BY <1>1, <1>2, Moves

NowWrites(r, a, k) == req' = [req EXCEPT ![r].pc = "ads.write", ![r].obj = a, ![r].creative = k]

LEMMA ResolveMoves ==
    ASSUME TypeOK, NEW r \in Request, NEW a \in Object, NEW k \in Creative \cup {None},
           NowWrites(r, a, k)
    PROVE  /\ req' \in [Request -> ReqState] /\ Others(r)
           /\ req'[r].pc = "ads.write" /\ req'[r].todo = req[r].todo
           /\ req'[r].obj = a /\ req'[r].creative = k
           /\ req'[r].scope = req[r].scope /\ req'[r].lost = req[r].lost
           /\ req'[r].snap = req[r].snap /\ req'[r].asset = req[r].asset
<1> DEFINE q == [req[r] EXCEPT !.pc = "ads.write", !.obj = a, !.creative = k]
<1>1. "ads.write" \in Pc
  BY DEF Pc
<1>2. /\ q \in ReqState /\ q.pc = "ads.write" /\ q.todo = req[r].todo
      /\ q.obj = a /\ q.creative = k /\ q.scope = req[r].scope /\ q.lost = req[r].lost
      /\ q.snap = req[r].snap /\ q.asset = req[r].asset
  <2>1. req[r] \in ReqState
    BY ReqType
  <2>2. q \in ReqState
    BY <1>1, <2>1 DEF ReqState
  <2>3. q.pc = "ads.write" /\ q.todo = req[r].todo /\ q.obj = a /\ q.creative = k
    BY <2>1 DEF ReqState
  <2>4. /\ q.scope = req[r].scope /\ q.lost = req[r].lost
        /\ q.snap = req[r].snap /\ q.asset = req[r].asset
    BY <2>1 DEF ReqState
  <2>5. QED BY <2>2, <2>3, <2>4
<1>3. req' = [req EXCEPT ![r] = q]
  BY DEF NowWrites
<1> HIDE DEF q
<1>4. QED BY <1>2, <1>3, Moves

-----------------------------------------------------------------------------
(* Every step preserves the invariant.                                     *)

USE DEF WithAdSet, NewAd, OldAd, WithCreative, Posting, Posted, Storing, Removed, Syncing

LEMMA OpensInv == ASSUME Inv, NEW r \in Request, Opens(r) PROVE Inv'
<1> PICK q \in ReqState : Start(r, q) /\ Opening(q) /\ UNCHANGED <<AtMeta, Rows, touched>>
  BY DEF Opens
<1>1. req' \in [Request -> ReqState] /\ req'[r] = q /\ Others(r)
  BY Moves DEF Start, Inv
<1>2. UNCHANGED <<remote, uses, local, ref, touched>>
  BY DEF AtMeta, Rows
<1>3. q.pc \notin Syncing
  BY DEF Opening
<1>4. KindOK(r)' /\ ListingOK(r)' /\ SyncOK(r)'
  BY <1>1, <1>3 DEF Opening, KindOK, ListingOK, SyncOK
<1>5. ParentOK(r)'
  BY <1>1, <1>2 DEF Opening, ParentOK
<1>6. KnownOK(r)'
  BY <1>1, <1>2 DEF Opening, KnownOK
<1>7. QED BY <1>1, <1>2, <1>4, <1>5, <1>6, Quiet DEF FlightOK, Inv, TypeOK

\* A request ends and has changed nothing in this step.
LEMMA EndsInv ==
    ASSUME Inv, NEW r \in Request, Finish(r), UNCHANGED <<AtMeta, Rows>>,
           touched' \in [Request -> SUBSET Object],
           \A p \in Request \ {r} : touched'[p] = touched[p]
    PROVE  Inv'
  BY FinishMoves, Quiet DEF Inv

LEMMA ReadListingInv ==
    ASSUME Inv, NEW r \in Request, NEW pc, NEW next,
           \/ pc = "adsets.fetch" /\ next = "adsets.write"
           \/ pc = "ads.fetch" /\ next = "ads.resolve"
           \/ pc = "creatives.fetch" /\ next = "creatives.write",
           ReadListing(r, pc, next)
    PROVE  Inv'
<1>1. next \in Pc /\ req[r].pc = pc /\ TypeOK /\ FlightOK(r) /\ req[r] \in ReqState
  BY ReqType DEF Pc, ReadListing, At, Inv
<1>2. /\ req' \in [Request -> ReqState] /\ Others(r)
      /\ req'[r].pc = next /\ req'[r].todo = Listed(req[r].scope)
      /\ req'[r].scope = req[r].scope /\ req'[r].lost = req[r].lost
      /\ \A o \in Object : req'[r].snap[o] =
             IF o \in Listed(req[r].scope) THEN remote[o] ELSE None
      /\ \A a \in Ad : req'[r].asset[a] =
             IF a \in Listed(req[r].scope) THEN uses[a] ELSE None
  BY <1>1, ReadListingMoves
<1>3. UNCHANGED <<remote, uses, local, ref>> /\ touched' = [touched EXCEPT ![r] = {}]
  BY DEF ReadListing, AtMeta, Rows
<1>4. touched' \in [Request -> SUBSET Object] /\ touched'[r] = {}
      /\ \A p \in Request \ {r} : touched'[p] = touched[p]
  BY <1>3 DEF Inv, TypeOK
<1>5. KindOK(r)'
  BY <1>1, <1>2 DEF FlightOK, KindOK
<1>6. ParentOK(r)'
  BY <1>1, <1>2, <1>3 DEF FlightOK, ParentOK
<1>7. KnownOK(r)'
  BY <1>2 DEF KnownOK
<1>8. ListingOK(r)'
  BY <1>1, <1>2, <1>3 DEF ListingOK, Listed, Running, Status, ReqState
<1>9. SyncOK(r)'
  <2> SUFFICES ASSUME NEW o \in req[r].scope
               PROVE  LET q == req'[r] IN
                      /\ q.snap[o] = IF remote[o] \in Running THEN remote[o] ELSE None
                      /\ q.snap[o] # None => o \in q.todo
                      /\ o \in Ad /\ q.snap[o] # None => q.asset[o] = uses[o]
                      /\ q.pc # "ads.write"
    BY <1>2, <1>3 DEF SyncOK
  <2>1. o \in Object
    BY <1>1 DEF ReqState
  <2>2. QED BY <1>2, <2>1 DEF Listed
<1>10. QED BY <1>2, <1>3, <1>4, <1>5, <1>6, <1>7, <1>8, <1>9, Quiet DEF FlightOK, AtMeta, Rows

LEMMA AdResolveInv == ASSUME Inv, NEW r \in Request, AdResolve(r) PROVE Inv'
<1>1. PICK a \in req[r].todo :
        req' = [req EXCEPT ![r].pc = "ads.write", ![r].obj = a,
                           ![r].creative = Resolve(req[r].asset[a])]
  BY DEF AdResolve
<1>2. TypeOK /\ FlightOK(r) /\ SyncOK(r) /\ req[r] \in ReqState /\ req[r].pc = "ads.resolve"
  BY ReqType DEF Inv, AdResolve, At
<1>3. a \in Ad /\ a \in req[r].scope /\ a \in Object /\ req[r].snap[a] # None
  BY <1>1, <1>2 DEF FlightOK, ListingOK, KindOK, Object
<1> DEFINE k == Resolve(req[r].asset[a])
<1>4. k \in Creative \cup {None} /\ NowWrites(r, a, k)
  BY <1>1, <1>2, <1>3 DEF Resolve, ReqState, NowWrites
<1> HIDE DEF k
<1>5. /\ req' \in [Request -> ReqState] /\ Others(r)
      /\ req'[r].pc = "ads.write" /\ req'[r].todo = req[r].todo
      /\ req'[r].obj = a /\ req'[r].creative = k
      /\ req'[r].scope = req[r].scope /\ req'[r].lost = req[r].lost
      /\ req'[r].snap = req[r].snap /\ req'[r].asset = req[r].asset
  BY <1>2, <1>3, <1>4, ResolveMoves
<1>6. UNCHANGED <<remote, uses, local, ref, touched>>
  BY DEF AdResolve, AtMeta, Rows
<1>7. KindOK(r)' /\ ParentOK(r)' /\ KnownOK(r)' /\ ListingOK(r)'
  BY <1>1, <1>2, <1>5, <1>6 DEF FlightOK, KindOK, ParentOK, KnownOK, ListingOK
<1>8. SyncOK(r)'
  <2> SUFFICES ASSUME ~req[r].lost, NEW o \in req[r].scope \ touched[r]
               PROVE  LET q == req[r] IN
                      /\ q.snap[o] = IF remote[o] \in Running THEN remote[o] ELSE None
                      /\ q.snap[o] # None /\ o \notin q.todo => local[o] = remote[o]
                      /\ o \in Ad /\ q.snap[o] # None =>
                            /\ q.asset[o] = uses[o]
                            /\ o \notin q.todo => Chosen(o, ref[o], r)
                            /\ o = a => Chosen(o, Resolve(req[r].asset[a]), r)
    BY <1>5, <1>6 DEF SyncOK, Chosen, Resolve, k
  <2>1. QED BY <1>2, <1>3 DEF SyncOK, Chosen, Resolve
<1>9. QED BY <1>5, <1>6, <1>7, <1>8, Quiet DEF FlightOK, AtMeta, Rows, Inv, TypeOK

LEMMA UpsertInv ==
    ASSUME Inv, NEW r \in Request, NEW o \in req[r].todo, NEW k, NEW pc, NEW next,
           req[r].pc = pc,
           \/ pc \in {"adsets.write", "creatives.write"} /\ next = pc /\ k = None
           \/ pc = "ads.write" /\ next = "ads.resolve" /\ o = req[r].obj /\ k = req[r].creative,
           Upsert(r, o, k, next)
    PROVE  Inv'
<1>1. CASE req[r].lost \/ (k # None /\ local[k] = None)
  BY <1>1, EndsInv DEF Upsert, Rows, AtMeta, Inv, TypeOK
<1>2. CASE ~(req[r].lost \/ (k # None /\ local[k] = None))
  <2>1. /\ local' = [local EXCEPT ![o] = req[r].snap[o]]
        /\ ref' = IF o \in Ad THEN [ref EXCEPT ![o] = k] ELSE ref
        /\ NowWithout(r, next, o)
        /\ Touch({o}, r)
        /\ UNCHANGED <<remote, uses>>
    BY <1>2 DEF Upsert, AtMeta, NowWithout
  <2>2. TypeOK /\ FlightOK(r) /\ SyncOK(r) /\ req[r] \in ReqState /\ next \in Pc /\ pc \in Syncing
    BY ReqType DEF Inv, Pc
  <2>3. /\ req' \in [Request -> ReqState] /\ Others(r)
        /\ req'[r].pc = next /\ req'[r].todo = req[r].todo \ {o}
        /\ req'[r].obj = None /\ req'[r].creative = None
        /\ req'[r].scope = req[r].scope /\ req'[r].lost = req[r].lost
        /\ req'[r].snap = req[r].snap /\ req'[r].asset = req[r].asset
    BY <2>1, <2>2, LoopMoves
  <2>4. /\ o \in req[r].scope /\ o \in Object
        /\ req[r].snap[o] \in Running /\ remote[o] # None
    BY <2>2 DEF FlightOK, ListingOK, ReqState
  <2>5. k \in Creative \cup {None}
    BY <2>2 DEF ReqState
  <2>6. o \in Ad => pc = "ads.write" /\ local[AdSetOf[o]] # None
    BY <1>2, <2>2, <2>4 DEF FlightOK, KindOK, ParentOK
  <2>7. \A x \in Object : local'[x] = IF x = o THEN req[r].snap[o] ELSE local[x]
    BY <2>1 DEF Inv, TypeOK
  <2>8. \A a \in Ad : ref'[a] = IF a = o THEN k ELSE ref[a]
    BY <2>1 DEF Inv, TypeOK
  <2>9. KindOK(r)' /\ ListingOK(r)' /\ KnownOK(r)'
    BY <2>1, <2>2, <2>3 DEF FlightOK, KindOK, ListingOK, KnownOK
  <2>10. ParentOK(r)'
    <3>1. \A x \in Object : local[x] # None => local'[x] # None
      BY <2>4, <2>7 DEF Running, Status, Object
    <3>2. QED BY <2>2, <2>3, <3>1 DEF FlightOK, KindOK, ParentOK, Object
  <2>11. SyncOK(r)'
    <3>1. touched'[r] = touched[r]
      BY <2>1 DEF Touch
    <3> SUFFICES ASSUME NEW x \in req[r].scope \ touched[r]
                 PROVE  LET q == req[r] IN
                        /\ q.snap[x] = IF remote[x] \in Running THEN remote[x] ELSE None
                        /\ q.snap[x] # None /\ x \notin q.todo \ {o} => local'[x] = remote[x]
                        /\ x \in Ad /\ q.snap[x] # None =>
                              /\ q.asset[x] = uses[x]
                              /\ x \notin q.todo \ {o} => Chosen(x, ref[x], r)'
      BY <2>1, <2>2, <2>3, <3>1 DEF SyncOK
    <3>2. x \in Object
      BY <2>2 DEF ReqState
    <3>3. /\ req[r].snap[x] = IF remote[x] \in Running THEN remote[x] ELSE None
          /\ req[r].snap[x] # None /\ x \notin req[r].todo => local[x] = remote[x]
          /\ x \in Ad /\ req[r].snap[x] # None => req[r].asset[x] = uses[x]
      BY <1>2, <2>2 DEF SyncOK
    <3>4. req[r].snap[x] # None /\ x \notin req[r].todo \ {o} => local'[x] = remote[x]
      BY <2>7, <3>2, <3>3
    <3>5. ASSUME x \in Ad, req[r].snap[x] # None, x \notin req[r].todo \ {o}
          PROVE  Chosen(x, ref[x], r)'
      <4>1. Chosen(x, ref'[x], r)
        <5>1. CASE x = o
          BY <1>2, <2>2, <2>6, <2>8, <3>5, <5>1 DEF SyncOK
        <5>2. CASE x # o
          BY <1>2, <2>2, <2>8, <3>5, <5>2 DEF SyncOK
        <5>3. QED BY <5>1, <5>2
      <4>2. Resolve(uses[x])' = Resolve(uses[x])
        <5>1. uses[x] \in Creative \cup {None} /\ o \notin Creative
          BY <2>2, <2>4, <3>5 DEF TypeOK, FlightOK, KindOK
        <5>2. QED BY <2>1, <2>7, <5>1 DEF Resolve, Object
      <4>3. QED BY <2>1, <3>1, <4>1, <4>2 DEF Chosen
    <3>6. QED BY <3>3, <3>4, <3>5
  <2>12. QED BY <2>1, <2>3, <2>4, <2>5, <2>6, <1>2, <2>9, <2>10, <2>11, LocalStep
                DEF FlightOK, Status, AtMeta
<1>3. QED BY <1>1, <1>2

LEMMA MarkMissingInv ==
    ASSUME Inv, NEW r \in Request, NEW pc \in {"adsets.write", "ads.resolve"},
           MarkMissing(r, pc)
    PROVE  Inv'
<1> DEFINE missing == {o \in req[r].scope : /\ ~req[r].lost /\ req[r].snap[o] = None
                                            /\ local[o] \in Running}
<1>1. /\ local' = [o \in Object |-> IF o \in missing THEN "DELETED" ELSE local[o]]
      /\ Goto(r, "synced") /\ Touch(missing, r)
      /\ UNCHANGED <<remote, uses, ref>>
  BY DEF MarkMissing, AtMeta
<1>2. \A o \in missing : local[o] # None
  BY DEF Running, Status, Object
<1> HIDE DEF missing
<1>3. /\ \A o \in Object : local'[o] = IF o \in missing THEN "DELETED" ELSE local[o]
      /\ \A o \in Object : local[o] # None <=> local'[o] # None
  BY <1>1, <1>2 DEF Status
<1>4. Keys'
  <2>1. Keys
    BY Types DEF Inv
  <2>2. UNCHANGED ref
    BY <1>1
  <2>3. \A a \in Ad : /\ a \in Object /\ AdSetOf[a] \in Object
                      /\ ref[a] # None => ref[a] \in Object
    BY <2>1, ParentAssumption DEF Keys, Object
  <2>4. local' \in [Object -> Status \cup {None}]
    BY <1>1, <2>1 DEF Keys, Status
  <2>5. \A a \in Ad : local'[a] # None => local'[AdSetOf[a]] # None
    BY <1>3, <2>1, <2>3, Zenon DEF Keys
  <2>6. \A a \in Ad : ref'[a] # None => local'[a] # None /\ local'[ref'[a]] # None
    BY <1>3, <2>1, <2>2, <2>3 DEF Keys
  <2>7. QED BY <2>1, <2>2, <2>4, <2>5, <2>6 DEF Keys
<1>5. req' \in [Request -> ReqState] /\ Others(r) /\ req'[r].pc = "synced"
  BY <1>1, GotoMoves DEF Inv, Pc
<1>6. touched' \in [Request -> SUBSET Object]
  <2>1. missing \subseteq Object
    BY ReqType DEF missing, Inv, ReqState
  <2>2. QED BY <1>1, <2>1 DEF Inv, TypeOK, Touch
<1>7. TypeOK'
  BY <1>1, <1>4, <1>5, <1>6 DEF Inv, TypeOK, ReqState, Keys
<1>8. RowsKnown' /\ Grows /\ RowsStay
  BY <1>1, <1>3 DEF Inv, RowsKnown, Grows, RowsStay, Object
<1>9. Told(r)
  BY <1>1, <1>3 DEF Told, Touch, Inv, TypeOK
<1>10. FlightOK(r)' /\ SyncOK(r)'
  BY <1>5 DEF FlightOK, KindOK, ParentOK, KnownOK, ListingOK, SyncOK
<1>11. QED BY <1>5, <1>7, <1>8, <1>9, <1>10, Frame

LEMMA CreativeSyncEndInv == ASSUME Inv, NEW r \in Request, CreativeSyncEnd(r) PROVE Inv'
<1>1. req' \in [Request -> ReqState] /\ Others(r) /\ req'[r].pc = "synced"
  BY GotoMoves DEF CreativeSyncEnd, Inv, Pc
<1>2. FlightOK(r)' /\ SyncOK(r)'
  BY <1>1 DEF FlightOK, KindOK, ParentOK, KnownOK, ListingOK, SyncOK
<1>3. QED BY <1>1, <1>2, Quiet DEF CreativeSyncEnd, Inv, TypeOK

LEMMA PostNewInv ==
    ASSUME Inv, NEW r \in Request, NEW pc, NEW next, NEW S,
           \/ pc = "adset.post" /\ next = "adset.read" /\ S = AdSet
           \/ pc = "ad.post" /\ next = "ad.read" /\ S = req[r].scope
           \/ pc = "creative.post" /\ next = "creative.insert" /\ S = Creative,
           PostNew(r, pc, next, S)
    PROVE  Inv'
<1>1. PICK o \in S : /\ remote[o] = None
                     /\ remote' = [remote EXCEPT ![o] = req[r].status]
                     /\ uses' = IF o \in Ad THEN [uses EXCEPT ![o] = req[r].creative] ELSE uses
                     /\ req' = [req EXCEPT ![r].pc = next, ![r].obj = o]
                     /\ Touch({o}, r)
  BY DEF PostNew
<1>2. TypeOK /\ FlightOK(r) /\ req[r] \in ReqState /\ next \in Pc /\ req[r].pc = pc
      /\ UNCHANGED <<local, ref>>
  BY ReqType DEF Inv, Pc, PostNew, At, Rows
<1>3. o \in Object /\ (pc = "ad.post" => o \in Ad)
      /\ (pc = "adset.post" => o \in AdSet) /\ (pc = "creative.post" => o \in Creative)
  BY <1>2 DEF FlightOK, KindOK, Object
<1>4. /\ req' \in [Request -> ReqState] /\ Others(r)
      /\ req'[r].pc = next /\ req'[r].obj = o /\ req'[r].status = req[r].status
      /\ req'[r].creative = req[r].creative /\ req'[r].keep = req[r].keep
      /\ req'[r].scope = req[r].scope /\ req'[r].lost = req[r].lost
  <2>1. NowAbout(r, next, o)
    BY <1>1 DEF NowAbout
  <2>2. QED BY <1>2, <1>3, <2>1, ObjMoves
<1>5. req[r].status \in Running /\ req[r].status \in Status
  BY <1>2 DEF FlightOK, KnownOK, Status
<1>6. remote'[o] = req[r].status
  BY <1>1, <1>2, <1>3 DEF TypeOK
<1>7. uses' \in [Ad -> Creative \cup {None}] /\ \A a \in Ad \ {o} : uses'[a] = uses[a]
  BY <1>1, <1>2 DEF TypeOK, ReqState
<1>8. KindOK(r)' /\ ListingOK(r)' /\ SyncOK(r)'
  BY <1>3, <1>4 DEF KindOK, ListingOK, SyncOK
<1>9. ParentOK(r)'
  BY <1>1, <1>2, <1>3, <1>4 DEF FlightOK, ParentOK
<1>10. KnownOK(r)'
  BY <1>4, <1>5, <1>6 DEF KnownOK, Running
<1>11. QED BY <1>1, <1>2, <1>3, <1>4, <1>5, <1>7, <1>8, <1>9, <1>10, RemoteStep DEF FlightOK, Rows, Status, Object, Running

LEMMA PostChangeInv ==
    ASSUME Inv, NEW r \in Request, NEW pc, NEW next,
           \/ pc = "adset.patch" /\ next = "adset.reread"
           \/ pc = "ad.patch" /\ next = "ad.reread",
           PostChange(r, pc, next)
    PROVE  Inv'
<1> DEFINE o == req[r].obj
<1>1. TypeOK /\ FlightOK(r) /\ req[r] \in ReqState /\ next \in Pc /\ req[r].pc = pc
      /\ UNCHANGED <<local, ref>>
  BY ReqType DEF Inv, Pc, PostChange, At, Rows
<1>2. CASE remote[o] \notin Running
  BY <1>1, <1>2, EndsInv DEF PostChange, AtMeta, Rows, Inv, TypeOK
<1>3. CASE remote[o] \in Running
  <2>1. /\ remote' = [remote EXCEPT ![o] = req[r].status]
        /\ uses' = IF req[r].creative # None THEN [uses EXCEPT ![o] = req[r].creative] ELSE uses
        /\ Goto(r, next) /\ Touch({o}, r)
    BY <1>3 DEF PostChange
  <2>2. /\ req' \in [Request -> ReqState] /\ Others(r)
        /\ req'[r].pc = next /\ req'[r].obj = o /\ req'[r].lost = req[r].lost
    BY <1>1, <2>1, GotoMoves
  <2>3. o \in Object /\ (pc = "ad.patch" => o \in Ad) /\ (pc = "adset.patch" => o \in AdSet)
    BY <1>1 DEF FlightOK, KindOK, Object
  <2>4. req[r].status \in Running /\ req[r].status \in Status
    BY <1>1 DEF FlightOK, KnownOK, Status
  <2>5. remote'[o] = req[r].status /\ remote[o] # "DELETED"
    BY <1>1, <1>3, <2>1, <2>3 DEF TypeOK, Running
  <2>6. uses' \in [Ad -> Creative \cup {None}] /\ \A a \in Ad \ {o} : uses'[a] = uses[a]
    BY <1>1, <2>1 DEF TypeOK, ReqState
  <2> HIDE DEF o
  <2>7. KindOK(r)' /\ ListingOK(r)' /\ SyncOK(r)'
    BY <2>2, <2>3 DEF KindOK, ListingOK, SyncOK
  <2>8. ParentOK(r)'
    BY <1>1, <2>2 DEF FlightOK, ParentOK, o
  <2>9. KnownOK(r)'
    BY <2>2, <2>4, <2>5 DEF KnownOK, Running
  <2>10. QED BY <1>1, <2>1, <2>2, <2>3, <2>4, <2>5, <2>6, <2>7, <2>8, <2>9, RemoteStep
             DEF FlightOK, Rows
<1>4. QED BY <1>2, <1>3

LEMMA ReadOneInv ==
    ASSUME Inv, NEW r \in Request, NEW pc, NEW next,
           \/ pc = "adset.read" /\ next = "adset.insert"
           \/ pc = "adset.reread" /\ next = "adset.store"
           \/ pc = "ad.read" /\ next = "ad.insert"
           \/ pc = "ad.reread" /\ next = "ad.store",
           ReadOne(r, pc, next)
    PROVE  Inv'
<1>1. TypeOK /\ FlightOK(r) /\ req[r] \in ReqState /\ next \in Pc /\ req[r].pc = pc
      /\ UNCHANGED <<remote, uses, local, ref, touched>>
  BY ReqType DEF Inv, Pc, ReadOne, At, Rows, AtMeta
<1>2. req[r].obj \in Object
  BY <1>1 DEF FlightOK, KindOK, Object
<1>3. remote[req[r].obj] \in Status \cup {None}
  BY <1>1, <1>2 DEF TypeOK
<1>4. /\ req' \in [Request -> ReqState] /\ Others(r)
      /\ req'[r].pc = next /\ req'[r].obj = req[r].obj /\ req'[r].status = remote[req[r].obj]
      /\ req'[r].lost = req[r].lost
  <2>1. PICK s \in Status \cup {None} : s = remote[req[r].obj]
    BY <1>3
  <2>2. NowKnows(r, next, s)
    BY <2>1 DEF ReadOne, NowKnows
  <2>3. QED BY <1>1, <2>1, <2>2, StatusMoves
<1>5. KindOK(r)' /\ ListingOK(r)' /\ SyncOK(r)'
  BY <1>1, <1>4 DEF FlightOK, KindOK, ListingOK, SyncOK
<1>6. ParentOK(r)'
  BY <1>1, <1>4 DEF FlightOK, ParentOK
<1>7. KnownOK(r)'
  BY <1>1, <1>4 DEF FlightOK, KnownOK
<1>8. QED BY <1>1, <1>4, <1>5, <1>6, <1>7, Quiet DEF FlightOK, Rows, AtMeta, Inv, TypeOK

LEMMA DeleteOneInv ==
    ASSUME Inv, NEW r \in Request, NEW pc, NEW next,
           \/ pc = "adset.delete" /\ next = "adset.mark"
           \/ pc = "ad.delete" /\ next = "ad.mark"
           \/ pc = "creative.delete" /\ next = "creative.drop",
           DeleteOne(r, pc, next)
    PROVE  Inv'
<1> DEFINE o == req[r].obj
<1>1. TypeOK /\ FlightOK(r) /\ req[r] \in ReqState /\ next \in Pc /\ req[r].pc = pc
      /\ UNCHANGED <<uses, local, ref>>
  BY ReqType DEF Inv, Pc, DeleteOne, At, Rows
<1>2. CASE Finish(r) /\ UNCHANGED <<remote, touched>>
  BY <1>1, <1>2, EndsInv DEF AtMeta, Rows, Inv, TypeOK
<1>3. CASE remote' = [remote EXCEPT ![o] = "DELETED"] /\ Goto(r, next) /\ Touch({o}, r)
  <2>1. /\ req' \in [Request -> ReqState] /\ Others(r)
        /\ req'[r].pc = next /\ req'[r].obj = o /\ req'[r].lost = req[r].lost
    BY <1>1, <1>3, GotoMoves
  <2>2. o \in Object
    BY <1>1 DEF FlightOK, KindOK, Object
  <2>3. remote'[o] = "DELETED" /\ "DELETED" \in Status
    BY <1>1, <1>3, <2>2 DEF TypeOK, Status
  <2>4. uses' \in [Ad -> Creative \cup {None}] /\ \A a \in Ad \ {o} : uses'[a] = uses[a]
    BY <1>1 DEF TypeOK
  <2> HIDE DEF o
  <2>5. KindOK(r)' /\ ListingOK(r)' /\ SyncOK(r)'
    BY <1>1, <2>1 DEF FlightOK, KindOK, ListingOK, SyncOK, o
  <2>6. ParentOK(r)'
    BY <1>1, <2>1 DEF FlightOK, ParentOK, o
  <2>7. KnownOK(r)'
    BY <2>1, <2>3 DEF KnownOK
  <2>8. QED BY <1>1, <1>3, <2>1, <2>2, <2>3, <2>4, <2>5, <2>6, <2>7, RemoteStep
            DEF FlightOK, Rows
<1>4. QED BY <1>2, <1>3 DEF DeleteOne

\* What a row is written with is known to Meta, and its keys are there.
LEMMA StoreInv ==
    ASSUME Inv, NEW r \in Request, NEW pc, NEW s \in Status, NEW k \in Creative \cup {None},
           Store(r, pc, s, k), req[r].obj \in Object, remote[req[r].obj] # None,
           ~req[r].lost /\ req[r].obj \in Ad => local[AdSetOf[req[r].obj]] # None
    PROVE  Inv'
<1>1. req' \in [Request -> ReqState] /\ Others(r) /\ FlightOK(r)' /\ SyncOK(r)'
  BY FinishMoves DEF Store, Inv
<1>2. CASE req[r].lost \/ (k # None /\ local[k] = None)
  BY <1>2, EndsInv DEF Store, Rows, AtMeta, Inv, TypeOK
<1>3. CASE ~(req[r].lost \/ (k # None /\ local[k] = None))
  BY <1>1, <1>3, LocalStep DEF Store
<1>4. QED BY <1>2, <1>3

\* The rows that a handler is about to write, by the place where it stands.
LEMMA StoreTarget ==
    ASSUME Inv, NEW r \in Request,
           req[r].pc \in {"adset.insert", "adset.store", "adset.mark", "ad.insert", "ad.store",
                          "ad.mark", "creative.insert"}
    PROVE  /\ req[r].obj \in Object /\ remote[req[r].obj] # None
           /\ req[r].obj \in Ad <=> req[r].pc \in {"ad.insert", "ad.store", "ad.mark"}
           /\ ~req[r].lost /\ req[r].obj \in Ad => local[AdSetOf[req[r].obj]] # None
           /\ req[r].status \in Status \cup {None}
           /\ req[r].creative \in Creative \cup {None} /\ req[r].keep \in Creative \cup {None}
           /\ req[r].pc \in Storing => req[r].status \in Status
           /\ req[r].obj \in Ad => ref[req[r].obj] \in Creative \cup {None}
<1>1. TypeOK /\ FlightOK(r) /\ req[r] \in ReqState
  BY ReqType DEF Inv
<1>2. /\ req[r].obj \in Object
      /\ req[r].obj \in Ad <=> req[r].pc \in {"ad.insert", "ad.store", "ad.mark"}
  BY <1>1 DEF FlightOK, KindOK, Object
<1>3. remote[req[r].obj] # None
  BY <1>1 DEF FlightOK, KnownOK, Status
<1>4. ~req[r].lost /\ req[r].obj \in Ad => local[AdSetOf[req[r].obj]] # None
  BY <1>1, <1>2 DEF FlightOK, ParentOK, TypeOK
<1>5. /\ req[r].status \in Status \cup {None}
      /\ req[r].creative \in Creative \cup {None} /\ req[r].keep \in Creative \cup {None}
  BY <1>1 DEF ReqState
<1>6. req[r].pc \in Storing => req[r].status \in Status
  BY <1>1, <1>5 DEF FlightOK, KnownOK
<1>7. QED BY <1>1, <1>2, <1>3, <1>4, <1>5, <1>6 DEF TypeOK

LEMMA InsertInv ==
    ASSUME Inv, NEW r \in Request, NEW pc \in {"adset.insert", "ad.insert", "creative.insert"},
           Insert(r, pc)
    PROVE  Inv'
<1>1. CASE local[req[r].obj] = None
  BY <1>1, StoreTarget, StoreInv DEF Insert, At
<1>2. CASE local[req[r].obj] # None
  BY <1>2, EndsInv DEF Insert, Inv, TypeOK
<1>3. QED BY <1>1, <1>2

LEMMA CreativeDropInv == ASSUME Inv, NEW r \in Request, CreativeDrop(r) PROVE Inv'
<1> DEFINE k == req[r].obj
<1>1. req' \in [Request -> ReqState] /\ Others(r) /\ FlightOK(r)' /\ SyncOK(r)'
  BY FinishMoves DEF CreativeDrop, Inv
<1>2. k \in Creative /\ k \in Object
  BY DEF Inv, FlightOK, KindOK, CreativeDrop, At, Object
<1>3. CASE req[r].lost \/ local[k] = None
  BY <1>3, EndsInv DEF CreativeDrop, Rows, AtMeta, Inv, TypeOK
<1>4. CASE ~(req[r].lost \/ local[k] = None)
  <2> DEFINE O == {k} \cup {a \in Ad : ref[a] = k}
  <2>1. /\ local' = [local EXCEPT ![k] = None]
        /\ ref' = [a \in Ad |-> IF ref[a] = k THEN None ELSE ref[a]]
        /\ Touch(O, r) /\ UNCHANGED <<remote, uses>>
    BY <1>4 DEF CreativeDrop, AtMeta
  <2> HIDE DEF k
  <2>2. O \subseteq Object
    BY <1>2 DEF Object
  <2>3. touched' \in [Request -> SUBSET Object]
    BY <2>1, <2>2 DEF Inv, TypeOK, Touch
  <2>4. \A o \in Object : local'[o] = IF o = k THEN None ELSE local[o]
    BY <2>1 DEF Inv, TypeOK
  <2>5. Keys'
    <3>1. /\ local' \in [Object -> Status \cup {None}] /\ ref' \in [Ad -> Creative \cup {None}]
      BY <2>1 DEF Inv, TypeOK
    <3>2. \A a \in Ad : local'[a] # None => local'[AdSetOf[a]] # None
      BY <1>2, <2>4 DEF Inv, TypeOK, Object
    <3>3. \A a \in Ad : ref'[a] # None => local'[a] # None /\ local'[ref'[a]] # None
      BY <1>2, <2>1, <2>4 DEF Inv, TypeOK, Object
    <3>4. QED BY <3>1, <3>2, <3>3 DEF Keys
  <2>6. TypeOK'
    BY <1>1, <2>1, <2>3, <2>5 DEF Inv, TypeOK, ReqState, Keys
  <2>7. RowsKnown' /\ Grows /\ RowsStay
    BY <1>2, <2>1, <2>4 DEF Inv, RowsKnown, Grows, RowsStay, Object
  <2>8. Told(r)
    BY <2>1, <2>4 DEF Told, Touch, Inv, TypeOK
  <2>9. QED BY <1>1, <2>6, <2>7, <2>8, Frame
<1>5. QED BY <1>3, <1>4

\* With the account row, every handler under way loses what it has read.
LEMMA AccountReplacedInv == ASSUME Inv, AccountReplaced PROVE Inv'
<1>1. /\ local' = NoObject /\ ref' = NoCreative /\ Touch(Object, None)
      /\ UNCHANGED <<remote, uses>>
      /\ req' = [r \in Request |-> IF At(r, "idle") THEN Idle ELSE [req[r] EXCEPT !.lost = TRUE]]
  BY DEF AccountReplaced, AtMeta
<1>2. ASSUME NEW r \in Request
      PROVE  /\ req'[r] \in ReqState
             /\ FlightOK(r)' /\ SyncOK(r)'
  <2>1. CASE At(r, "idle")
    <3>1. req'[r] = Idle
      BY <1>1, <2>1
    <3>2. req'[r].pc = "idle" /\ req'[r] \in ReqState
      BY <3>1, IdleType
    <3>3. FlightOK(r)' /\ SyncOK(r)'
      BY <3>2 DEF FlightOK, KindOK, ParentOK, KnownOK, ListingOK, SyncOK
    <3>4. QED BY <3>2, <3>3
  <2>2. CASE ~At(r, "idle")
    <3> DEFINE q == [req[r] EXCEPT !.lost = TRUE]
    <3>1. req'[r] = q
      BY <1>1, <2>2
    <3>2. /\ q \in ReqState /\ q.pc = req[r].pc /\ q.obj = req[r].obj /\ q.status = req[r].status
          /\ q.scope = req[r].scope /\ q.todo = req[r].todo /\ q.snap = req[r].snap
          /\ q.lost = TRUE
      <4>1. req[r] \in ReqState
        BY ReqType DEF Inv
      <4>2. q \in ReqState
        BY <4>1 DEF ReqState
      <4>3. q.pc = req[r].pc /\ q.obj = req[r].obj /\ q.status = req[r].status
        BY <4>1 DEF ReqState
      <4>4. /\ q.scope = req[r].scope /\ q.todo = req[r].todo /\ q.snap = req[r].snap
            /\ q.lost = TRUE
        BY <4>1 DEF ReqState
      <4>5. QED BY <4>2, <4>3, <4>4
    <3> HIDE DEF q
    <3>3. FlightOK(r)
      BY DEF Inv
    <3>4. KindOK(r)' /\ ParentOK(r)' /\ ListingOK(r)' /\ SyncOK(r)'
      BY <1>1, <3>1, <3>2, <3>3 DEF FlightOK, KindOK, ParentOK, ListingOK, SyncOK
    <3>5. KnownOK(r)'
      BY <1>1, <3>1, <3>2, <3>3 DEF FlightOK, KnownOK
    <3>6. QED BY <3>1, <3>2, <3>4, <3>5 DEF FlightOK
  <2>3. QED BY <2>1, <2>2
<1>3. Keys'
  BY <1>1 DEF Keys, NoObject, NoCreative, Status, Object, Running
<1>4. touched' \in [Request -> SUBSET Object]
  BY <1>1 DEF Touch, Inv, TypeOK
<1>5. req' \in [Request -> ReqState]
  BY <1>1, <1>2
<1>6. TypeOK'
  BY <1>1, <1>3, <1>4, <1>5 DEF Inv, TypeOK, ReqState, Keys
<1>7. RowsKnown'
  BY <1>1 DEF RowsKnown, NoObject
<1>8. QED BY <1>2, <1>6, <1>7 DEF Inv

LEMMA ElsewhereInv ==
    ASSUME Inv, NEW o \in Object, NEW s \in Status, NEW k \in Creative \cup {None},
           ElsewhereChange(o, s, k)
    PROVE  Inv'
<1>1. /\ remote[o] \in Running \/ (remote[o] = None /\ s \in Running)
      /\ remote' = [remote EXCEPT ![o] = s]
      /\ uses' = IF o \in Ad THEN [uses EXCEPT ![o] = k] ELSE uses
      /\ Touch({o}, None) /\ UNCHANGED <<Rows, req>>
  BY DEF ElsewhereChange
<1>2. remote[o] # "DELETED"
  BY <1>1 DEF Running, Status
<1>3. uses' \in [Ad -> Creative \cup {None}] /\ \A a \in Ad \ {o} : uses'[a] = uses[a]
  BY <1>1 DEF Inv, TypeOK
<1>4. req' \in [Request -> ReqState] /\ Others(None)
  BY <1>1 DEF Inv, TypeOK, ReqState, Others
<1>5. QED BY <1>1, <1>2, <1>3, <1>4, RemoteStep

LEMMA CrashInv == ASSUME Inv, NEW r \in Request, Crash(r) PROVE Inv'
  BY EndsInv DEF Crash, Inv, TypeOK

LEMMA AdSetsInv == ASSUME Inv, NEW r \in Request, AdSets(r) PROVE Inv'
<1>1. CASE \/ AdSetSyncStart(r)
           \/ \E s \in Running : AdSetCreateStart(r, s)
           \/ \E o \in AdSet, s \in Running : AdSetUpdateStart(r, o, s)
           \/ \E o \in AdSet : AdSetDeleteStart(r, o)
  BY <1>1, AdSetOpens, OpensInv
<1>2. CASE AdSetFetch(r)
  BY <1>2, ReadListingInv DEF AdSetFetch
<1>3. CASE AdSetUpsert(r)
  <2>1. PICK o \in req[r].todo : Upsert(r, o, None, "adsets.write") /\ req[r].pc = "adsets.write"
    BY <1>3 DEF AdSetUpsert, At
  <2>2. QED BY <2>1, UpsertInv
<1>4. CASE AdSetMark(r)
  BY <1>4, MarkMissingInv DEF AdSetMark
<1>5. CASE AdSetPost(r)
  BY <1>5, PostNewInv DEF AdSetPost
<1>6. CASE AdSetRead(r) \/ AdSetReread(r)
  BY <1>6, ReadOneInv DEF AdSetRead, AdSetReread
<1>7. CASE AdSetInsert(r)
  BY <1>7, InsertInv DEF AdSetInsert
<1>8. CASE AdSetPatch(r)
  BY <1>8, PostChangeInv DEF AdSetPatch
<1>9. CASE AdSetStore(r)
  BY <1>9, StoreInv, StoreTarget DEF AdSetStore, Store, At
<1>10. CASE AdSetRemove(r)
  BY <1>10, DeleteOneInv DEF AdSetRemove
<1>11. CASE AdSetMarkDeleted(r)
  BY <1>11, StoreInv, StoreTarget DEF AdSetMarkDeleted, Store, At, Status
<1>12. QED BY <1>1, <1>2, <1>3, <1>4, <1>5, <1>6, <1>7, <1>8, <1>9, <1>10, <1>11 DEF AdSets

LEMMA AdsInv == ASSUME Inv, NEW r \in Request, Ads(r) PROVE Inv'
<1>1. CASE \/ \E s \in AdSet : AdSyncStart(r, s)
           \/ \E s \in AdSet, k \in Creative, t \in Running : AdCreateStart(r, s, k, t)
           \/ \E a \in Ad, s \in Running, k \in Creative \cup {None} : AdUpdateStart(r, a, s, k)
           \/ \E a \in Ad : AdDeleteStart(r, a)
  BY <1>1, AdOpens, OpensInv
<1>2. CASE AdFetch(r)
  BY <1>2, ReadListingInv DEF AdFetch
<1>3. CASE AdResolve(r)
  BY <1>3, AdResolveInv
<1>4. CASE AdUpsert(r)
  <2>1. /\ Upsert(r, req[r].obj, req[r].creative, "ads.resolve") /\ req[r].pc = "ads.write"
        /\ req[r].obj \in req[r].todo
    BY <1>4 DEF AdUpsert, At, Inv, FlightOK, KindOK
  <2>2. QED BY <2>1, UpsertInv
<1>5. CASE AdMark(r)
  BY <1>5, MarkMissingInv DEF AdMark
<1>6. CASE AdPost(r)
  <2>1. CASE PostNew(r, "ad.post", "ad.read", req[r].scope)
    BY <2>1, PostNewInv
  <2>2. CASE Finish(r) /\ UNCHANGED <<AtMeta, Rows, touched>>
    BY <2>2, EndsInv DEF Inv, TypeOK
  <2>3. QED BY <1>6, <2>1, <2>2 DEF AdPost
<1>7. CASE AdRead(r) \/ AdReread(r)
  BY <1>7, ReadOneInv DEF AdRead, AdReread
<1>8. CASE AdInsert(r)
  BY <1>8, InsertInv DEF AdInsert
<1>9. CASE AdPatch(r)
  <2>1. CASE PostChange(r, "ad.patch", "ad.reread")
    BY <2>1, PostChangeInv
  <2>2. CASE Finish(r) /\ UNCHANGED <<AtMeta, Rows, touched>>
    BY <2>2, EndsInv DEF Inv, TypeOK
  <2>3. QED BY <1>9, <2>1, <2>2 DEF AdPatch
<1>10. CASE AdStore(r)
  <2>1. req[r].pc = "ad.store"
    BY <1>10 DEF AdStore, Store, At
  <2>2. QED BY <1>10, <2>1, StoreInv, StoreTarget DEF AdStore
<1>11. CASE AdRemove(r)
  BY <1>11, DeleteOneInv DEF AdRemove
<1>12. CASE AdMarkDeleted(r)
  <2>1. req[r].pc = "ad.mark"
    BY <1>12 DEF AdMarkDeleted, Store, At
  <2>2. QED BY <1>12, <2>1, StoreInv, StoreTarget DEF AdMarkDeleted, Status
<1>13. QED BY <1>1, <1>2, <1>3, <1>4, <1>5, <1>6, <1>7, <1>8, <1>9, <1>10, <1>11, <1>12 DEF Ads

LEMMA CreativesInv == ASSUME Inv, NEW r \in Request, Creatives(r) PROVE Inv'
<1>1. CASE \/ CreativeSyncStart(r)
           \/ CreativeCreateStart(r)
           \/ \E k \in Creative : CreativeDeleteStart(r, k)
  BY <1>1, CreativeOpens, OpensInv
<1>2. CASE CreativeFetch(r)
  BY <1>2, ReadListingInv DEF CreativeFetch
<1>3. CASE CreativeUpsert(r)
  <2>1. PICK k \in req[r].todo : Upsert(r, k, None, "creatives.write")
                                 /\ req[r].pc = "creatives.write"
    BY <1>3 DEF CreativeUpsert, At
  <2>2. QED BY <2>1, UpsertInv
<1>4. CASE CreativeSyncEnd(r)
  BY <1>4, CreativeSyncEndInv
<1>5. CASE CreativePost(r)
  BY <1>5, PostNewInv DEF CreativePost
<1>6. CASE CreativeInsert(r)
  BY <1>6, InsertInv DEF CreativeInsert
<1>7. CASE CreativeRemove(r)
  BY <1>7, DeleteOneInv DEF CreativeRemove
<1>8. CASE CreativeDrop(r)
  BY <1>8, CreativeDropInv
<1>9. QED BY <1>1, <1>2, <1>3, <1>4, <1>5, <1>6, <1>7, <1>8 DEF Creatives

LEMMA NextInv == ASSUME Inv, [Next]_vars PROVE Inv'
<1>1. CASE UNCHANGED vars
  <2>1. UNCHANGED <<remote, uses, local, ref, req, touched>>
    BY <1>1 DEF vars
  <2>2. TypeOK'
    BY <2>1 DEF Inv, TypeOK
  <2>3. RowsKnown'
    BY <2>1 DEF Inv, RowsKnown
  <2>4. \A r \in Request : FlightOK(r)' /\ SyncOK(r)'
    BY <2>1 DEF Inv, FlightOK, KindOK, ParentOK, KnownOK, ListingOK, SyncOK, Chosen, Resolve
  <2>5. QED BY <2>2, <2>3, <2>4 DEF Inv
<1>2. ASSUME NEW r \in Request, AdSets(r) \/ Ads(r) \/ Creatives(r) PROVE Inv'
  BY <1>2, AdSetsInv, AdsInv, CreativesInv
<1>3. ASSUME NEW r \in Request, SyncDone(r) PROVE Inv'
  BY <1>3, EndsInv DEF SyncDone, Inv, TypeOK
<1>4. CASE AccountReplaced
  BY <1>4, AccountReplacedInv
<1>5. CASE Elsewhere
  BY <1>5, ElsewhereInv DEF Elsewhere
<1>6. ASSUME NEW r \in Request, Crash(r) PROVE Inv'
  BY <1>6, CrashInv
<1>7. QED BY <1>1, <1>2, <1>3, <1>4, <1>5, <1>6 DEF Next, Own

LEMMA InitInv ==
    ASSUME remote \in [Object -> Status \cup {None}], uses \in [Ad -> Creative \cup {None}],
           local \in {NoObject, remote}, ref = NoCreative, req = [r \in Request |-> Idle],
           \A a \in Ad : local[a] = None, touched = [r \in Request |-> {}]
    PROVE  Inv
<1>1. req \in [Request -> ReqState] /\ \A r \in Request : req[r].pc = "idle"
  BY IdleType
<1>2. NoObject \in [Object -> Status \cup {None}]
  BY DEF NoObject
<1>3. Keys
  BY <1>2 DEF Keys, NoCreative
<1>4. TypeOK
  BY <1>1, <1>3, Types
<1>5. RowsKnown
  BY DEF RowsKnown, NoObject
<1>6. QED BY <1>1, <1>4, <1>5, Resting DEF Inv

LEMMA Invariance == Spec => []Inv
<1>1. Init => Inv
  <2> SUFFICES ASSUME Init PROVE Inv
    OBVIOUS
  <2>1. remote \in [Object -> Status \cup {None}] /\ \A a \in Ad : local[a] = None
    BY DEF Init, Status, Running, NoObject, Object
  <2>2. QED BY <2>1, InitInv DEF Init
<1>2. QED BY <1>1, NextInv, PTL DEF Spec

\* The types of the rows and of the requests in flight, and the foreign keys: an
\* ad hangs on the row of its ad set and refers to a creative of the library,
\* whoever syncs, creates, changes, deletes or replaces the account meanwhile.
THEOREM TypeCorrect == Spec => []TypeOK
<1>1. Inv => TypeOK
  BY DEF Inv
<1>2. QED BY <1>1, Invariance, PTL

-----------------------------------------------------------------------------
(* What a sync leaves behind.                                              *)

\* The parts that the handlers are made of.
LEMMA PartsAreOwn ==
    ASSUME Inv, NEW p \in Request
    PROVE  /\ \A q : Start(p, q) => Others(p)
           /\ \A pc : Goto(p, pc) => Others(p)
           /\ Finish(p) => Others(p)
           /\ \A pc, next : ReadListing(p, pc, next) => Others(p)
           /\ \A o, k, next : Upsert(p, o, k, next) => Others(p)
           /\ \A pc : MarkMissing(p, pc) => Others(p)
           /\ \A pc, next, S : PostNew(p, pc, next, S) => Others(p)
           /\ \A pc, next : PostChange(p, pc, next) => Others(p)
           /\ \A pc, next : ReadOne(p, pc, next) => Others(p)
           /\ \A pc, next : DeleteOne(p, pc, next) => Others(p)
           /\ \A pc, s, k : Store(p, pc, s, k) => Others(p)
           /\ \A pc : Insert(p, pc) => Others(p)
<1>1. \A q : req' = [req EXCEPT ![p] = q] => Others(p)
  BY DEF Others, Inv, TypeOK
<1>2. /\ \A q : Start(p, q) => Others(p)
      /\ \A pc : Goto(p, pc) => Others(p)
      /\ Finish(p) => Others(p)
  BY <1>1 DEF Start, Goto, Finish
<1>3. \A pc, next : ReadListing(p, pc, next) => Others(p)
  BY <1>1 DEF ReadListing
<1>4. \A o, k, next : Upsert(p, o, k, next) => Others(p)
  BY <1>1, <1>2 DEF Upsert
<1>5. \A pc : MarkMissing(p, pc) => Others(p)
  BY <1>2 DEF MarkMissing
<1>6. \A pc, next, S : PostNew(p, pc, next, S) => Others(p)
  BY <1>1 DEF PostNew
<1>7. /\ \A pc, next : PostChange(p, pc, next) => Others(p)
      /\ \A pc, next : DeleteOne(p, pc, next) => Others(p)
  BY <1>2 DEF PostChange, DeleteOne
<1>8. \A pc, next : ReadOne(p, pc, next) => Others(p)
  BY <1>1 DEF ReadOne
<1>9. \A pc, s, k : Store(p, pc, s, k) => Others(p)
  BY <1>2 DEF Store
<1>10. \A pc : Insert(p, pc) => Others(p)
  BY <1>2, <1>9 DEF Insert
<1>11. QED BY <1>2, <1>3, <1>4, <1>5, <1>6, <1>7, <1>8, <1>9, <1>10

LEMMA OwnRecord ==
    ASSUME Inv, NEW p \in Request,
           AdSets(p) \/ Ads(p) \/ Creatives(p) \/ SyncDone(p) \/ Crash(p)
    PROVE  Others(p)
<1>1. CASE AdSets(p)
  BY <1>1, PartsAreOwn, Zenon
  DEF AdSets, AdSetSyncStart, AdSetFetch, AdSetUpsert, AdSetMark, AdSetCreateStart, AdSetPost,
      AdSetRead, AdSetInsert, AdSetUpdateStart, AdSetPatch, AdSetReread, AdSetStore,
      AdSetDeleteStart, AdSetRemove, AdSetMarkDeleted
<1>2. CASE Ads(p)
  <2>1. AdResolve(p) => Others(p)
    BY DEF AdResolve, Others, Inv, TypeOK
  <2>2. QED
    BY <1>2, <2>1, PartsAreOwn, Zenon
    DEF Ads, AdSyncStart, AdFetch, AdUpsert, AdMark, AdCreateStart, AdPost, AdRead, AdInsert,
        AdUpdateStart, AdPatch, AdReread, AdStore, AdDeleteStart, AdRemove, AdMarkDeleted
<1>3. CASE Creatives(p)
  BY <1>3, PartsAreOwn, Zenon
  DEF Creatives, CreativeSyncStart, CreativeFetch, CreativeUpsert, CreativeSyncEnd,
      CreativeCreateStart, CreativePost, CreativeInsert, CreativeDeleteStart, CreativeRemove,
      CreativeDrop
<1>4. CASE SyncDone(p) \/ Crash(p)
  BY <1>4, PartsAreOwn, Zenon DEF SyncDone, Crash
<1>5. QED BY <1>1, <1>2, <1>3, <1>4

\* A sync of ad sets or ads ends by marking what its listing lacked.
LEMMA SyncEnds ==
    ASSUME Inv, [Next]_vars, NEW r \in Request,
           req[r].pc \in {"adsets.write", "ads.resolve"}, req'[r].pc = "synced"
    PROVE  MarkMissing(r, req[r].pc)
<1>1. req'[r] # req[r]
  BY DEF Inv, TypeOK
<1>2. ~UNCHANGED vars /\ ~Elsewhere
  BY <1>1 DEF vars, Elsewhere, ElsewhereChange
<1>3. ~AccountReplaced
  <2>1. CASE AccountReplaced
    <3>1. req'[r] = [req[r] EXCEPT !.lost = TRUE]
      BY <2>1 DEF AccountReplaced, At
    <3>2. req'[r].pc = req[r].pc
      BY <3>1, ReqType DEF Inv, ReqState
    <3>3. QED BY <3>2
  <2>2. QED BY <2>1
<1>4. PICK p \in Request : AdSets(p) \/ Ads(p) \/ Creatives(p) \/ SyncDone(p) \/ Crash(p)
  <2>1. Own \/ \E p \in Request : Crash(p)
    BY <1>2, Zenon DEF Next
  <2>2. QED BY <1>3, <2>1, Zenon DEF Own
<1>5. p = r
  BY <1>1, <1>4, OwnRecord DEF Others
<1>6. ~Finish(r)
  BY FinishMoves DEF Inv
<1>7. ~SyncDone(r) /\ ~Crash(r)
  BY <1>6 DEF SyncDone, Crash
<1>8. ASSUME NEW o, NEW k, NEW next \in Pc, Upsert(r, o, k, next) PROVE req'[r].pc = next
  <2>1. NowWithout(r, next, o)
    BY <1>6, <1>8, Zenon DEF Upsert, NowWithout
  <2>2. QED BY <2>1, LoopMoves DEF Inv
<1>9. CASE req[r].pc = "adsets.write"
  <2>1. AdSetUpsert(r) \/ AdSetMark(r)
    BY <1>4, <1>5, <1>7, <1>9 DEF At, Start, AdSets, Ads, Creatives, AdSetSyncStart, AdSetFetch,
         AdSetCreateStart, AdSetPost, AdSetRead, AdSetInsert, AdSetUpdateStart, AdSetPatch,
         AdSetReread, AdSetStore, AdSetDeleteStart, AdSetRemove, AdSetMarkDeleted,
         AdSyncStart, AdFetch, AdResolve, AdUpsert, AdMark, AdCreateStart, AdPost, AdRead,
         AdInsert, AdUpdateStart, AdPatch, AdReread, AdStore, AdDeleteStart, AdRemove,
         AdMarkDeleted, CreativeSyncStart, CreativeFetch, CreativeUpsert,
         CreativeSyncEnd, CreativeCreateStart, CreativePost, CreativeInsert, CreativeDeleteStart,
         CreativeRemove, CreativeDrop, ReadListing, MarkMissing, PostNew, PostChange, ReadOne,
         DeleteOne, Store, Insert
  <2>2. "adsets.write" \in Pc
    BY DEF Pc
  <2>3. ~AdSetUpsert(r)
    BY <1>8, <2>2 DEF AdSetUpsert
  <2>4. QED BY <1>9, <2>1, <2>3 DEF AdSetMark
<1>10. CASE req[r].pc = "ads.resolve"
  <2>1. AdResolve(r) \/ AdMark(r)
    BY <1>4, <1>5, <1>7, <1>10 DEF At, Start, AdSets, Ads, Creatives, AdSetSyncStart, AdSetFetch,
         AdSetUpsert, AdSetMark, AdSetCreateStart, AdSetPost, AdSetRead, AdSetInsert,
         AdSetUpdateStart, AdSetPatch, AdSetReread, AdSetStore, AdSetDeleteStart, AdSetRemove,
         AdSetMarkDeleted, AdSyncStart, AdFetch, AdUpsert, AdCreateStart, AdPost, AdRead,
         AdInsert, AdUpdateStart, AdPatch, AdReread, AdStore, AdDeleteStart, AdRemove,
         AdMarkDeleted, CreativeSyncStart, CreativeFetch, CreativeUpsert,
         CreativeSyncEnd, CreativeCreateStart, CreativePost, CreativeInsert, CreativeDeleteStart,
         CreativeRemove, CreativeDrop, ReadListing, MarkMissing, PostNew, PostChange, ReadOne,
         DeleteOne, Store, Insert
  <2>2. ~AdResolve(r)
    <3>1. CASE AdResolve(r)
      <4>1. PICK a \in req[r].todo :
              req' = [req EXCEPT ![r].pc = "ads.write", ![r].obj = a,
                                 ![r].creative = Resolve(req[r].asset[a])]
        BY <3>1 DEF AdResolve
      <4>2. req'[r].pc = "ads.write"
        BY <4>1, ReqType DEF Inv, TypeOK, ReqState
      <4>3. QED BY <4>2
    <3>2. QED BY <3>1
  <2>3. QED BY <1>10, <2>1, <2>2 DEF AdMark
<1>11. QED BY <1>9, <1>10

LEMMA MarkingIsExact ==
    ASSUME Inv, NEW r \in Request, NEW pc \in {"adsets.write", "ads.resolve"},
           MarkMissing(r, pc), ~req[r].lost, NEW o \in req[r].scope \ touched[r]
    PROVE  /\ Shown(o)'
           /\ o \in Ad /\ local'[o] \in Running
                => \/ ref'[o] = Resolve(uses[o])'
                   \/ ref'[o] = None /\ uses'[o] \in touched[r]
<1>1. /\ req[r].pc = pc /\ req[r].todo = {} /\ UNCHANGED <<remote, uses, ref>>
      /\ \A x \in Object : local'[x] = IF /\ x \in req[r].scope /\ req[r].snap[x] = None
                                          /\ local[x] \in Running
                                       THEN "DELETED" ELSE local[x]
  BY DEF MarkMissing, At, AtMeta
<1>2. /\ o \in Object /\ SyncOK(r)
  BY ReqType DEF Inv, ReqState
<1>3. /\ req[r].snap[o] = IF remote[o] \in Running THEN remote[o] ELSE None
      /\ req[r].snap[o] # None => local[o] = remote[o]
      /\ o \in Ad /\ req[r].snap[o] # None => Chosen(o, ref[o], r)
  BY <1>1, <1>2 DEF SyncOK
<1>4. Shown(o)'
  BY <1>1, <1>2, <1>3 DEF Shown, Running, Status, Object
<1>5. ASSUME o \in Ad, local'[o] \in Running
      PROVE  \/ ref'[o] = Resolve(uses[o])'
             \/ ref'[o] = None /\ uses'[o] \in touched[r]
  <2>1. req[r].snap[o] # None
    BY <1>1, <1>2, <1>5 DEF Running
  <2>2. Chosen(o, ref[o], r)
    BY <1>3, <1>5, <2>1
  <2>3. uses[o] \in Creative \cup {None} /\ (ref[o] # None => local[ref[o]] # None)
    BY <1>5 DEF Inv, TypeOK
  <2>4. uses[o] # None => (local'[uses[o]] = None <=> local[uses[o]] = None)
    BY <1>1, <2>3 DEF Object, Status, Running
  <2>5. Resolve(uses[o])' = Resolve(uses[o])
    BY <1>1, <2>4 DEF Resolve
  <2>6. CASE ref[o] # None
    BY <1>1, <2>2, <2>3, <2>5, <2>6 DEF Chosen, Resolve
  <2>7. CASE ref[o] = None
    BY <1>1, <2>2, <2>5, <2>7 DEF Chosen
  <2>8. QED BY <2>6, <2>7
<1>6. QED BY <1>4, <1>5

LEMMA SyncStep == Inv /\ [Next]_vars =>
    \A r \in Request :
        req[r].pc \in {"adsets.write", "ads.resolve"} /\ At(r, "synced")' /\ ~req[r].lost
            => \A o \in req[r].scope \ touched[r] :
                  /\ Shown(o)'
                  /\ o \in Ad /\ local'[o] \in Running
                        => \/ ref'[o] = Resolve(uses[o])'
                           \/ ref'[o] = None /\ uses'[o] \in touched[r]
  BY SyncEnds, MarkingIsExact DEF At

\* When a sync of ad sets or of ads ends, every row that nobody else has touched
\* shows what Meta has, and a running ad its creative there, unless that is not
\* in the library or came into it while the sync was under way: for any number
\* of objects and of requests that overlap, crashes and Meta's own tools included
\* (AdSetsService.syncForCampaign, AdsService.syncForAdSet, resolveCreativeId).
THEOREM SyncTheorem == Spec => SyncIsExact
<1>1. Inv /\ [Next]_vars =>
        [\A r \in Request :
            req[r].pc \in {"adsets.write", "ads.resolve"} /\ At(r, "synced")' /\ ~req[r].lost
                => \A o \in req[r].scope \ touched[r] :
                      /\ Shown(o)'
                      /\ o \in Ad /\ local'[o] \in Running
                            => \/ ref'[o] = Resolve(uses[o])'
                               \/ ref'[o] = None /\ uses'[o] \in touched[r]]_vars
  BY SyncStep
<1>2. QED BY <1>1, Invariance, PTL DEF Spec, SyncIsExact

-----------------------------------------------------------------------------

\* One request at a time: what says DELETED is deleted, what a listing lacks is
\* deleted or has no row, and no living ad uses a creative that is being deleted.
AloneFlight(r) ==
    LET q == req[r] IN
    ~q.lost =>
        /\ q.pc \in {"adsets.write", "ads.resolve", "ads.write"} =>
               \A o \in q.scope : q.snap[o] = None => remote[o] = "DELETED" \/ local[o] = None
        /\ q.pc \in {"creative.delete", "creative.drop"} => Users(q.obj) = {}

AloneOK ==
    /\ \A o \in AdSet \cup Ad : local[o] = "DELETED" => remote[o] = "DELETED"
    /\ \A r \in Request : AloneFlight(r)

\* Handler r has changed object o at Meta and is about to write the row.
Carries(r, o) ==
    /\ req[r].obj = o /\ ~req[r].lost
    /\ req[r].pc \in {"adset.reread", "adset.store", "ad.reread", "ad.store"} \cup Removed

OursFlight(r) ==
    LET q == req[r] IN
    /\ q.pc # "idle" /\ q.lost => local = NoObject
    /\ q.pc \in Syncing /\ ~q.lost => touched[r] = {}
    /\ q.pc \in Storing => q.status = remote[q.obj]
    /\ q.pc = "creative.insert" => remote[q.obj] \in Running
    /\ q.pc \in NewAd => q.creative = uses[q.obj]
    /\ q.pc \in {"ad.reread", "ad.store"} => /\ q.creative # None => q.creative = uses[q.obj]
                                             /\ q.creative = None => q.keep \in {None, uses[q.obj]}
    /\ q.pc \in {"ad.patch", "ad.reread", "ad.store"} /\ ~q.lost =>
           /\ q.creative # None => local[q.creative] # None
           /\ q.keep # None => local[q.keep] # None
    /\ q.pc = "ad.patch" => q.keep \in {None, uses[q.obj]}

\* What the row of o says is what Meta has.
Exact(o) ==
    /\ o \in AdSet \cup Ad /\ local[o] # None => Shown(o)
    /\ o \in Ad /\ local[o] \in Running => ref[o] \in {None, uses[o]}
    /\ o \in Creative /\ local[o] # None => remote[o] \in Running

\* Nobody dies, nobody else: a row is exact, or about to be written.
OursOK ==
    /\ \A o \in Object : Exact(o) \/ \E r \in Request : Carries(r, o)
    /\ \A r \in Request : OursFlight(r)

Alone(r) == \A p \in Request \ {r} : req[p].pc = "idle"

\* What a step of r has to show when the others rest.
LEMMA AloneFrame ==
    ASSUME NEW r \in Request, Others(r), Alone(r), AloneFlight(r)',
           \A o \in AdSet \cup Ad : local'[o] = "DELETED" => remote'[o] = "DELETED"
    PROVE  AloneOK'
  BY DEF Others, Alone, AloneOK, AloneFlight

LEMMA OursFrame ==
    ASSUME NEW r \in Request, Others(r), Alone(r), OursFlight(r)',
           \A o \in Object : Exact(o)' \/ Carries(r, o)'
    PROVE  OursOK'
<1>1. ASSUME NEW p \in Request \ {r} PROVE OursFlight(p)'
  BY DEF Others, Alone, OursFlight
<1>2. QED BY <1>1 DEF OursOK

LEMMA OursHas ==
    ASSUME NEW r \in Request, Alone(r), OursOK
    PROVE  OursFlight(r) /\ \A o \in Object : Exact(o) \/ Carries(r, o)
  BY DEF Alone, OursOK, Carries

\* A row of which neither side changes stays as exact as it was.
LEMMA ExactStays ==
    ASSUME NEW o \in Object, Exact(o), remote'[o] = remote[o], local'[o] = local[o],
           o \in Ad => uses'[o] = uses[o] /\ ref'[o] = ref[o]
    PROVE  Exact(o)'
  BY DEF Exact, Shown

LEMMA NoRowIsExact == ASSUME NEW o, local[o] = None PROVE Exact(o)
  BY DEF Exact, Running, Status, Object

LEMMA NoRowIsExactNext == ASSUME NEW o, local'[o] = None PROVE Exact(o)'
  BY DEF Exact, Running, Status, Object

LEMMA OpensAlone ==
    ASSUME Inv, NEW r \in Request, Opens(r), Alone(r), AloneOK
    PROVE  AloneOK' /\ (OursOK => OursOK')
<1> PICK q \in ReqState : Start(r, q) /\ Opening(q) /\ UNCHANGED <<AtMeta, Rows, touched>>
  BY DEF Opens
<1>1. req'[r] = q /\ Others(r) /\ req[r].pc = "idle"
  BY Moves DEF Start, Inv, At
<1>2. UNCHANGED <<remote, uses, local, ref, touched>>
  BY DEF AtMeta, Rows
<1>3. AloneFlight(r)'
  BY <1>1, <1>2 DEF AloneFlight, Opening, Users
<1>4. AloneOK'
  BY <1>1, <1>2, <1>3, AloneFrame DEF AloneOK
<1>5. ASSUME OursOK PROVE OursOK'
  <2>1. \A o \in Object : Exact(o)
    BY <1>1, <1>5, OursHas DEF Carries
  <2>2. \A o \in Object : Exact(o)'
    BY <1>2, <2>1, ExactStays
  <2>3. OursFlight(r)'
    <3>1. CASE q.pc = "ad.patch"
      <4>1. /\ q.obj \in Ad /\ local[q.obj] \in Running /\ q.keep = ref[q.obj] /\ ~q.lost
            /\ q.creative # None => local[q.creative] # None
        BY <3>1 DEF Opening
      <4>2. q.keep \in {None, uses[q.obj]} /\ (q.keep # None => local[q.keep] # None)
        BY <2>1, <4>1 DEF Exact, Inv, TypeOK, Object
      <4>3. QED BY <1>1, <1>2, <3>1, <4>1, <4>2 DEF OursFlight
    <3>2. CASE q.pc # "ad.patch"
      BY <1>1, <3>2 DEF OursFlight, Opening
    <3>3. QED BY <3>1, <3>2
  <2>4. QED BY <1>1, <2>2, <2>3, OursFrame
<1>6. QED BY <1>4, <1>5

\* A request that ends without a trace, not having changed Meta before.
LEMMA EndsAlone ==
    ASSUME Inv, NEW r \in Request, Finish(r), UNCHANGED <<AtMeta, Rows>>, Alone(r), AloneOK
    PROVE  /\ AloneOK'
           /\ OursOK /\ (\A o \in Object : ~Carries(r, o) \/ Exact(o)) => OursOK'
<1>1. Others(r) /\ req'[r] = Idle /\ req'[r].pc = "idle"
  BY FinishMoves, IdleType DEF Finish, Inv, TypeOK
<1>2. UNCHANGED <<remote, uses, local, ref>>
  BY DEF AtMeta, Rows
<1>3. AloneFlight(r)' /\ OursFlight(r)'
  BY <1>1 DEF AloneFlight, OursFlight
<1>4. AloneOK'
  BY <1>1, <1>2, <1>3, AloneFrame DEF AloneOK
<1>5. ASSUME OursOK, \A o \in Object : ~Carries(r, o) \/ Exact(o) PROVE OursOK'
  <2>1. \A o \in Object : Exact(o)
    BY <1>5, OursHas
  <2>2. \A o \in Object : Exact(o)'
    BY <1>2, <2>1, ExactStays
  <2>3. QED BY <1>1, <1>3, <2>2, OursFrame
<1>6. QED BY <1>4, <1>5

LEMMA ReadListingAlone ==
    ASSUME Inv, NEW r \in Request, NEW pc, NEW next,
           \/ pc = "adsets.fetch" /\ next = "adsets.write"
           \/ pc = "ads.fetch" /\ next = "ads.resolve"
           \/ pc = "creatives.fetch" /\ next = "creatives.write",
           ReadListing(r, pc, next), Alone(r), AloneOK
    PROVE  AloneOK' /\ (OursOK => OursOK')
<1>1. next \in Pc /\ req[r].pc = pc /\ req[r] \in ReqState /\ TypeOK
  BY ReqType DEF Pc, ReadListing, At, Inv
<1>2. /\ Others(r)
      /\ req'[r].pc = next /\ req'[r].scope = req[r].scope /\ req'[r].lost = req[r].lost
      /\ \A o \in Object : req'[r].snap[o] =
             IF o \in Listed(req[r].scope) THEN remote[o] ELSE None
  BY <1>1, ReadListingMoves
<1>3. UNCHANGED <<remote, uses, local, ref>> /\ touched' = [touched EXCEPT ![r] = {}]
  BY DEF ReadListing, AtMeta, Rows
<1>4. AloneFlight(r)'
  <2> SUFFICES ASSUME NEW o \in req[r].scope, req'[r].snap[o] = None
               PROVE  remote[o] = "DELETED" \/ local[o] = None
    BY <1>1, <1>2, <1>3 DEF AloneFlight
  <2>1. o \in Object /\ remote[o] \in Status \cup {None}
    BY <1>1 DEF ReqState, TypeOK
  <2>2. remote[o] \notin Running
    BY <1>2, <2>1 DEF Listed, Running, Status, Object
  <2>3. QED BY <2>1, <2>2 DEF Status, Inv, RowsKnown
<1>5. AloneOK'
  BY <1>2, <1>3, <1>4, AloneFrame DEF AloneOK
<1>6. ASSUME OursOK PROVE OursOK'
  <2>1. OursFlight(r) /\ \A o \in Object : Exact(o)
    BY <1>1, <1>6, OursHas DEF Carries
  <2>2. \A o \in Object : Exact(o)'
    BY <1>3, <2>1, ExactStays
  <2>3. touched'[r] = {}
    BY <1>1, <1>3 DEF TypeOK
  <2>4. OursFlight(r)'
    BY <1>1, <1>2, <1>3, <2>1, <2>3 DEF OursFlight
  <2>5. QED BY <1>2, <2>2, <2>4, OursFrame
<1>7. QED BY <1>5, <1>6

LEMMA AdResolveAlone ==
    ASSUME Inv, NEW r \in Request, AdResolve(r), Alone(r), AloneOK
    PROVE  AloneOK' /\ (OursOK => OursOK')
<1>1. PICK a \in req[r].todo :
        req' = [req EXCEPT ![r].pc = "ads.write", ![r].obj = a,
                           ![r].creative = Resolve(req[r].asset[a])]
  BY DEF AdResolve
<1>2. TypeOK /\ FlightOK(r) /\ req[r] \in ReqState /\ req[r].pc = "ads.resolve"
  BY ReqType DEF Inv, AdResolve, At
<1>3. a \in Ad /\ a \in Object
  BY <1>1, <1>2 DEF FlightOK, ListingOK, KindOK, Object
<1> DEFINE k == Resolve(req[r].asset[a])
<1>4. k \in Creative \cup {None} /\ NowWrites(r, a, k)
  BY <1>1, <1>2, <1>3 DEF Resolve, ReqState, NowWrites
<1> HIDE DEF k
<1>5. /\ Others(r) /\ req'[r].pc = "ads.write" /\ req'[r].scope = req[r].scope
      /\ req'[r].lost = req[r].lost /\ req'[r].snap = req[r].snap
  BY <1>2, <1>3, <1>4, ResolveMoves
<1>6. UNCHANGED <<remote, uses, local, ref, touched>>
  BY DEF AdResolve, AtMeta, Rows
<1>7. AloneFlight(r)'
  BY <1>2, <1>5, <1>6 DEF AloneFlight, AloneOK
<1>8. AloneOK'
  BY <1>5, <1>6, <1>7, AloneFrame DEF AloneOK
<1>9. ASSUME OursOK PROVE OursOK'
  <2>1. OursFlight(r) /\ \A o \in Object : Exact(o)
    BY <1>2, <1>9, OursHas DEF Carries
  <2>2. \A o \in Object : Exact(o)'
    BY <1>6, <2>1, ExactStays
  <2>3. OursFlight(r)'
    BY <1>2, <1>5, <1>6, <2>1 DEF OursFlight
  <2>4. QED BY <1>5, <2>2, <2>3, OursFrame
<1>10. QED BY <1>8, <1>9

LEMMA UpsertAlone ==
    ASSUME Inv, NEW r \in Request, NEW o \in req[r].todo, NEW k, NEW pc, NEW next,
           req[r].pc = pc,
           \/ pc \in {"adsets.write", "creatives.write"} /\ next = pc /\ k = None
           \/ pc = "ads.write" /\ next = "ads.resolve" /\ o = req[r].obj /\ k = req[r].creative,
           Upsert(r, o, k, next), Alone(r), AloneOK
    PROVE  AloneOK' /\ (OursOK => OursOK')
<1>1. CASE req[r].lost \/ (k # None /\ local[k] = None)
  <2>1. Finish(r) /\ UNCHANGED <<AtMeta, Rows>>
    BY <1>1 DEF Upsert
  <2>2. \A x \in Object : ~Carries(r, x)
    BY DEF Carries
  <2>3. QED BY <2>1, <2>2, EndsAlone
<1>2. CASE ~(req[r].lost \/ (k # None /\ local[k] = None))
  <2>1. /\ local' = [local EXCEPT ![o] = req[r].snap[o]]
        /\ ref' = IF o \in Ad THEN [ref EXCEPT ![o] = k] ELSE ref
        /\ NowWithout(r, next, o)
        /\ Touch({o}, r)
        /\ UNCHANGED <<remote, uses>>
    BY <1>2 DEF Upsert, AtMeta, NowWithout
  <2>2. TypeOK /\ FlightOK(r) /\ SyncOK(r) /\ req[r] \in ReqState /\ next \in Pc /\ pc \in Syncing
    BY ReqType DEF Inv, Pc
  <2>3. /\ Others(r) /\ req'[r].pc = next
        /\ req'[r].scope = req[r].scope /\ req'[r].lost = req[r].lost
        /\ req'[r].snap = req[r].snap
    BY <2>1, <2>2, LoopMoves
  <2>4. /\ o \in req[r].scope /\ o \in Object
        /\ req[r].snap[o] \in Running /\ req[r].snap[o] # None /\ req[r].snap[o] # "DELETED"
    BY <2>2 DEF FlightOK, ListingOK, ReqState, Running
  <2>5. \A x \in Object : local'[x] = IF x = o THEN req[r].snap[o] ELSE local[x]
    BY <2>1, <2>2 DEF TypeOK
  <2>6. \A a \in Ad : ref'[a] = IF a = o THEN k ELSE ref[a]
    BY <2>1, <2>2 DEF TypeOK
  <2>7. AloneFlight(r)'
    <3> SUFFICES ASSUME pc = "adsets.write" \/ pc = "ads.write", NEW x \in req[r].scope,
                        req[r].snap[x] = None
                 PROVE  remote[x] = "DELETED" \/ local'[x] = None
      BY <2>1, <2>3 DEF AloneFlight
    <3>1. x \in Object /\ x # o
      BY <2>2, <2>4 DEF ReqState
    <3>2. QED BY <1>2, <2>5, <3>1 DEF AloneOK, AloneFlight
  <2>8. AloneOK'
    BY <2>1, <2>3, <2>4, <2>5, <2>7, AloneFrame DEF AloneOK, Object
  <2>9. ASSUME OursOK PROVE OursOK'
    <3>1. OursFlight(r) /\ \A x \in Object : Exact(x)
      BY <2>9, OursHas DEF Carries
    <3>2. touched[r] = {} /\ touched'[r] = {}
      BY <1>2, <2>1, <2>2, <3>1 DEF OursFlight, Touch
    <3>3. /\ local'[o] = remote[o] /\ remote[o] \in Running
          /\ o \in Ad => ref'[o] \in {None, uses[o]}
      <4>1. req[r].snap[o] = remote[o] /\ remote[o] \in Running
        BY <1>2, <2>2, <2>4, <3>2 DEF SyncOK
      <4>2. ASSUME o \in Ad PROVE k \in {None, uses[o]}
        BY <1>2, <2>2, <2>4, <3>2, <4>2 DEF SyncOK, Chosen
      <4>3. QED BY <2>4, <2>5, <2>6, <4>1, <4>2
    <3>4. Exact(o)'
      BY <2>1, <3>3 DEF Exact, Shown
    <3>5. \A x \in Object : Exact(x)'
      BY <2>1, <2>5, <2>6, <3>1, <3>4, ExactStays
    <3>6. OursFlight(r)'
      BY <1>2, <2>3, <3>2 DEF OursFlight
    <3>7. QED BY <2>3, <3>5, <3>6, OursFrame
  <2>10. QED BY <2>8, <2>9
<1>3. QED BY <1>1, <1>2

LEMMA MarkMissingAlone ==
    ASSUME Inv, NEW r \in Request, NEW pc \in {"adsets.write", "ads.resolve"},
           MarkMissing(r, pc), Alone(r), AloneOK
    PROVE  AloneOK' /\ (OursOK => OursOK')
<1>1. /\ req[r].pc = pc /\ req[r].todo = {} /\ UNCHANGED <<remote, uses, ref>>
      /\ Goto(r, "synced")
      /\ local' = [x \in Object |-> IF /\ x \in req[r].scope /\ ~req[r].lost
                                       /\ req[r].snap[x] = None /\ local[x] \in Running
                                    THEN "DELETED" ELSE local[x]]
  BY DEF MarkMissing, At, AtMeta
<1>2. \A x \in Object : local'[x] = IF /\ x \in req[r].scope /\ ~req[r].lost
                                       /\ req[r].snap[x] = None /\ local[x] \in Running
                                    THEN "DELETED" ELSE local[x]
  BY <1>1
<1>3. /\ Others(r) /\ req'[r].pc = "synced" /\ req'[r].lost = req[r].lost
  BY <1>1, GotoMoves DEF Inv, Pc
<1>4. AloneFlight(r)'
  BY <1>3 DEF AloneFlight
<1>5. \A o \in AdSet \cup Ad : local'[o] = "DELETED" => remote'[o] = "DELETED"
  BY <1>1, <1>2 DEF AloneOK, AloneFlight, Object, Running, Status
<1>6. ASSUME OursOK PROVE OursOK'
  <2>1. OursFlight(r) /\ \A x \in Object : Exact(x)
    BY <1>1, <1>6, OursHas DEF Carries
  <2>2. ASSUME NEW x \in Object PROVE Exact(x)'
    <3>1. CASE x \in req[r].scope /\ ~req[r].lost /\ req[r].snap[x] = None /\ local[x] \in Running
      <4>1. touched[r] = {} /\ SyncOK(r)
        BY <1>1, <2>1, <3>1 DEF OursFlight, Inv
      <4>2. remote[x] \notin Running
        BY <1>1, <3>1, <4>1 DEF SyncOK, Running, Status, Object
      <4>3. x \notin Creative
        BY <1>1, <3>1 DEF Inv, FlightOK, KindOK
      <4>4. QED BY <1>1, <1>2, <3>1, <4>2, <4>3 DEF Exact, Shown, Running
    <3>2. CASE ~(x \in req[r].scope /\ ~req[r].lost /\ req[r].snap[x] = None /\ local[x] \in Running)
      BY <1>1, <1>2, <2>1, <3>2, ExactStays
    <3>3. QED BY <3>1, <3>2
  <2>3. ASSUME req[r].lost PROVE local' = NoObject
    BY <1>1, <2>1, <2>3 DEF OursFlight, NoObject
  <2>4. OursFlight(r)'
    BY <1>3, <2>3 DEF OursFlight
  <2>5. QED BY <1>3, <2>2, <2>4, OursFrame
<1>7. QED BY <1>1, <1>3, <1>4, <1>5, <1>6, AloneFrame

LEMMA CreativeSyncEndAlone ==
    ASSUME Inv, NEW r \in Request, CreativeSyncEnd(r), Alone(r), AloneOK
    PROVE  AloneOK' /\ (OursOK => OursOK')
<1>1. /\ Others(r) /\ req'[r].pc = "synced" /\ req'[r].lost = req[r].lost
      /\ req[r].pc = "creatives.write" /\ UNCHANGED <<remote, uses, local, ref>>
  BY GotoMoves DEF CreativeSyncEnd, Inv, Pc, AtMeta, Rows, At
<1>2. AloneFlight(r)'
  BY <1>1 DEF AloneFlight
<1>3. ASSUME OursOK PROVE OursOK'
  <2>1. OursFlight(r) /\ \A x \in Object : Exact(x)
    BY <1>1, <1>3, OursHas DEF Carries
  <2>2. OursFlight(r)'
    BY <1>1, <2>1 DEF OursFlight
  <2>3. \A o \in Object : Exact(o)'
    BY <1>1, <2>1, ExactStays
  <2>4. QED BY <1>1, <2>2, <2>3, OursFrame
<1>4. QED BY <1>1, <1>2, <1>3, AloneFrame DEF AloneOK

LEMMA PostNewAlone ==
    ASSUME Inv, NEW r \in Request, NEW pc, NEW next, NEW S,
           \/ pc = "adset.post" /\ next = "adset.read" /\ S = AdSet
           \/ pc = "ad.post" /\ next = "ad.read" /\ S = req[r].scope
           \/ pc = "creative.post" /\ next = "creative.insert" /\ S = Creative,
           PostNew(r, pc, next, S), Alone(r), AloneOK
    PROVE  AloneOK' /\ (OursOK => OursOK')
<1>1. PICK o \in S : /\ remote[o] = None
                     /\ remote' = [remote EXCEPT ![o] = req[r].status]
                     /\ uses' = IF o \in Ad THEN [uses EXCEPT ![o] = req[r].creative] ELSE uses
                     /\ req' = [req EXCEPT ![r].pc = next, ![r].obj = o]
                     /\ Touch({o}, r)
  BY DEF PostNew
<1>2. TypeOK /\ FlightOK(r) /\ req[r] \in ReqState /\ next \in Pc /\ req[r].pc = pc
      /\ UNCHANGED <<local, ref>> /\ RowsKnown
  BY ReqType DEF Inv, Pc, PostNew, At, Rows
<1>3. o \in Object /\ (pc = "ad.post" => o \in Ad)
  BY <1>2 DEF FlightOK, KindOK, Object
<1>4. /\ Others(r)
      /\ req'[r].pc = next /\ req'[r].obj = o /\ req'[r].status = req[r].status
      /\ req'[r].creative = req[r].creative /\ req'[r].lost = req[r].lost
  <2>1. NowAbout(r, next, o)
    BY <1>1 DEF NowAbout
  <2>2. QED BY <1>2, <1>3, <2>1, ObjMoves
<1>5. req[r].status \in Running /\ remote'[o] = req[r].status
      /\ \A x \in Object \ {o} : remote'[x] = remote[x]
  BY <1>1, <1>2, <1>3 DEF FlightOK, KnownOK, TypeOK
<1>6. \A a \in Ad : uses'[a] = IF a = o THEN req[r].creative ELSE uses[a]
  BY <1>1, <1>2 DEF TypeOK
<1>7. AloneFlight(r)'
  BY <1>4 DEF AloneFlight
<1>8. AloneOK'
  BY <1>1, <1>2, <1>4, <1>5, <1>7, AloneFrame DEF AloneOK, Object, Status, Running
<1>9. ASSUME OursOK PROVE OursOK'
  <2>1. OursFlight(r) /\ \A x \in Object : Exact(x)
    BY <1>2, <1>9, OursHas DEF Carries
  <2>2. Exact(o)'
    BY <1>1, <1>2, <1>3, NoRowIsExactNext DEF RowsKnown
  <2>3. \A x \in Object : Exact(x)'
    BY <1>2, <1>5, <1>6, <2>1, <2>2, ExactStays
  <2>4. OursFlight(r)'
    BY <1>2, <1>3, <1>4, <1>5, <1>6, <2>1 DEF OursFlight
  <2>5. QED BY <1>4, <2>3, <2>4, OursFrame
<1>10. QED BY <1>8, <1>9

LEMMA PostChangeAlone ==
    ASSUME Inv, NEW r \in Request, NEW pc, NEW next,
           \/ pc = "adset.patch" /\ next = "adset.reread"
           \/ pc = "ad.patch" /\ next = "ad.reread",
           PostChange(r, pc, next), Alone(r), AloneOK
    PROVE  AloneOK' /\ (OursOK => OursOK')
<1> PICK o : o = req[r].obj
  OBVIOUS
<1>1. TypeOK /\ FlightOK(r) /\ req[r] \in ReqState /\ next \in Pc /\ req[r].pc = pc
      /\ UNCHANGED <<local, ref>>
  BY ReqType DEF Inv, Pc, PostChange, At, Rows
<1>2. CASE remote[o] \notin Running
  <2>1. Finish(r) /\ UNCHANGED <<AtMeta, Rows>>
    BY <1>2 DEF PostChange
  <2>2. \A x \in Object : ~Carries(r, x)
    BY <1>1 DEF Carries
  <2>3. QED BY <2>1, <2>2, EndsAlone
<1>3. CASE remote[o] \in Running
  <2>1. /\ remote' = [remote EXCEPT ![o] = req[r].status]
        /\ uses' = IF req[r].creative # None THEN [uses EXCEPT ![o] = req[r].creative] ELSE uses
        /\ Goto(r, next) /\ Touch({o}, r)
    BY <1>3 DEF PostChange
  <2>2. /\ Others(r) /\ req'[r].pc = next /\ req'[r].obj = o /\ req'[r].lost = req[r].lost
        /\ req'[r].creative = req[r].creative /\ req'[r].keep = req[r].keep
    BY <1>1, <2>1, GotoMoves
  <2>3. o \in Object /\ (pc = "ad.patch" => o \in Ad)
    BY <1>1 DEF FlightOK, KindOK, Object
  <2>4. remote[o] # "DELETED" /\ \A x \in Object \ {o} : remote'[x] = remote[x]
    BY <1>1, <1>3, <2>1 DEF TypeOK, Running
  <2>5. \A a \in Ad : uses'[a] = IF a = o /\ req[r].creative # None THEN req[r].creative ELSE uses[a]
    BY <1>1, <2>1 DEF TypeOK
  <2>6. AloneFlight(r)'
    BY <2>2 DEF AloneFlight
  <2>7. AloneOK'
    BY <1>1, <2>2, <2>3, <2>4, <2>6, AloneFrame DEF AloneOK, Object
  <2>8. ASSUME OursOK PROVE OursOK'
    <3>1. OursFlight(r) /\ \A x \in Object : Exact(x)
      BY <1>1, <2>8, OursHas DEF Carries
    <3>2. Exact(o)' \/ Carries(r, o)'
      <4>1. CASE req[r].lost
        BY <1>1, <2>3, <3>1, <4>1, NoRowIsExactNext DEF OursFlight, NoObject, Status, Object, Running
      <4>2. CASE ~req[r].lost
        BY <2>2, <4>2 DEF Carries
      <4>3. QED BY <4>1, <4>2
    <3>3. \A x \in Object : Exact(x)' \/ Carries(r, x)'
      BY <1>1, <2>4, <2>5, <3>1, <3>2, ExactStays
    <3>4. OursFlight(r)'
      BY <1>1, <2>2, <2>3, <2>5, <3>1 DEF OursFlight
    <3>5. QED BY <2>2, <3>3, <3>4, OursFrame
  <2>9. QED BY <2>7, <2>8
<1>4. QED BY <1>2, <1>3

LEMMA ReadOneAlone ==
    ASSUME Inv, NEW r \in Request, NEW pc, NEW next,
           \/ pc = "adset.read" /\ next = "adset.insert"
           \/ pc = "adset.reread" /\ next = "adset.store"
           \/ pc = "ad.read" /\ next = "ad.insert"
           \/ pc = "ad.reread" /\ next = "ad.store",
           ReadOne(r, pc, next), Alone(r), AloneOK
    PROVE  AloneOK' /\ (OursOK => OursOK')
<1>1. TypeOK /\ FlightOK(r) /\ next \in Pc /\ req[r].pc = pc
      /\ UNCHANGED <<remote, uses, local, ref, touched>>
  BY DEF Inv, Pc, ReadOne, At, Rows, AtMeta
<1>2. remote[req[r].obj] \in Status \cup {None}
  BY <1>1 DEF FlightOK, KindOK, Object, TypeOK
<1>3. /\ Others(r)
      /\ req'[r].pc = next /\ req'[r].obj = req[r].obj /\ req'[r].status = remote[req[r].obj]
      /\ req'[r].creative = req[r].creative /\ req'[r].keep = req[r].keep
      /\ req'[r].lost = req[r].lost
  <2>1. PICK s \in Status \cup {None} : s = remote[req[r].obj]
    BY <1>2
  <2>2. NowKnows(r, next, s)
    BY <2>1 DEF ReadOne, NowKnows
  <2>3. QED BY <1>1, <2>1, <2>2, StatusMoves
<1>4. AloneFlight(r)'
  BY <1>3 DEF AloneFlight
<1>5. ASSUME OursOK PROVE OursOK'
  <2>1. OursFlight(r) /\ \A x \in Object : Exact(x) \/ Carries(r, x)
    BY <1>5, OursHas
  <2>2. \A x \in Object : Carries(r, x) => Carries(r, x)'
    BY <1>1, <1>3 DEF Carries
  <2>3. \A x \in Object : Exact(x)' \/ Carries(r, x)'
    BY <1>1, <2>1, <2>2, ExactStays
  <2>4. OursFlight(r)'
    BY <1>1, <1>3, <2>1 DEF OursFlight
  <2>5. QED BY <1>3, <2>3, <2>4, OursFrame
<1>6. QED BY <1>1, <1>3, <1>4, <1>5, AloneFrame DEF AloneOK

LEMMA DeleteOneAlone ==
    ASSUME Inv, NEW r \in Request, NEW pc, NEW next,
           \/ pc = "adset.delete" /\ next = "adset.mark"
           \/ pc = "ad.delete" /\ next = "ad.mark"
           \/ pc = "creative.delete" /\ next = "creative.drop",
           DeleteOne(r, pc, next), Alone(r), AloneOK
    PROVE  AloneOK' /\ (OursOK => OursOK')
<1> PICK o : o = req[r].obj
  OBVIOUS
<1>1. TypeOK /\ FlightOK(r) /\ next \in Pc /\ req[r].pc = pc
      /\ UNCHANGED <<uses, local, ref>>
  BY DEF Inv, Pc, DeleteOne, At, Rows
<1>2. CASE Finish(r) /\ UNCHANGED <<remote, touched>>
  <2>1. \A x \in Object : ~Carries(r, x)
    BY <1>1 DEF Carries
  <2>2. QED BY <1>1, <1>2, <2>1, EndsAlone DEF AtMeta, Rows
<1>3. CASE remote' = [remote EXCEPT ![o] = "DELETED"] /\ Goto(r, next) /\ Touch({o}, r)
  <2>1. /\ Others(r) /\ req'[r].pc = next /\ req'[r].obj = o /\ req'[r].lost = req[r].lost
    BY <1>1, <1>3, GotoMoves
  <2>2. o \in Object /\ \A x \in Object : remote'[x] = IF x = o THEN "DELETED" ELSE remote[x]
    BY <1>1, <1>3 DEF FlightOK, KindOK, Object, TypeOK
  <2>3. AloneFlight(r)'
    BY <1>1, <2>1 DEF AloneFlight, AloneOK, Users
  <2>4. AloneOK'
    BY <1>1, <2>1, <2>2, <2>3, AloneFrame DEF AloneOK, Object
  <2>5. ASSUME OursOK PROVE OursOK'
    <3>1. OursFlight(r) /\ \A x \in Object : Exact(x)
      BY <1>1, <2>5, OursHas DEF Carries
    <3>2. Exact(o)' \/ Carries(r, o)'
      <4>1. CASE req[r].lost
        BY <1>1, <2>2, <3>1, <4>1, NoRowIsExactNext DEF OursFlight, NoObject, Status, Object, Running
      <4>2. CASE ~req[r].lost
        BY <2>1, <4>2 DEF Carries
      <4>3. QED BY <4>1, <4>2
    <3>3. \A x \in Object : Exact(x)' \/ Carries(r, x)'
      BY <1>1, <2>2, <3>1, <3>2, ExactStays
    <3>4. OursFlight(r)'
      BY <1>1, <2>1, <3>1 DEF OursFlight
    <3>5. QED BY <2>1, <3>3, <3>4, OursFrame
  <2>6. QED BY <2>4, <2>5
<1>4. QED BY <1>2, <1>3 DEF DeleteOne

\* A row is written with what Meta said of its object, and with its creative;
\* in calm times the write does not fail but for the account row.
LEMMA StoreAlone ==
    ASSUME Inv, NEW r \in Request, NEW pc, NEW s \in Status, NEW k \in Creative \cup {None},
           Store(r, pc, s, k), req[r].obj \in Object,
           s = "DELETED" => remote[req[r].obj] = "DELETED",
           OursOK => /\ s = remote[req[r].obj]
                     /\ req[r].obj \in Ad => k \in {None, uses[req[r].obj]} \/ s = "DELETED"
                     /\ req[r].obj \in Creative => remote[req[r].obj] \in Running
                     /\ ~req[r].lost /\ k # None /\ local[k] = None => Exact(req[r].obj),
           Alone(r), AloneOK
    PROVE  AloneOK' /\ (OursOK => OursOK')
<1> PICK o : o = req[r].obj
  OBVIOUS
<1>1. /\ Others(r) /\ req'[r].pc = "idle" /\ req'[r] = Idle /\ UNCHANGED <<remote, uses>>
      /\ Finish(r)
  BY FinishMoves DEF Store, Inv, AtMeta, Finish, TypeOK
<1>2. CASE req[r].lost \/ (k # None /\ local[k] = None)
  <2>1. UNCHANGED <<AtMeta, Rows>>
    BY <1>2 DEF Store
  <2>2. ASSUME OursOK, NEW x \in Object, Carries(r, x) PROVE Exact(x)
    <3>1. x = o /\ ~req[r].lost
      BY <2>2 DEF Carries
    <3>2. QED BY <1>2, <2>2, <3>1
  <2>3. QED BY <1>1, <2>1, <2>2, EndsAlone
<1>3. CASE ~(req[r].lost \/ (k # None /\ local[k] = None))
  <2>1. /\ local' = [local EXCEPT ![o] = s]
        /\ ref' = IF o \in Ad THEN [ref EXCEPT ![o] = k] ELSE ref
    BY <1>3 DEF Store
  <2>2. /\ \A x \in Object : local'[x] = IF x = o THEN s ELSE local[x]
        /\ \A a \in Ad : ref'[a] = IF a = o THEN k ELSE ref[a]
    BY <2>1 DEF Inv, TypeOK
  <2>3. AloneFlight(r)' /\ OursFlight(r)'
    BY <1>1 DEF AloneFlight, OursFlight
  <2>4. AloneOK'
    BY <1>1, <2>2, <2>3, AloneFrame DEF AloneOK, Object
  <2>5. ASSUME OursOK PROVE OursOK'
    <3>1. \A x \in Object \ {o} : Exact(x)
      BY <2>5, OursHas DEF Carries
    <3>2. Exact(o)'
      BY <1>1, <2>2, <2>5 DEF Exact, Shown, Running, Status, Object
    <3>3. \A x \in Object : Exact(x)'
      BY <1>1, <2>2, <3>1, <3>2, ExactStays
    <3>4. QED BY <1>1, <2>3, <3>3, OursFrame
  <2>6. QED BY <2>4, <2>5
<1>4. QED BY <1>2, <1>3

LEMMA InsertAlone ==
    ASSUME Inv, NEW r \in Request, NEW pc \in {"adset.insert", "ad.insert", "creative.insert"},
           Insert(r, pc), Alone(r), AloneOK
    PROVE  AloneOK' /\ (OursOK => OursOK')
<1>1. /\ req[r].pc = pc /\ FlightOK(r)
      /\ req[r].obj \in Object /\ req[r].status \in Status
      /\ req[r].creative \in Creative \cup {None}
      /\ req[r].obj \in Ad <=> req[r].pc = "ad.insert"
  BY StoreTarget DEF Insert, At, Inv
<1>2. CASE local[req[r].obj] = None
  <2>1. Store(r, pc, req[r].status, req[r].creative)
    BY <1>2 DEF Insert
  <2>2. req[r].status = "DELETED" => remote[req[r].obj] = "DELETED"
    BY <1>1 DEF FlightOK, KnownOK
  <2>3. ASSUME OursOK
        PROVE  /\ req[r].status = remote[req[r].obj]
               /\ req[r].obj \in Ad => req[r].creative \in {None, uses[req[r].obj]}
               /\ req[r].obj \in Creative => remote[req[r].obj] \in Running
    <3>1. OursFlight(r)
      BY <2>3, OursHas
    <3>2. req[r].obj \in Creative => pc = "creative.insert"
      BY <1>1 DEF FlightOK, KindOK
    <3>3. QED BY <1>1, <3>1, <3>2 DEF OursFlight
  <2>4. Exact(req[r].obj)
    BY <1>2, NoRowIsExact
  <2>5. QED BY <1>1, <2>1, <2>2, <2>3, <2>4, StoreAlone
<1>3. CASE local[req[r].obj] # None
  <2>1. Finish(r) /\ UNCHANGED <<AtMeta, Rows>>
    BY <1>3 DEF Insert
  <2>2. \A x \in Object : ~Carries(r, x)
    BY <1>1 DEF Carries
  <2>3. QED BY <2>1, <2>2, EndsAlone
<1>4. QED BY <1>2, <1>3

LEMMA UpdatedAlone ==
    ASSUME Inv, NEW r \in Request, AdSetStore(r) \/ AdStore(r), Alone(r), AloneOK
    PROVE  AloneOK' /\ (OursOK => OursOK')
<1> DEFINE o == req[r].obj
           k == IF req[r].creative # None THEN req[r].creative ELSE req[r].keep
<1>1. /\ req[r].pc \in {"adset.store", "ad.store"}
      /\ AdSetStore(r) => req[r].pc = "adset.store"
      /\ AdStore(r) => req[r].pc = "ad.store"
  BY DEF AdSetStore, AdStore, Store, At
<1>2. /\ o \in Object /\ req[r].status \in Status /\ k \in Creative \cup {None}
      /\ o \in Ad <=> req[r].pc = "ad.store"
      /\ req[r].status = "DELETED" => remote[o] = "DELETED"
      /\ o \notin Creative
  <2>1. FlightOK(r)
    BY DEF Inv
  <2>2. o \notin Creative /\ (req[r].status = "DELETED" => remote[o] = "DELETED")
    BY <1>1, <2>1 DEF FlightOK, KindOK, KnownOK
  <2>3. QED BY <1>1, <2>2, StoreTarget
<1>3. ASSUME OursOK
      PROVE  /\ req[r].status = remote[o]
             /\ req[r].pc = "ad.store" =>
                    /\ k \in {None, uses[o]}
                    /\ ~req[r].lost /\ k # None => local[k] # None
  <2>1. OursFlight(r)
    BY <1>3, OursHas
  <2>2. req[r].status = remote[o]
    BY <1>1, <2>1 DEF OursFlight
  <2>3. ASSUME req[r].pc = "ad.store"
        PROVE  /\ k \in {None, uses[o]}
               /\ ~req[r].lost /\ k # None => local[k] # None
    BY <2>1, <2>3 DEF OursFlight
  <2>4. QED BY <2>2, <2>3
<1> HIDE DEF k
<1>4. CASE AdSetStore(r)
  <2>1. Store(r, "adset.store", req[r].status, None) /\ o \notin Ad
    BY <1>1, <1>2, <1>4 DEF AdSetStore
  <2>2. QED BY <1>2, <1>3, <2>1, StoreAlone
<1>5. CASE AdStore(r)
  <2>1. Store(r, "ad.store", req[r].status, k) /\ req[r].pc = "ad.store"
    BY <1>1, <1>5 DEF AdStore, k
  <2>2. QED BY <1>2, <1>3, <2>1, StoreAlone
<1>6. QED BY <1>4, <1>5

LEMMA MarkedAlone ==
    ASSUME Inv, NEW r \in Request, AdSetMarkDeleted(r) \/ AdMarkDeleted(r), Alone(r), AloneOK
    PROVE  AloneOK' /\ (OursOK => OursOK')
<1> DEFINE o == req[r].obj
<1>1. /\ req[r].pc \in {"adset.mark", "ad.mark"}
      /\ AdSetMarkDeleted(r) => req[r].pc = "adset.mark"
      /\ AdMarkDeleted(r) => req[r].pc = "ad.mark"
  BY DEF AdSetMarkDeleted, AdMarkDeleted, Store, At
<1>2. /\ o \in Object /\ remote[o] = "DELETED" /\ o \notin Creative /\ "DELETED" \in Status
      /\ o \in Ad <=> req[r].pc = "ad.mark"
  BY <1>1 DEF Inv, FlightOK, KindOK, KnownOK, Object, Status
<1>3. CASE AdSetMarkDeleted(r)
  <2>1. Store(r, "adset.mark", "DELETED", None) /\ o \notin Ad
    BY <1>1, <1>2, <1>3 DEF AdSetMarkDeleted
  <2>2. QED BY <1>2, <2>1, StoreAlone
<1>4. CASE AdMarkDeleted(r)
  <2>1. Store(r, "ad.mark", "DELETED", ref[o])
    BY <1>4 DEF AdMarkDeleted
  <2>2. ref[o] \in Creative \cup {None} /\ (ref[o] # None => local[ref[o]] # None)
    BY <1>1, <1>2, <1>4 DEF Inv, TypeOK
  <2>3. QED BY <1>2, <2>1, <2>2, StoreAlone
<1>5. QED BY <1>3, <1>4

LEMMA CreativeDropAlone ==
    ASSUME Inv, NEW r \in Request, CreativeDrop(r), Alone(r), AloneOK
    PROVE  AloneOK' /\ (OursOK => OursOK')
<1> DEFINE k == req[r].obj
<1>1. /\ Others(r) /\ req'[r].pc = "idle" /\ UNCHANGED <<remote, uses>> /\ Finish(r)
      /\ req[r].pc = "creative.drop"
  BY FinishMoves DEF CreativeDrop, Inv, AtMeta, At
<1>2. k \in Creative /\ k \in Object
  BY <1>1 DEF Inv, FlightOK, KindOK, Object
<1>3. CASE req[r].lost \/ local[k] = None
  <2>1. UNCHANGED <<AtMeta, Rows>>
    BY <1>3 DEF CreativeDrop
  <2>2. \A x \in Object : Carries(r, x) => Exact(x)
    BY <1>3, NoRowIsExact DEF Carries
  <2>3. QED BY <1>1, <2>1, <2>2, EndsAlone
<1>4. CASE ~(req[r].lost \/ local[k] = None)
  <2>1. /\ local' = [local EXCEPT ![k] = None]
        /\ ref' = [a \in Ad |-> IF ref[a] = k THEN None ELSE ref[a]]
    BY <1>4 DEF CreativeDrop
  <2>2. /\ \A x \in Object : local'[x] = IF x = k THEN None ELSE local[x]
        /\ \A a \in Ad : ref'[a] = IF ref[a] = k THEN None ELSE ref[a]
    BY <2>1 DEF Inv, TypeOK
  <2>3. AloneFlight(r)' /\ OursFlight(r)'
    BY <1>1 DEF AloneFlight, OursFlight
  <2>4. AloneOK'
    BY <1>1, <1>2, <2>2, <2>3, AloneFrame DEF AloneOK, Object
  <2>5. ASSUME OursOK PROVE OursOK'
    <3>1. \A x \in Object \ {k} : Exact(x)
      BY <2>5, OursHas DEF Carries
    <3>2. ASSUME NEW x \in Object PROVE Exact(x)'
      <4>1. CASE x = k
        BY <2>2, <4>1, NoRowIsExactNext
      <4>2. CASE x # k
        BY <1>1, <2>2, <3>1, <4>2 DEF Exact, Shown
      <4>3. QED BY <4>1, <4>2
    <3>3. QED BY <1>1, <2>3, <3>2, OursFrame
  <2>6. QED BY <2>4, <2>5
<1>5. QED BY <1>3, <1>4

LEMMA AccountReplacedAlone ==
    ASSUME Inv, AccountReplaced, AloneOK
    PROVE  AloneOK' /\ (OursOK => OursOK')
<1>1. /\ local' = NoObject /\ UNCHANGED <<remote, uses>>
      /\ req' = [r \in Request |-> IF At(r, "idle") THEN Idle ELSE [req[r] EXCEPT !.lost = TRUE]]
  BY DEF AccountReplaced, AtMeta
<1>2. ASSUME NEW r \in Request
      PROVE  \/ req'[r].pc = "idle"
             \/ /\ req'[r].lost /\ req'[r].pc = req[r].pc /\ req'[r].obj = req[r].obj
                /\ req'[r].status = req[r].status /\ req'[r].creative = req[r].creative
                /\ req'[r].keep = req[r].keep
  <2>1. CASE At(r, "idle")
    BY <1>1, <2>1, IdleType
  <2>2. CASE ~At(r, "idle")
    <3>1. req'[r] = [req[r] EXCEPT !.lost = TRUE]
      BY <1>1, <2>2
    <3>2. QED BY <3>1, ReqType DEF Inv, ReqState
  <2>3. QED BY <2>1, <2>2
<1>3. \A o \in Object : local'[o] = None
  BY <1>1 DEF NoObject
<1>4. \A r \in Request : AloneFlight(r)'
  BY <1>2 DEF AloneFlight
<1>5. AloneOK'
  BY <1>3, <1>4 DEF AloneOK, Object, Status
<1>6. ASSUME OursOK PROVE OursOK'
  <2>1. ASSUME NEW r \in Request PROVE OursFlight(r)'
    <3>1. OursFlight(r)
      BY <1>6 DEF OursOK
    <3>2. local' = NoObject'
      BY <1>1 DEF NoObject
    <3>3. QED BY <1>1, <1>2, <3>1, <3>2 DEF OursFlight
  <2>2. \A o \in Object : Exact(o)'
    BY <1>3, NoRowIsExactNext
  <2>3. QED BY <2>1, <2>2 DEF OursOK
<1>7. QED BY <1>5, <1>6

LEMMA ElsewhereAlone == ASSUME Inv, Elsewhere, AloneOK PROVE AloneOK'
<1> PICK o \in Object, s \in Status, k \in Creative \cup {None} : ElsewhereChange(o, s, k)
  BY DEF Elsewhere
<1>1. /\ remote[o] \in Running \/ (remote[o] = None /\ s \in Running)
      /\ remote' = [remote EXCEPT ![o] = s]
      /\ UNCHANGED <<local, ref, req>>
  BY DEF ElsewhereChange, Rows
<1>2. \A x \in Object : remote[x] = "DELETED" => remote'[x] = "DELETED"
  BY <1>1 DEF Inv, TypeOK, Running, Status
<1>3. \A r \in Request : AloneFlight(r)'
  <2> TAKE r \in Request
  <2>1. AloneFlight(r) /\ req[r].scope \subseteq Object
    BY ReqType DEF AloneOK, Inv, ReqState
  <2>2. QED BY <1>1, <1>2, <2>1 DEF AloneFlight, Users
<1>4. QED BY <1>1, <1>2, <1>3 DEF AloneOK, Object

LEMMA CrashAlone == ASSUME Inv, NEW r \in Request, Crash(r), AloneOK PROVE AloneOK'
<1>1. Others(r) /\ req'[r].pc = "idle" /\ UNCHANGED <<remote, local, ref>>
  BY FinishMoves DEF Crash, Inv, AtMeta, Rows
<1>2. \A p \in Request : AloneFlight(p)'
  BY <1>1 DEF AloneOK, AloneFlight, Others, Users
<1>3. QED BY <1>1, <1>2 DEF AloneOK

Handles(r) == AdSets(r) \/ Ads(r) \/ Creatives(r) \/ SyncDone(r)

\* A handler is at work before its step or after it: alone, it is the only one.
LEMMA AloneMoves ==
    ASSUME Inv, NEW r \in Request, Handles(r), ~Overlapping, ~Overlapping'
    PROVE  Alone(r)
<1>1. Others(r)
  BY OwnRecord DEF Handles
<1>2. req[r].pc # "idle" \/ Opens(r)
  <2>1. CASE AdSets(r)
    BY <2>1, AdSetOpens DEF AdSets, At, AdSetFetch, AdSetUpsert, AdSetMark, AdSetPost,
         AdSetRead, AdSetInsert, AdSetPatch, AdSetReread, AdSetStore, AdSetRemove,
         AdSetMarkDeleted, ReadListing, MarkMissing, PostNew, PostChange, ReadOne,
         DeleteOne, Store, Insert
  <2>2. CASE Ads(r)
    BY <2>2, AdOpens DEF Ads, At, AdFetch, AdResolve, AdUpsert, AdMark, AdPost, AdRead,
         AdInsert, AdPatch, AdReread, AdStore, AdRemove, AdMarkDeleted, ReadListing,
         MarkMissing, PostNew, PostChange, ReadOne, DeleteOne, Store, Insert
  <2>3. CASE Creatives(r)
    BY <2>3, CreativeOpens DEF Creatives, At, CreativeFetch, CreativeUpsert, CreativeSyncEnd,
         CreativePost, CreativeInsert, CreativeRemove, CreativeDrop, ReadListing, PostNew,
         DeleteOne, Store, Insert
  <2>4. CASE SyncDone(r)
    BY <2>4 DEF SyncDone, At
  <2>5. QED BY <2>1, <2>2, <2>3, <2>4 DEF Handles
<1>3. ASSUME Opens(r) PROVE req'[r].pc # "idle"
  <2>1. PICK q \in ReqState : Start(r, q) /\ Opening(q)
    BY <1>3 DEF Opens
  <2>2. req'[r] = q
    BY <2>1, Moves DEF Start, Inv
  <2>3. QED BY <2>1, <2>2 DEF Opening
<1>4. QED BY <1>1, <1>2, <1>3 DEF Overlapping, Others, Alone

LEMMA HandlesAlone ==
    ASSUME Inv, NEW r \in Request, Handles(r), Alone(r), AloneOK
    PROVE  AloneOK' /\ (OursOK => OursOK')
<1>1. ASSUME Opens(r) PROVE AloneOK' /\ (OursOK => OursOK')
  BY <1>1, OpensAlone
<1>2. ASSUME Finish(r), UNCHANGED <<AtMeta, Rows>>,
             req[r].pc \in {"ad.post", "ad.patch", "synced"}
      PROVE  AloneOK' /\ (OursOK => OursOK')
  <2>1. \A o \in Object : ~Carries(r, o)
    BY <1>2 DEF Carries
  <2>2. QED BY <1>2, <2>1, EndsAlone
<1>3. CASE AdSets(r)
  <2>1. CASE \/ AdSetSyncStart(r)
             \/ \E s \in Running : AdSetCreateStart(r, s)
             \/ \E o \in AdSet, s \in Running : AdSetUpdateStart(r, o, s)
             \/ \E o \in AdSet : AdSetDeleteStart(r, o)
    BY <2>1, <1>1, AdSetOpens
  <2>2. CASE AdSetFetch(r)
    BY <2>2, ReadListingAlone DEF AdSetFetch
  <2>3. CASE AdSetUpsert(r)
    <3>1. PICK o \in req[r].todo : Upsert(r, o, None, "adsets.write")
                                   /\ req[r].pc = "adsets.write"
      BY <2>3 DEF AdSetUpsert, At
    <3>2. QED BY <3>1, UpsertAlone
  <2>4. CASE AdSetMark(r)
    BY <2>4, MarkMissingAlone DEF AdSetMark
  <2>5. CASE AdSetPost(r)
    BY <2>5, PostNewAlone DEF AdSetPost
  <2>6. CASE AdSetRead(r) \/ AdSetReread(r)
    BY <2>6, ReadOneAlone DEF AdSetRead, AdSetReread
  <2>7. CASE AdSetInsert(r)
    BY <2>7, InsertAlone DEF AdSetInsert
  <2>8. CASE AdSetPatch(r)
    BY <2>8, PostChangeAlone DEF AdSetPatch
  <2>9. CASE AdSetRemove(r)
    BY <2>9, DeleteOneAlone DEF AdSetRemove
  <2>10. QED BY <1>3, <2>1, <2>2, <2>3, <2>4, <2>5, <2>6, <2>7, <2>8, <2>9, UpdatedAlone,
               MarkedAlone DEF AdSets
<1>4. CASE Ads(r)
  <2>1. CASE \/ \E s \in AdSet : AdSyncStart(r, s)
             \/ \E s \in AdSet, k \in Creative, t \in Running : AdCreateStart(r, s, k, t)
             \/ \E a \in Ad, s \in Running, k \in Creative \cup {None} : AdUpdateStart(r, a, s, k)
             \/ \E a \in Ad : AdDeleteStart(r, a)
    BY <2>1, <1>1, AdOpens
  <2>2. CASE AdFetch(r)
    BY <2>2, ReadListingAlone DEF AdFetch
  <2>3. CASE AdUpsert(r)
    <3>1. /\ Upsert(r, req[r].obj, req[r].creative, "ads.resolve") /\ req[r].pc = "ads.write"
          /\ req[r].obj \in req[r].todo
      BY <2>3 DEF AdUpsert, At, Inv, FlightOK, KindOK
    <3>2. QED BY <3>1, UpsertAlone
  <2>4. CASE AdMark(r)
    BY <2>4, MarkMissingAlone DEF AdMark
  <2>5. CASE AdPost(r)
    <3>1. CASE PostNew(r, "ad.post", "ad.read", req[r].scope)
      BY <3>1, PostNewAlone
    <3>2. CASE Finish(r) /\ UNCHANGED <<AtMeta, Rows, touched>>
      BY <1>2, <2>5, <3>2 DEF AdPost, At
    <3>3. QED BY <2>5, <3>1, <3>2 DEF AdPost
  <2>6. CASE AdRead(r) \/ AdReread(r)
    BY <2>6, ReadOneAlone DEF AdRead, AdReread
  <2>7. CASE AdInsert(r)
    BY <2>7, InsertAlone DEF AdInsert
  <2>8. CASE AdPatch(r)
    <3>1. CASE PostChange(r, "ad.patch", "ad.reread")
      BY <3>1, PostChangeAlone
    <3>2. CASE Finish(r) /\ UNCHANGED <<AtMeta, Rows, touched>>
      BY <1>2, <2>8, <3>2 DEF AdPatch, At
    <3>3. QED BY <2>8, <3>1, <3>2 DEF AdPatch
  <2>9. CASE AdRemove(r)
    BY <2>9, DeleteOneAlone DEF AdRemove
  <2>10. QED BY <1>4, <2>1, <2>2, <2>3, <2>4, <2>5, <2>6, <2>7, <2>8, <2>9, AdResolveAlone,
               UpdatedAlone, MarkedAlone DEF Ads
<1>5. CASE Creatives(r)
  <2>1. CASE \/ CreativeSyncStart(r)
             \/ CreativeCreateStart(r)
             \/ \E k \in Creative : CreativeDeleteStart(r, k)
    BY <2>1, <1>1, CreativeOpens
  <2>2. CASE CreativeFetch(r)
    BY <2>2, ReadListingAlone DEF CreativeFetch
  <2>3. CASE CreativeUpsert(r)
    <3>1. PICK k \in req[r].todo : Upsert(r, k, None, "creatives.write")
                                   /\ req[r].pc = "creatives.write"
      BY <2>3 DEF CreativeUpsert, At
    <3>2. QED BY <3>1, UpsertAlone
  <2>4. CASE CreativePost(r)
    BY <2>4, PostNewAlone DEF CreativePost
  <2>5. CASE CreativeInsert(r)
    BY <2>5, InsertAlone DEF CreativeInsert
  <2>6. CASE CreativeRemove(r)
    BY <2>6, DeleteOneAlone DEF CreativeRemove
  <2>7. QED BY <1>5, <2>1, <2>2, <2>3, <2>4, <2>5, <2>6, CreativeSyncEndAlone,
               CreativeDropAlone DEF Creatives
<1>6. CASE SyncDone(r)
  BY <1>2, <1>6 DEF SyncDone, At
<1>7. QED BY <1>3, <1>4, <1>5, <1>6 DEF Handles

-----------------------------------------------------------------------------
(* The behaviours of MCAdHierarchy.                                        *)

MCInv ==
    /\ Inv
    /\ mode \in {"overlap", "alone", "ours", "insights"}
    /\ mode # "overlap" => AloneOK /\ ~Overlapping
    /\ mode = "ours" => OursOK

LEMMA HierarchyMoves == [MCNext]_<<vars, insights, mode>> => [Next]_vars
  BY DEF MCNext, Next, vars

LEMMA MCInitInv == MCInit => MCInv
<1> SUFFICES ASSUME MCInit PROVE MCInv
  OBVIOUS
<1>1. /\ remote \in [Object -> {"ACTIVE", None}] /\ uses \in [Ad -> Creative \cup {None}]
      /\ local \in {NoObject, remote} /\ ref = NoCreative
      /\ req = [r \in Request |-> Idle] /\ touched = [r \in Request |-> {}]
      /\ \A a \in Ad : local[a] = None
      /\ mode = "ours" => local = NoObject
  BY DEF MCInit, Init, InitSynced, NoObject, NoCreative, Object
<1>2. remote \in [Object -> Status \cup {None}]
  BY <1>1 DEF Status, Running
<1>3. Inv
  BY <1>1, <1>2, InitInv
<1>4. \A r \in Request : req[r].pc = "idle" /\ req[r] = Idle
  BY <1>1, IdleType
<1>5. ~Overlapping
  BY <1>4 DEF Overlapping
<1>6. AloneOK
  <2>1. \A o \in Object : local[o] # "DELETED"
    BY <1>1 DEF NoObject, Status
  <2>2. QED BY <1>4, <2>1 DEF AloneOK, AloneFlight, Object
<1>7. ASSUME mode = "ours" PROVE OursOK
  <2>1. \A o \in Object : Exact(o)
    BY <1>1, <1>7, NoRowIsExact DEF NoObject
  <2>2. QED BY <1>4, <2>1 DEF OursOK, OursFlight
<1>8. QED BY <1>3, <1>5, <1>6, <1>7 DEF MCInv, MCInit

LEMMA MCNextInv == MCInv /\ [MCNext]_<<vars, insights, mode>> => MCInv'
<1> SUFFICES ASSUME MCInv, [MCNext]_<<vars, insights, mode>> PROVE MCInv'
  OBVIOUS
<1>1. Inv /\ Inv' /\ mode' = mode
  BY HierarchyMoves, NextInv DEF MCInv, MCNext
<1>2. CASE UNCHANGED vars
  <2>1. UNCHANGED <<remote, uses, local, ref, req, touched>>
    BY <1>2 DEF vars
  <2>2. AloneOK => AloneOK'
    BY <2>1 DEF AloneOK, AloneFlight, Users
  <2>3. Overlapping' = Overlapping
    BY <2>1 DEF Overlapping
  <2>4. ASSUME OursOK PROVE OursOK'
    <3>1. NoObject' = NoObject
      BY DEF NoObject
    <3>2. \A r \in Request : OursFlight(r)'
      BY <2>1, <2>4, <3>1 DEF OursOK, OursFlight
    <3>3. \A o \in Object : Exact(o)' \/ \E r \in Request : Carries(r, o)'
      BY <2>1, <2>4 DEF OursOK, Exact, Shown, Carries
    <3>4. QED BY <3>2, <3>3 DEF OursOK
  <2>5. QED BY <1>1, <2>2, <2>3, <2>4 DEF MCInv
<1>3. CASE mode # "insights" /\ Allowed'
           /\ (Own \/ (mode # "ours" /\ (Elsewhere \/ \E r \in Request : Crash(r))))
  <2>1. CASE mode = "overlap"
    BY <1>1, <2>1 DEF MCInv
  <2>2. CASE mode # "overlap"
    <3>1. mode \in {"alone", "ours"}
      BY <1>1, <1>3, <2>2 DEF MCInv
    <3>2. AloneOK /\ ~Overlapping /\ ~Overlapping'
      BY <1>1, <1>3, <2>2, <3>1 DEF MCInv, Allowed
    <3>3. ASSUME NEW r \in Request, Handles(r) PROVE AloneOK' /\ (OursOK => OursOK')
      BY <1>1, <3>2, <3>3, AloneMoves, HandlesAlone
    <3>4. ASSUME AccountReplaced PROVE AloneOK' /\ (OursOK => OursOK')
      BY <1>1, <3>2, <3>4, AccountReplacedAlone
    <3>5. CASE Own
      BY <1>1, <2>2, <3>2, <3>3, <3>4, <3>5 DEF Own, Handles, MCInv
    <3>6. CASE mode # "ours" /\ (Elsewhere \/ \E r \in Request : Crash(r))
      BY <1>1, <3>2, <3>6, ElsewhereAlone, CrashAlone DEF MCInv
    <3>7. QED BY <1>3, <3>5, <3>6
  <2>3. QED BY <2>1, <2>2
<1>4. QED BY <1>2, <1>3 DEF MCNext

LEMMA MCInvariance == MCSpec => []MCInv
  BY MCInitInv, MCNextInv, PTL DEF MCSpec

\* While no two requests overlap, an ad set or ad that runs at Meta is never
\* shown as deleted, for any number of objects, crashes and changes in Meta's
\* own tools included (AdSetsService and AdsService, syncFor... and delete).
THEOREM DeletedTheorem == MCSpec => []AloneDeletedIsGone
<1>1. MCInv => AloneDeletedIsGone
  BY DEF MCInv, AloneOK, AloneDeletedIsGone, DeletedIsGone, Running
<1>2. QED BY <1>1, MCInvariance, PTL

\* Only metaflow, one request at a time and none cut short: what is shown is
\* what Meta has (schema.prisma: read-through cache).
THEOREM ExactTheorem == MCSpec => []OursIsExact
<1>1. MCInv => OursIsExact
  <2> SUFFICES ASSUME MCInv, mode = "ours", \A r \in Request : req[r].pc = "idle"
               PROVE  /\ \A o \in AdSet \cup Ad : local[o] # None => Shown(o)
                      /\ \A a \in Ad : local[a] \in Running => ref[a] \in {None, uses[a]}
                      /\ \A k \in Creative : local[k] # None => remote[k] \in Running
    BY DEF OursIsExact, SettledIsExact, At
  <2>1. \A o \in Object : Exact(o)
    BY DEF MCInv, OursOK, Carries
  <2>2. QED BY <2>1 DEF Exact, Object
<1>2. QED BY <1>1, MCInvariance, PTL

\* The step that drops a creative is taken by a handler that found no living ad
\* using it, and alone no ad has come to use it since.
LEMMA DropKeeps == MCInv /\ [MCNext]_<<vars, insights, mode>> /\ mode # "overlap" => KeepsCreative
<1> SUFFICES ASSUME MCInv, [MCNext]_<<vars, insights, mode>>, mode # "overlap",
                    NEW a \in Ad, local[a] \in Running, local'[a] \in Running,
                    ref[a] # None, ref'[a] = None,
                    NEW r \in Request, At(r, "creative.drop"), At(r, "idle")'
             PROVE  FALSE
  BY DEF KeepsCreative
<1>1. [Next]_vars /\ Inv /\ AloneOK /\ req[r].pc = "creative.drop" /\ req'[r] # req[r]
  BY HierarchyMoves DEF MCInv, At
<1>2. ~UNCHANGED vars /\ ~Elsewhere
  BY <1>1 DEF vars, Elsewhere, ElsewhereChange
<1>3. ~AccountReplaced
  BY DEF AccountReplaced, NoObject, Object, Running, Status
<1>4. PICK p \in Request : Handles(p) \/ Crash(p)
  BY <1>1, <1>2, <1>3 DEF Next, Own, Handles
<1>5. p = r
  BY <1>1, <1>4, OwnRecord DEF Others, Handles
<1>6. ~Crash(r)
  BY DEF Crash, Rows
<1>7. CreativeDrop(r)
  BY <1>1, <1>4, <1>5, <1>6 DEF Handles, At, Start, AdSets, Ads, Creatives, SyncDone,
     AdSetSyncStart, AdSetFetch, AdSetUpsert, AdSetMark, AdSetCreateStart, AdSetPost, AdSetRead,
     AdSetInsert, AdSetUpdateStart, AdSetPatch, AdSetReread, AdSetStore, AdSetDeleteStart,
     AdSetRemove, AdSetMarkDeleted, AdSyncStart, AdFetch, AdResolve, AdUpsert, AdMark,
     AdCreateStart, AdPost, AdRead, AdInsert, AdUpdateStart, AdPatch, AdReread, AdStore,
     AdDeleteStart, AdRemove, AdMarkDeleted, CreativeSyncStart, CreativeFetch, CreativeUpsert,
     CreativeSyncEnd, CreativeCreateStart, CreativePost, CreativeInsert, CreativeDeleteStart,
     CreativeRemove, ReadListing, MarkMissing, PostNew, PostChange, ReadOne, DeleteOne, Store,
     Insert
<1>8. ~req[r].lost /\ ref[a] = req[r].obj
  BY <1>7 DEF CreativeDrop, Rows
<1>9. Users(req[r].obj) = {}
  BY <1>1, <1>8 DEF AloneOK, AloneFlight
<1>10. QED BY <1>8, <1>9 DEF Users

\* Alone, the deletion of a creative takes it from no ad that is alive, for any
\* number of ads and creatives (the comment of CreativesService.delete).
THEOREM KeepsTheorem == MCSpec => AloneAdsKeepCreative
<1>1. MCInv /\ [MCNext]_<<vars, insights, mode>> => [mode # "overlap" => KeepsCreative]_vars
  BY DropKeeps
<1>2. QED BY <1>1, MCInvariance, PTL DEF MCSpec, AloneAdsKeepCreative

-----------------------------------------------------------------------------
(* Insights.                                                               *)

USE FiguresAssumption

SyncState ==
    [pc : {"idle", "fetch", "write", "synced"}, objects : SUBSET I!Object, days : SUBSET I!Day,
     todo : SUBSET I!Dates, read : [I!Object -> [I!Day -> 0..MaxFigure \cup {None}]]]

\* A sync under way is right about every day nobody else has written or
\* corrected: it has read what Meta says, and what it has written is that.
ReadingsOK(r) ==
    LET q == sync[r] IN
    /\ IsFiniteSet(q.objects) /\ IsFiniteSet(q.days)
    /\ q.pc = "write" /\ I!Cardinality(q.objects \X q.days) <= PageSize =>
           \A o \in q.objects, d \in q.days : <<o, d>> \notin changed[r] =>
              /\ q.read[o][d] = figure[o][d]
              /\ <<o, d>> \notin q.todo /\ row[o] # None => snap[o][d] = figure[o][d]

FiguresInv == I!InsightsTypeOK /\ \A r \in Request : ReadingsOK(r)

SyncOthers(r) == \A p \in Request \ {r} : sync'[p] = sync[p]

LEMMA SyncMoves ==
    ASSUME I!InsightsTypeOK, NEW r \in Request, NEW q \in SyncState,
           sync' = [sync EXCEPT ![r] = q]
    PROVE  sync' \in [Request -> SyncState] /\ sync'[r] = q /\ SyncOthers(r)
  BY DEF I!InsightsTypeOK, SyncState, SyncOthers

LEMMA SyncType ==
    /\ I!InsightsTypeOK => \A r \in Request : sync[r] \in SyncState
    /\ I!NoSync \in SyncState /\ I!NoSync.pc = "idle" /\ I!NoSync.objects = {} /\ I!NoSync.days = {}
<1>1. I!NoSnap \in [I!Object -> [I!Day -> 0..MaxFigure \cup {None}]]
  BY DEF I!NoSnap
<1>2. QED BY <1>1 DEF I!InsightsTypeOK, SyncState, I!NoSync

\* A sync of somebody else's is told about what a step of r changes, unless the
\* row of the object goes.
SyncTold(r) ==
    \A p \in Request \ {r} : sync[p].pc = "write" =>
        \A x \in I!Dates \ changed'[p] :
            /\ x \notin changed[p]
            /\ figure'[x[1]][x[2]] = figure[x[1]][x[2]]
            /\ snap'[x[1]][x[2]] = snap[x[1]][x[2]]
            /\ row'[x[1]] # None => row[x[1]] # None

LEMMA FiguresFrame ==
    ASSUME FiguresInv, NEW r \in Request \cup {None}, I!InsightsTypeOK', SyncOthers(r),
           SyncTold(r), r \in Request => ReadingsOK(r)'
    PROVE  FiguresInv'
<1>1. ASSUME NEW p \in Request \ {r} PROVE ReadingsOK(p)'
  <2>1. ReadingsOK(p) /\ sync'[p] = sync[p] /\ sync[p] \in SyncState
    BY SyncType DEF FiguresInv, SyncOthers
  <2>2. ASSUME sync[p].pc = "write", I!Cardinality(sync[p].objects \X sync[p].days) <= PageSize,
               NEW o \in sync[p].objects, NEW d \in sync[p].days, <<o, d>> \notin changed'[p]
        PROVE  /\ sync[p].read[o][d] = figure'[o][d]
               /\ <<o, d>> \notin sync[p].todo /\ row'[o] # None => snap'[o][d] = figure'[o][d]
    <3>1. <<o, d>> \in I!Dates
      BY <2>1 DEF SyncState, I!Dates
    <3>2. /\ <<o, d>> \notin changed[p] /\ figure'[o][d] = figure[o][d]
          /\ snap'[o][d] = snap[o][d] /\ (row'[o] # None => row[o] # None)
      BY <2>2, <3>1 DEF SyncTold
    <3>3. QED BY <2>1, <2>2, <3>2 DEF ReadingsOK
  <2>3. QED BY <2>1, <2>2 DEF ReadingsOK
<1>2. QED BY <1>1 DEF FiguresInv

LEMMA RestingSync ==
    ASSUME NEW r \in Request, sync'[r].pc # "write", IsFiniteSet(sync'[r].objects),
           IsFiniteSet(sync'[r].days)
    PROVE  ReadingsOK(r)'
  BY DEF ReadingsOK

\* Only the record of r, and what r has been told, is changed.
LEMMA SyncQuiet ==
    ASSUME FiguresInv, NEW r \in Request, sync' \in [Request -> SyncState], SyncOthers(r),
           UNCHANGED <<row, figure, snap>>, changed' \in [Request -> SUBSET I!Dates],
           \A p \in Request \ {r} : changed'[p] = changed[p], ReadingsOK(r)'
    PROVE  FiguresInv'
<1>1. I!InsightsTypeOK'
  BY DEF FiguresInv, I!InsightsTypeOK, SyncState
<1>2. SyncTold(r)
  BY DEF SyncTold
<1>3. QED BY <1>1, <1>2, FiguresFrame

LEMMA BeginInv ==
    ASSUME FiguresInv, NEW r \in Request, NEW objects \in SUBSET I!Object, IsFiniteSet(objects),
           NEW from \in I!Day, NEW to \in I!Day, I!Begin(r, objects, from, to)
    PROVE  FiguresInv'
<1> DEFINE q == [I!NoSync EXCEPT !.pc = "fetch", !.objects = objects, !.days = from..to]
<1>1. from..to \subseteq I!Day /\ IsFiniteSet(from..to)
  BY FS_Interval DEF I!Day
<1>2. q \in SyncState /\ q.pc = "fetch" /\ q.objects = objects /\ q.days = from..to
  BY <1>1, SyncType DEF SyncState
<1>3. sync' = [sync EXCEPT ![r] = q] /\ UNCHANGED <<row, figure, snap, changed>>
  BY DEF I!Begin
<1> HIDE DEF q
<1>4. sync' \in [Request -> SyncState] /\ sync'[r] = q /\ SyncOthers(r)
  BY <1>2, <1>3, SyncMoves DEF FiguresInv
<1>5. ReadingsOK(r)'
  BY <1>1, <1>2, <1>4, RestingSync
<1>6. QED BY <1>3, <1>4, <1>5, SyncQuiet DEF FiguresInv, I!InsightsTypeOK

\* A sync is over, or cut short.
LEMMA SyncGone ==
    ASSUME FiguresInv, NEW r \in Request, sync' = [sync EXCEPT ![r] = I!NoSync],
           UNCHANGED <<row, figure, snap>>, changed' \in [Request -> SUBSET I!Dates],
           \A p \in Request \ {r} : changed'[p] = changed[p]
    PROVE  FiguresInv'
<1>1. sync' \in [Request -> SyncState] /\ sync'[r] = I!NoSync /\ SyncOthers(r)
  BY SyncType, SyncMoves DEF FiguresInv
<1>2. ReadingsOK(r)'
  BY <1>1, SyncType, FS_EmptySet, RestingSync
<1>3. QED BY <1>1, <1>2, SyncQuiet

LEMMA SameCardinality == \A S : I!Cardinality(S) = Cardinality(S)
  BY Zenon DEF Cardinality, I!Cardinality

\* What fits in one answer is answered in full.
LEMMA AnswerIsAll ==
    ASSUME NEW asked, IsFiniteSet(asked), I!Cardinality(asked) <= PageSize,
           NEW page \in I!Answers(asked)
    PROVE  page = asked
<1>1. page \subseteq asked /\ (Cardinality(page) = PageSize \/ page = asked)
  BY SameCardinality DEF I!Answers
<1>2. /\ Cardinality(page) \in Nat /\ Cardinality(asked) \in Nat
      /\ Cardinality(page) <= Cardinality(asked)
      /\ Cardinality(page) = Cardinality(asked) => page = asked
  BY <1>1, FS_Subset, FS_CardinalityType
<1>3. QED BY <1>1, <1>2, SameCardinality

LEMMA FetchInv == ASSUME FiguresInv, NEW r \in Request, I!FetchInsights(r) PROVE FiguresInv'
<1> DEFINE asked == sync[r].objects \X sync[r].days
<1>1. PICK page \in I!Answers(asked) :
        sync' = [sync EXCEPT
              ![r].pc = "write", ![r].todo = page,
              ![r].read = [o \in I!Object |-> [d \in I!Day |->
                              IF <<o, d>> \in page THEN figure[o][d] ELSE None]]]
  BY DEF I!FetchInsights
<1> DEFINE read == [o \in I!Object |-> [d \in I!Day |->
                              IF <<o, d>> \in page THEN figure[o][d] ELSE None]]
           q == [sync[r] EXCEPT !.pc = "write", !.todo = page, !.read = read]
<1>2. sync[r] \in SyncState /\ ReadingsOK(r) /\ page \subseteq asked
  BY SyncType DEF FiguresInv, I!Answers
<1>3. page \subseteq I!Dates
  BY <1>2 DEF SyncState, I!Dates
<1>4. /\ read \in [I!Object -> [I!Day -> 0..MaxFigure \cup {None}]]
      /\ \A o \in I!Object, d \in I!Day :
             read[o][d] = IF <<o, d>> \in page THEN figure[o][d] ELSE None
  BY DEF FiguresInv, I!InsightsTypeOK
<1>5. sync' = [sync EXCEPT ![r] = q]
  BY <1>1
<1> HIDE DEF read
<1>6. /\ q \in SyncState /\ q.pc = "write" /\ q.todo = page /\ q.read = read
      /\ q.objects = sync[r].objects /\ q.days = sync[r].days
  BY <1>2, <1>3, <1>4 DEF SyncState
<1> HIDE DEF q
<1>7. sync' \in [Request -> SyncState] /\ sync'[r] = q /\ SyncOthers(r)
  BY <1>5, <1>6, SyncMoves DEF FiguresInv
<1>8. UNCHANGED <<row, figure, snap>> /\ changed' = [changed EXCEPT ![r] = {}]
  BY DEF I!FetchInsights
<1>9. ReadingsOK(r)'
  <2>1. IsFiniteSet(q.objects) /\ IsFiniteSet(q.days)
    BY <1>2, <1>6 DEF ReadingsOK
  <2>2. IsFiniteSet(asked)
    BY <1>2, FS_Product DEF ReadingsOK
  <2>3. ASSUME I!Cardinality(asked) <= PageSize, NEW o \in q.objects, NEW d \in q.days
        PROVE  q.read[o][d] = figure[o][d] /\ <<o, d>> \in q.todo
    <3>1. page = asked
      BY <2>2, <2>3, AnswerIsAll
    <3>2. <<o, d>> \in page /\ o \in I!Object /\ d \in I!Day
      BY <1>2, <1>6, <2>3, <3>1 DEF SyncState
    <3>3. QED BY <1>4, <1>6, <3>2
  <2>4. QED BY <1>6, <1>7, <1>8, <2>1, <2>3 DEF ReadingsOK
<1>10. QED BY <1>7, <1>8, <1>9, SyncQuiet DEF FiguresInv, I!InsightsTypeOK

LEMMA UpsertInsightInv ==
    ASSUME FiguresInv, NEW r \in Request, I!UpsertInsight(r)
    PROVE  FiguresInv'
<1>1. PICK x \in sync[r].todo :
        IF row[x[1]] = None
        THEN sync' = [sync EXCEPT ![r] = I!NoSync] /\ UNCHANGED <<snap, changed>>
        ELSE /\ snap' = [snap EXCEPT ![x[1]][x[2]] = sync[r].read[x[1]][x[2]]]
             /\ sync' = [sync EXCEPT ![r].todo = @ \ {x}]
             /\ I!Note({x}, r)
  BY DEF I!UpsertInsight
<1>2. sync[r] \in SyncState /\ ReadingsOK(r) /\ sync[r].pc = "write" /\ UNCHANGED <<row, figure>>
  BY SyncType DEF FiguresInv, I!UpsertInsight
<1>3. CASE row[x[1]] = None
  BY <1>1, <1>2, <1>3, SyncGone DEF FiguresInv, I!InsightsTypeOK
<1>4. CASE row[x[1]] # None
  <2>1. PICK o \in I!Object, d \in I!Day : x = <<o, d>>
    BY <1>2 DEF SyncState, I!Dates
  <2> DEFINE q == [sync[r] EXCEPT !.todo = sync[r].todo \ {x}]
  <2>2. /\ q \in SyncState /\ q.pc = "write" /\ q.todo = sync[r].todo \ {x}
        /\ q.objects = sync[r].objects /\ q.days = sync[r].days /\ q.read = sync[r].read
    BY <1>2 DEF SyncState
  <2>3. sync' = [sync EXCEPT ![r] = q]
    BY <1>1, <1>4
  <2> HIDE DEF q
  <2>4. sync' \in [Request -> SyncState] /\ sync'[r] = q /\ SyncOthers(r)
    BY <2>2, <2>3, SyncMoves DEF FiguresInv
  <2>5. /\ snap' \in [I!Object -> [I!Day -> 0..MaxFigure \cup {None}]]
        /\ snap'[o][d] = sync[r].read[o][d]
        /\ \A y \in I!Dates : y # x => snap'[y[1]][y[2]] = snap[y[1]][y[2]]
    <3>1. snap' = [snap EXCEPT ![o] = [snap[o] EXCEPT ![d] = sync[r].read[o][d]]]
      BY <1>1, <1>4, <2>1
    <3>2. sync[r].read[o][d] \in 0..MaxFigure \cup {None}
      BY <1>2, <2>1 DEF SyncState
    <3>3. snap[o] \in [I!Day -> 0..MaxFigure \cup {None}]
      BY <2>1 DEF FiguresInv, I!InsightsTypeOK
    <3>4. snap \in [I!Object -> [I!Day -> 0..MaxFigure \cup {None}]]
      BY DEF FiguresInv, I!InsightsTypeOK
    <3>5. ASSUME NEW y \in I!Dates, y # x PROVE snap'[y[1]][y[2]] = snap[y[1]][y[2]]
      <4>1. PICK p \in I!Object, e \in I!Day : y = <<p, e>>
        BY DEF I!Dates
      <4>2. p # o \/ e # d
        BY <2>1, <3>5, <4>1
      <4>3. QED BY <3>1, <3>3, <3>4, <4>1, <4>2
    <3>6. QED BY <3>1, <3>2, <3>3, <3>4, <3>5
  <2>6. changed' \in [Request -> SUBSET I!Dates] /\ changed'[r] = changed[r]
        /\ \A p \in Request \ {r} : sync[p].pc = "write" => changed'[p] = changed[p] \cup {x}
    <3>1. changed \in [Request -> SUBSET I!Dates] /\ {x} \in SUBSET I!Dates
      BY <1>2 DEF FiguresInv, I!InsightsTypeOK, SyncState
    <3>2. changed' = [p \in Request |-> IF p # r /\ sync[p].pc = "write"
                                       THEN changed[p] \cup {x} ELSE changed[p]]
      BY <1>1, <1>4 DEF I!Note
    <3>3. QED BY <3>1, <3>2
  <2>7. I!InsightsTypeOK'
    <3>1. \A p \in I!Object, e \in I!Day : snap'[p][e] # None => row'[p] # None
      <4> TAKE p \in I!Object, e \in I!Day
      <4>1. CASE <<p, e>> = x
        BY <1>2, <1>4, <4>1
      <4>2. CASE <<p, e>> # x
        <5>1. <<p, e>> \in I!Dates
          BY DEF I!Dates
        <5>2. snap'[p][e] = snap[p][e]
          BY <2>5, <4>2, <5>1
        <5>3. QED BY <1>2, <5>2 DEF FiguresInv, I!InsightsTypeOK
      <4>3. QED BY <4>1, <4>2
    <3>2. QED BY <1>2, <2>4, <2>5, <2>6, <3>1 DEF FiguresInv, I!InsightsTypeOK, SyncState
  <2>8. SyncTold(r)
    BY <1>2, <2>5, <2>6 DEF SyncTold
  <2>9. ReadingsOK(r)'
    <3>1. ASSUME I!Cardinality(q.objects \X q.days) <= PageSize,
                 NEW p \in q.objects, NEW e \in q.days, <<p, e>> \notin changed[r]
          PROVE  /\ q.read[p][e] = figure[p][e]
                 /\ <<p, e>> \notin q.todo /\ row[p] # None => snap'[p][e] = figure[p][e]
      <4>1. /\ sync[r].read[p][e] = figure[p][e]
            /\ <<p, e>> \notin sync[r].todo /\ row[p] # None => snap[p][e] = figure[p][e]
        BY <1>2, <2>2, <3>1 DEF ReadingsOK
      <4>2. CASE <<p, e>> = x
        BY <2>1, <2>2, <2>5, <4>1, <4>2
      <4>3. CASE <<p, e>> # x
        <5>1. <<p, e>> \in I!Dates
          BY <1>2, <2>2, <3>1 DEF SyncState, I!Dates
        <5>2. snap'[p][e] = snap[p][e]
          BY <2>5, <4>3, <5>1
        <5>3. QED BY <2>2, <4>1, <4>3, <5>2
      <4>4. QED BY <4>2, <4>3
    <3>2. IsFiniteSet(q.objects) /\ IsFiniteSet(q.days)
      BY <1>2, <2>2 DEF ReadingsOK
    <3>3. QED BY <1>2, <2>4, <2>6, <3>1, <3>2 DEF ReadingsOK
  <2>10. QED BY <2>4, <2>7, <2>8, <2>9, FiguresFrame
<1>5. QED BY <1>3, <1>4

LEMMA WrittenInv == ASSUME FiguresInv, NEW r \in Request, I!InsightsWritten(r) PROVE FiguresInv'
<1> DEFINE q == [sync[r] EXCEPT !.pc = "synced"]
<1>1. sync[r] \in SyncState /\ ReadingsOK(r)
  BY SyncType DEF FiguresInv
<1>2. q \in SyncState /\ q.pc = "synced" /\ q.objects = sync[r].objects /\ q.days = sync[r].days
  BY <1>1 DEF SyncState
<1>3. sync' = [sync EXCEPT ![r] = q] /\ UNCHANGED <<row, figure, snap, changed>>
  BY DEF I!InsightsWritten
<1> HIDE DEF q
<1>4. sync' \in [Request -> SyncState] /\ sync'[r] = q /\ SyncOthers(r)
  BY <1>2, <1>3, SyncMoves DEF FiguresInv
<1>5. ReadingsOK(r)'
  BY <1>1, <1>2, <1>4, RestingSync DEF ReadingsOK
<1>6. QED BY <1>3, <1>4, <1>5, SyncQuiet DEF FiguresInv, I!InsightsTypeOK

\* A campaign, ad set or ad is asked for: finitely many objects at a time.
LEMMA AskedInv ==
    ASSUME FiguresInv, NEW r \in Request, NEW from \in I!Day, NEW to \in I!Day,
           \/ I!SyncForWorkspace(r, from, to)
           \/ \E o \in AdSet : I!SyncForAdSet(r, o, from, to)
           \/ \E o \in Ad : I!SyncForAd(r, o, from, to)
    PROVE  FiguresInv'
<1>1. CASE I!SyncForWorkspace(r, from, to)
  <2> DEFINE running == {c \in Campaign : row[c] = "ACTIVE"}
  <2>1. I!Begin(r, running, from, to)
    BY <1>1 DEF I!SyncForWorkspace
  <2>2. running \in SUBSET I!Object /\ running \subseteq Campaign
    BY DEF I!Object
  <2>3. IsFiniteSet(running)
    BY <2>2, FS_Subset
  <2> HIDE DEF running
  <2>4. QED BY <2>1, <2>2, <2>3, BeginInv
<1>2. ASSUME NEW o \in AdSet \cup Ad, I!Begin(r, {o}, from, to) PROVE FiguresInv'
  <2>1. {o} \in SUBSET I!Object /\ IsFiniteSet({o})
    BY FS_Singleton DEF I!Object
  <2>2. QED BY <1>2, <2>1, BeginInv
<1>3. CASE \E o \in AdSet : I!SyncForAdSet(r, o, from, to)
  BY <1>2, <1>3 DEF I!SyncForAdSet
<1>4. CASE \E o \in Ad : I!SyncForAd(r, o, from, to)
  BY <1>2, <1>4 DEF I!SyncForAd
<1>5. QED BY <1>1, <1>3, <1>4

\* Every sync that writes is told about the dates that something else changes.
LEMMA NoteAll ==
    ASSUME FiguresInv, NEW dates \in SUBSET I!Dates, I!Note(dates, None)
    PROVE  /\ changed' \in [Request -> SUBSET I!Dates]
           /\ \A p \in Request : sync[p].pc = "write" => changed'[p] = changed[p] \cup dates
  BY NoneAssumption DEF FiguresInv, I!InsightsTypeOK, I!Note

LEMMA CorrectInv ==
    ASSUME FiguresInv, NEW o \in I!Object, NEW d \in I!Day, I!Correct(o, d)
    PROVE  FiguresInv'
<1> DEFINE x == <<o, d>>
<1>1. x \in I!Dates /\ UNCHANGED <<row, snap, sync>>
  BY DEF I!Dates, I!Correct
<1>2. /\ changed' \in [Request -> SUBSET I!Dates]
      /\ \A p \in Request : sync[p].pc = "write" => changed'[p] = changed[p] \cup {x}
  <2>1. {x} \in SUBSET I!Dates /\ I!Note({x}, None)
    BY <1>1 DEF I!Correct
  <2>2. QED BY <2>1, NoteAll
<1>3. /\ figure' \in [I!Object -> [I!Day -> 0..MaxFigure]]
      /\ \A y \in I!Dates : y # x => figure'[y[1]][y[2]] = figure[y[1]][y[2]]
  <2>1. figure \in [I!Object -> [I!Day -> 0..MaxFigure]]
    BY DEF FiguresInv, I!InsightsTypeOK
  <2>2. figure[o] \in [I!Day -> 0..MaxFigure] /\ figure[o][d] \in 0..MaxFigure
    BY <2>1
  <2>3. figure' = [figure EXCEPT ![o] = [figure[o] EXCEPT ![d] = figure[o][d] + 1]]
    BY DEF I!Correct
  <2>4. figure[o][d] + 1 \in 0..MaxFigure
    BY <2>2 DEF I!Correct
  <2>5. ASSUME NEW y \in I!Dates, y # x PROVE figure'[y[1]][y[2]] = figure[y[1]][y[2]]
    <3>1. PICK p \in I!Object, e \in I!Day : y = <<p, e>>
      BY DEF I!Dates
    <3>2. p # o \/ e # d
      BY <2>5, <3>1
    <3>3. QED BY <2>1, <2>2, <2>3, <3>1, <3>2
  <2>6. QED BY <2>1, <2>2, <2>3, <2>4, <2>5
<1> HIDE DEF x
<1>4. I!InsightsTypeOK'
  BY <1>1, <1>2, <1>3 DEF FiguresInv, I!InsightsTypeOK
<1>5. SyncTold(None) /\ SyncOthers(None)
  BY <1>1, <1>2, <1>3 DEF SyncTold, SyncOthers
<1>6. QED BY <1>4, <1>5, NoneAssumption, FiguresFrame

LEMMA RowDeletedInv ==
    ASSUME FiguresInv, NEW o \in I!Object, I!RowDeleted(o)
    PROVE  FiguresInv'
<1>1. /\ UNCHANGED <<figure, snap, sync, changed>> /\ row[o] = "ACTIVE"
      /\ row' = [row EXCEPT ![o] = "DELETED"]
  BY DEF I!RowDeleted
<1>2. row \in [I!Object -> {"ACTIVE", "DELETED", None}]
  BY DEF FiguresInv, I!InsightsTypeOK
<1>3. \A p \in I!Object : row'[p] = row[p] \/ row[p] = "ACTIVE"
  BY <1>1, <1>2
<1>4. \A p \in I!Object : row'[p] = IF p = o THEN "DELETED" ELSE row[p]
  BY <1>1, <1>2
<1>5. \A p \in I!Object : row'[p] # None <=> row[p] # None
  BY <1>1, <1>4, NoneAssumption DEF Status, Running
<1>7. I!InsightsTypeOK'
  BY <1>1, <1>2, <1>5 DEF FiguresInv, I!InsightsTypeOK
<1>8. SyncTold(None) /\ SyncOthers(None)
  BY <1>1, <1>5 DEF SyncTold, SyncOthers, I!Dates
<1>9. QED BY <1>7, <1>8, NoneAssumption, FiguresFrame

LEMMA RowsGoneInv == ASSUME FiguresInv, I!RowsGone PROVE FiguresInv'
<1>1. /\ row' = [o \in I!Object |-> None] /\ snap' = I!NoSnap
      /\ UNCHANGED <<figure, sync>> /\ I!Note(I!Dates, None)
  BY DEF I!RowsGone
<1>2. /\ changed' \in [Request -> SUBSET I!Dates]
      /\ \A p \in Request : sync[p].pc = "write" => changed'[p] = changed[p] \cup I!Dates
  BY <1>1, NoteAll
<1>3. /\ snap' \in [I!Object -> [I!Day -> 0..MaxFigure \cup {None}]]
      /\ \A o \in I!Object, d \in I!Day : snap'[o][d] = None
  BY <1>1 DEF I!NoSnap
<1>4. I!InsightsTypeOK'
  BY <1>1, <1>2, <1>3 DEF FiguresInv, I!InsightsTypeOK
<1>5. SyncTold(None) /\ SyncOthers(None)
  BY <1>1, <1>2 DEF SyncTold, SyncOthers
<1>6. QED BY <1>4, <1>5, NoneAssumption, FiguresFrame

LEMMA FiguresNext == ASSUME FiguresInv, [I!InsightsNext]_insights PROVE FiguresInv'
<1>1. CASE UNCHANGED insights
  <2>1. UNCHANGED <<row, figure, snap, sync, changed>>
    BY <1>1 DEF insights
  <2>2. I!InsightsTypeOK'
    BY <2>1 DEF FiguresInv, I!InsightsTypeOK
  <2>3. \A r \in Request : ReadingsOK(r)'
    BY <2>1 DEF FiguresInv, ReadingsOK
  <2>4. QED BY <2>2, <2>3 DEF FiguresInv
<1>2. ASSUME NEW r \in Request, I!InsightsDone(r) \/ I!SyncCut(r) PROVE FiguresInv'
  <2>1. /\ sync' = [sync EXCEPT ![r] = I!NoSync] /\ changed' = [changed EXCEPT ![r] = {}]
        /\ UNCHANGED <<row, figure, snap>>
    BY <1>2 DEF I!InsightsDone, I!SyncCut
  <2>2. changed \in [Request -> SUBSET I!Dates]
    BY DEF FiguresInv, I!InsightsTypeOK
  <2>3. /\ changed' \in [Request -> SUBSET I!Dates]
        /\ \A p \in Request \ {r} : changed'[p] = changed[p]
    BY <2>1, <2>2
  <2>4. QED BY <2>1, <2>3, SyncGone
<1>3. QED BY <1>1, <1>2, AskedInv, FetchInv, UpsertInsightInv, WrittenInv, CorrectInv,
             RowDeletedInv, RowsGoneInv DEF I!InsightsNext

LEMMA FiguresInit == I!InsightsInit => FiguresInv
<1>1. SUFFICES ASSUME I!InsightsInit PROVE FiguresInv
  OBVIOUS
<1>2. I!NoSnap \in [I!Object -> [I!Day -> 0..MaxFigure \cup {None}]]
      /\ \A o \in I!Object, d \in I!Day : I!NoSnap[o][d] = None
  BY DEF I!NoSnap
<1>3. sync \in [Request -> SyncState] /\ \A r \in Request : sync[r] = I!NoSync
  BY <1>1, SyncType DEF I!InsightsInit
<1>4. I!InsightsTypeOK
  BY <1>1, <1>2, <1>3 DEF I!InsightsInit, I!InsightsTypeOK, SyncState
<1>5. \A r \in Request : ReadingsOK(r)
  BY <1>3, SyncType, FS_EmptySet DEF ReadingsOK
<1>6. QED BY <1>4, <1>5 DEF FiguresInv

LEMMA FiguresMoves == [MCNext]_<<vars, insights, mode>> => [I!InsightsNext]_insights
  BY DEF MCNext

\* The insights by themselves: any number of syncs, on all levels at once.
LEMMA FiguresAlways == I!InsightsInit /\ [][I!InsightsNext]_insights => []FiguresInv
<1>1. FiguresInv /\ [I!InsightsNext]_insights => FiguresInv'
  BY FiguresNext
<1>2. QED BY <1>1, FiguresInit, PTL

\* And so in every behaviour that is explored.
LEMMA FiguresInvariance == MCSpec => []FiguresInv
<1>1. MCInit => I!InsightsInit
  BY DEF MCInit
<1>2. QED BY <1>1, FiguresMoves, FiguresAlways, PTL DEF MCSpec

\* Both halves keep their types and foreign keys: no ad without the row of its
\* ad set, no creative referred to that the library has not, no snapshot of an
\* object without a row, for any number of rows, days and requests.
THEOREM RowsTheorem == MCSpec => []RowsAreWellFormed
<1>1. MCInv /\ FiguresInv => RowsAreWellFormed
  BY DEF MCInv, Inv, FiguresInv, RowsAreWellFormed
<1>2. QED BY <1>1, MCInvariance, FiguresInvariance, PTL

\* Only the end of the loop makes a sync end, and then nothing is left to write.
LEMMA EndsExact == ASSUME FiguresInv, [I!InsightsNext]_insights PROVE I!SyncEndsExact
<1> SUFFICES ASSUME NEW r \in Request, sync[r].pc = "write", sync'[r].pc = "synced",
                    I!Cardinality(sync[r].objects \X sync[r].days) <= PageSize,
                    NEW x \in (sync[r].objects \X sync[r].days) \ changed[r], row[x[1]] # None
             PROVE  snap[x[1]][x[2]] = figure[x[1]][x[2]]
  BY DEF I!SyncEndsExact
<1>1. sync[r] \in SyncState /\ ReadingsOK(r) /\ sync \in [Request -> SyncState]
  BY SyncType DEF FiguresInv, I!InsightsTypeOK, SyncState
<1>2. PICK o \in sync[r].objects, d \in sync[r].days : x = <<o, d>>
  OBVIOUS
<1>3. sync[r].todo = {}
  <2>1. ASSUME NEW p \in Request, I!InsightsDone(p) \/ I!SyncCut(p) PROVE FALSE
    BY <2>1, <1>1, SyncType DEF I!InsightsDone, I!SyncCut
  <2>2. ASSUME NEW p \in Request, I!FetchInsights(p) PROVE FALSE
    BY <2>2, <1>1 DEF I!FetchInsights
  <2>3. ASSUME NEW p \in Request, I!UpsertInsight(p) PROVE FALSE
    <3>1. \/ sync' = [sync EXCEPT ![p] = I!NoSync]
          \/ \E y \in sync[p].todo :
                 sync' = [sync EXCEPT ![p] = [sync[p] EXCEPT !.todo = sync[p].todo \ {y}]]
      BY <2>3 DEF I!UpsertInsight
    <3>2. CASE sync' = [sync EXCEPT ![p] = I!NoSync]
      BY <1>1, <3>2, SyncType
    <3>3. ASSUME NEW y, sync' = [sync EXCEPT ![p] = [sync[p] EXCEPT !.todo = sync[p].todo \ {y}]]
          PROVE  FALSE
      <4>1. sync[p] \in SyncState
        BY <1>1
      <4>2. [sync[p] EXCEPT !.todo = sync[p].todo \ {y}].pc = sync[p].pc
        BY <4>1 DEF SyncState
      <4>3. sync'[r].pc = sync[r].pc
        BY <1>1, <3>3, <4>2
      <4>4. QED BY <4>3
    <3>4. QED BY <3>1, <3>2, <3>3
  <2>4. ASSUME NEW p \in Request, I!InsightsWritten(p) PROVE sync[r].todo = {}
    BY <2>4, <1>1 DEF I!InsightsWritten
  <2>5. ASSUME NEW p \in Request, NEW objects, NEW from, NEW to, I!Begin(p, objects, from, to)
        PROVE FALSE
    BY <2>5, <1>1 DEF I!Begin
  <2>6. UNCHANGED sync => FALSE
    OBVIOUS
  <2>7. QED
    BY <2>1, <2>2, <2>3, <2>4, <2>5, <2>6 DEF I!InsightsNext, I!SyncForWorkspace, I!SyncForAdSet,
       I!SyncForAd, I!Correct, I!RowDeleted, I!RowsGone, insights
<1>4. QED BY <1>1, <1>2, <1>3 DEF ReadingsOK

\* A sync of insights ends with what Meta says of every day it was asked about
\* and that nobody else has written or corrected since, for any overlap of
\* syncs and corrections, as long as one answer holds all it asked for
\* (InsightsService.syncForWorkspace, syncForAdSet and syncForAd).
THEOREM InsightsTheorem == MCSpec => InsightsAreExact
<1>1. FiguresInv /\ [MCNext]_<<vars, insights, mode>> => [I!SyncEndsExact]_insights
  BY FiguresMoves, EndsExact
<1>2. QED BY <1>1, FiguresInvariance, PTL DEF MCSpec, InsightsAreExact

-----------------------------------------------------------------------------
(* Sums over a finite set.  The provers have no induction over data; that  *)
(* inclusion of finite sets is well founded gives a least counterexample.  *)
(* (Some of these facts are also in MfaVerifyProofs, about other sums.)    *)

Total(f, S) == I!MapThenSumSet(LAMBDA x : f[x], S)

PickOf(S) == CHOOSE x \in S : TRUE
Adds(g, f, S) ==
    g = [T \in SUBSET S |-> IF T = {} THEN 0 ELSE f[PickOf(T)] + g[T \ {PickOf(T)}]]

\* A set of subsets of a finite set has a least member.
LEMMA LeastSet ==
    ASSUME NEW S, IsFiniteSet(S), NEW W, W \subseteq SUBSET S, W # {}
    PROVE  \E U \in W : \A V \in W : V \subseteq U => V = U
<1> DEFINE less == StrictSubsetOrdering(S)
<1>1. IsWellFoundedOn(less, FiniteSubsetsOf(S)) /\ W \subseteq FiniteSubsetsOf(S)
  BY FS_StrictSubsetOrderingWellFounded, FS_FiniteSubsetsOfFinite
<1>2. \E U \in W : \A V \in W : <<V, U>> \notin less
  <2> HIDE DEF less
  <2> QED BY WFMin, <1>1
<1>3. PICK U \in W : \A V \in W : <<V, U>> \notin less
  BY <1>2
<1>4. ASSUME NEW V \in W, V \subseteq U, V # U PROVE FALSE
  <2>1. <<V, U>> \in (SUBSET S) \X (SUBSET S)
    OBVIOUS
  <2>2. <<V, U>> \in less
    BY <1>4, <2>1 DEF StrictSubsetOrdering
  <2>3. QED BY <1>3, <2>2
<1>5. QED BY <1>3, <1>4

LEMMA TotalUnfolds ==
    ASSUME NEW f, NEW S
    PROVE  Total(f, S) = (CHOOSE g : Adds(g, f, S))[S]
  BY DEF Total, I!MapThenSumSet, I!MapThenFoldSet, Adds, PickOf

LEMMA PickIsIn == ASSUME NEW T, T # {} PROVE PickOf(T) \in T
  BY DEF PickOf

\* Two solutions agree where both are defined.
LEMMA AddsAgree ==
    ASSUME NEW f, NEW g, NEW h, NEW S, NEW R, IsFiniteSet(S), Adds(g, f, S), Adds(h, f, R),
           NEW T \in SUBSET S, T \subseteq R
    PROVE  g[T] = h[T]
<1> DEFINE W == {V \in SUBSET S : V \subseteq R /\ g[V] # h[V]}
<1> SUFFICES ASSUME W # {} PROVE FALSE
  OBVIOUS
<1>1. PICK V \in W : \A U \in W : U \subseteq V => U = V
  <2>1. W \subseteq SUBSET S
    OBVIOUS
  <2> HIDE DEF W
  <2>2. QED BY <2>1, LeastSet
<1>2. V # {}
  BY <1>1 DEF Adds
<1> DEFINE U == V \ {PickOf(V)}
<1>3. g[U] = h[U]
  BY <1>1, <1>2, PickIsIn
<1>4. g[V] = f[PickOf(V)] + g[U] /\ h[V] = f[PickOf(V)] + h[U]
  BY <1>1, <1>2 DEF Adds
<1>5. QED BY <1>1, <1>3, <1>4

\* There is a solution, so the sum is one.
LEMMA AddsExists ==
    ASSUME NEW f, NEW S, IsFiniteSet(S)
    PROVE  \E g : Adds(g, f, S)
<1> DEFINE W == {V \in SUBSET S : ~\E g : Adds(g, f, V)}
<1> SUFFICES ASSUME W # {} PROVE FALSE
  OBVIOUS
<1>1. PICK V \in W : \A U \in W : U \subseteq V => U = V
  <2>1. W \subseteq SUBSET S
    OBVIOUS
  <2> HIDE DEF W
  <2>2. QED BY <2>1, LeastSet
<1> DEFINE g == [T \in SUBSET V |-> IF T = {} THEN 0
                                    ELSE f[PickOf(T)] + Total(f, T \ {PickOf(T)})]
<1>2. ASSUME NEW T \in SUBSET V, T # V PROVE Total(f, T) = g[T]
  <2> DEFINE h == CHOOSE h : Adds(h, f, T)
  <2>1. Adds(h, f, T)
    BY <1>1, <1>2
  <2> HIDE DEF h
  <2>2. Total(f, T) = h[T]
    BY TotalUnfolds DEF h
  <2>3. CASE T = {}
    BY <2>1, <2>2, <2>3 DEF Adds
  <2>4. CASE T # {}
    <3> DEFINE U == T \ {PickOf(T)}
    <3>1. U \in SUBSET V /\ U # V /\ U \subseteq T
      BY <2>4, PickIsIn
    <3> DEFINE k == CHOOSE k : Adds(k, f, U)
    <3>2. Adds(k, f, U)
      BY <1>1, <3>1
    <3> HIDE DEF k
    <3>3. Total(f, U) = k[U]
      BY TotalUnfolds DEF k
    <3>4. IsFiniteSet(T)
      BY FS_Subset
    <3>5. k[U] = h[U]
      <4> HIDE DEF U
      <4> QED BY <2>1, <3>1, <3>2, <3>4, FS_Subset, AddsAgree
    <3>6. h[T] = f[PickOf(T)] + h[U]
      BY <2>1, <2>4 DEF Adds
    <3>7. QED BY <2>2, <2>4, <3>3, <3>5, <3>6
  <2>5. QED BY <2>3, <2>4
<1>3. \A T \in SUBSET V : g[T] = IF T = {} THEN 0 ELSE f[PickOf(T)] + g[T \ {PickOf(T)}]
  <2> SUFFICES ASSUME NEW T \in SUBSET V, T # {}
               PROVE  g[T] = f[PickOf(T)] + g[T \ {PickOf(T)}]
    OBVIOUS
  <2>1. T \ {PickOf(T)} \in SUBSET V /\ T \ {PickOf(T)} # V
    BY PickIsIn
  <2>2. Total(f, T \ {PickOf(T)}) = g[T \ {PickOf(T)}]
    BY <1>2, <2>1
  <2>3. QED BY <2>2
<1>4. Adds(g, f, V)
  BY <1>3 DEF Adds
<1>5. QED BY <1>1, <1>4

LEMMA TotalEmpty == ASSUME NEW f PROVE Total(f, {}) = 0
<1>1. PICK g : Adds(g, f, {})
  BY AddsExists, FS_EmptySet
<1>2. Adds(CHOOSE h : Adds(h, f, {}), f, {})
  BY <1>1
<1>3. QED BY <1>2, TotalUnfolds DEF Adds

LEMMA TotalPick ==
    ASSUME NEW f, NEW S, IsFiniteSet(S), S # {}
    PROVE  Total(f, S) = f[PickOf(S)] + Total(f, S \ {PickOf(S)})
<1> DEFINE U == S \ {PickOf(S)}
           h == CHOOSE h : Adds(h, f, S)
           k == CHOOSE k : Adds(k, f, U)
<1>1. IsFiniteSet(U)
  BY FS_Subset
<1>2. Adds(h, f, S) /\ Adds(k, f, U)
  BY <1>1, AddsExists
<1>3. Total(f, S) = h[S] /\ Total(f, U) = k[U]
  BY TotalUnfolds
<1> HIDE DEF h, k
<1>4. k[U] = h[U]
  <2>1. U \in SUBSET S
    OBVIOUS
  <2> HIDE DEF U
  <2>2. QED BY <1>1, <1>2, <2>1, AddsAgree
<1>5. h[S] = f[PickOf(S)] + h[U]
  BY <1>2 DEF Adds
<1>6. QED BY <1>3, <1>4, <1>5

\* f is a number on S.
Counts(f, S) == \A x \in S : f[x] \in Nat

LEMMA TotalType ==
    ASSUME NEW f, NEW S, IsFiniteSet(S), Counts(f, S)
    PROVE  Total(f, S) \in Nat
<1> DEFINE W == {V \in SUBSET S : Total(f, V) \notin Nat}
<1> SUFFICES ASSUME W # {} PROVE FALSE
  OBVIOUS
<1>1. PICK V \in W : \A U \in W : U \subseteq V => U = V
  <2>1. W \subseteq SUBSET S
    OBVIOUS
  <2> HIDE DEF W
  <2>2. QED BY <2>1, LeastSet
<1>2. V # {} /\ IsFiniteSet(V)
  <2>1. Total(f, {}) \in Nat
    BY TotalEmpty
  <2>2. V # {}
    BY <1>1, <2>1, Zenon
  <2>3. QED BY <1>1, <2>2, FS_Subset
<1> DEFINE U == V \ {PickOf(V)}
<1>3. Total(f, U) \in Nat /\ f[PickOf(V)] \in Nat
  BY <1>1, <1>2, PickIsIn DEF Counts
<1>4. Total(f, V) = f[PickOf(V)] + Total(f, U)
  BY <1>2, TotalPick
<1>5. QED BY <1>1, <1>3, <1>4

\* Any element can be taken out of a sum.
LEMMA TotalRemove ==
    ASSUME NEW f, NEW S, IsFiniteSet(S), Counts(f, S), NEW x \in S
    PROVE  Total(f, S) = f[x] + Total(f, S \ {x})
<1> DEFINE W == {V \in SUBSET S : \E y \in V : Total(f, V) # f[y] + Total(f, V \ {y})}
<1> SUFFICES ASSUME W # {} PROVE FALSE
  OBVIOUS
<1>1. PICK V \in W : \A U \in W : U \subseteq V => U = V
  <2>1. W \subseteq SUBSET S
    OBVIOUS
  <2> HIDE DEF W
  <2>2. QED BY <2>1, LeastSet
<1>2. PICK y \in V : Total(f, V) # f[y] + Total(f, V \ {y})
  BY <1>1
<1> DEFINE p == PickOf(V)
<1>3. p \in V /\ V \subseteq S /\ IsFiniteSet(V)
  BY <1>1, PickIsIn, FS_Subset
<1> HIDE DEF W, p
<1>4. Total(f, V) = f[p] + Total(f, V \ {p})
  BY <1>2, <1>3, TotalPick DEF p
<1>5. p # y
  BY <1>2, <1>4
<1>6. ASSUME NEW v \in V, NEW w \in V \ {v}
      PROVE  Total(f, V \ {v}) = f[w] + Total(f, (V \ {v}) \ {w})
  <2>1. V \ {v} \in SUBSET S /\ V \ {v} \subseteq V /\ V \ {v} # V
    BY <1>3
  <2>2. V \ {v} \notin W
    BY <1>1, <2>1
  <2>3. QED BY <1>6, <2>1, <2>2, Zenon DEF W
<1>7. /\ Total(f, V \ {p}) = f[y] + Total(f, (V \ {p}) \ {y})
      /\ Total(f, V \ {y}) = f[p] + Total(f, (V \ {y}) \ {p})
  BY <1>3, <1>5, <1>6
<1>8. (V \ {y}) \ {p} = (V \ {p}) \ {y}
  OBVIOUS
<1>9. f[p] \in Nat /\ f[y] \in Nat /\ Total(f, (V \ {p}) \ {y}) \in Nat
  <2>1. Counts(f, (V \ {p}) \ {y}) /\ IsFiniteSet((V \ {p}) \ {y})
    BY <1>3, FS_Subset DEF Counts
  <2>2. QED BY <1>3, <2>1, TotalType DEF Counts
<1>10. \A i, j, k \in Nat : i + (j + k) = j + (i + k)
  OBVIOUS
<1>11. f[p] + (f[y] + Total(f, (V \ {p}) \ {y})) = f[y] + (f[p] + Total(f, (V \ {p}) \ {y}))
  BY <1>9, <1>10
<1>12. QED BY <1>2, <1>4, <1>7, <1>8, <1>11

\* Sums over disjoint sets add up.
LEMMA TotalUnion ==
    ASSUME NEW f, NEW S, NEW R, IsFiniteSet(S), IsFiniteSet(R), S \cap R = {},
           Counts(f, S), Counts(f, R)
    PROVE  Total(f, S \cup R) = Total(f, S) + Total(f, R)
<1> DEFINE W == {V \in SUBSET S : Total(f, V \cup R) # Total(f, V) + Total(f, R)}
<1> SUFFICES ASSUME W # {} PROVE FALSE
  OBVIOUS
<1>1. PICK V \in W : \A U \in W : U \subseteq V => U = V
  <2>1. W \subseteq SUBSET S
    OBVIOUS
  <2> HIDE DEF W
  <2>2. QED BY <2>1, LeastSet
<1>2. V \subseteq S /\ Total(f, V \cup R) # Total(f, V) + Total(f, R)
  BY <1>1
<1>3. Total(f, R) \in Nat
  BY TotalType
<1>4. PICK x : x \in V
  <2>1. Total(f, {} \cup R) = Total(f, {}) + Total(f, R)
    <3>1. {} \cup R = R
      OBVIOUS
    <3>2. QED BY <1>3, <3>1, TotalEmpty
  <2>2. V # {}
    BY <1>2, <2>1, Zenon
  <2>3. QED BY <2>2
<1> DEFINE U == V \ {x}
<1>5. Total(f, U \cup R) = Total(f, U) + Total(f, R)
  <2>1. U \in SUBSET S /\ U \subseteq V /\ U # V
    BY <1>2, <1>4
  <2>2. U \notin W
    BY <1>1, <2>1, Zenon
  <2>3. QED BY <2>1, <2>2
<1>6. Total(f, V) = f[x] + Total(f, U) /\ Total(f, U) \in Nat /\ f[x] \in Nat
  <2>1. IsFiniteSet(V) /\ Counts(f, V) /\ IsFiniteSet(U) /\ Counts(f, U)
    BY <1>2, FS_Subset DEF Counts
  <2>2. f[x] \in Nat
    BY <1>4, <2>1 DEF Counts
  <2> HIDE DEF W, U
  <2>3. Total(f, U) \in Nat
    BY <2>1, TotalType
  <2>4. Total(f, V) = f[x] + Total(f, U)
    BY <1>4, <2>1, TotalRemove DEF U
  <2>5. QED BY <2>2, <2>3, <2>4
<1>7. Total(f, V \cup R) = f[x] + Total(f, U \cup R)
  <2>1. IsFiniteSet(V \cup R) /\ Counts(f, V \cup R) /\ x \in V \cup R
    BY <1>2, <1>4, FS_Subset, FS_Union DEF Counts
  <2>2. (V \cup R) \ {x} = U \cup R
    BY <1>2, <1>4
  <2> HIDE DEF W, U
  <2>3. QED BY <2>1, <2>2, TotalRemove
<1>8. \A i, j, k \in Nat : i + (j + k) = (i + j) + k
  OBVIOUS
<1> HIDE DEF W, U
<1>9. QED BY <1>2, <1>3, <1>5, <1>6, <1>7, <1>8

-----------------------------------------------------------------------------
(* Ranges.                                                                 *)

\* The days of a range are those up to a cut and those after it.
LEMMA FoundSplits ==
    ASSUME I!InsightsTypeOK, NEW o \in I!Object, NEW from \in 1..LastDay + 1,
           NEW to \in 1..LastDay + 1, NEW cut \in from..to - 1
    PROVE  /\ I!Found(o, from, to) = I!Found(o, from, cut) \cup I!Found(o, cut + 1, to)
           /\ I!Found(o, from, cut) \cap I!Found(o, cut + 1, to) = {}
<1>1. from \in Nat /\ to \in Nat /\ cut \in Nat /\ from <= cut /\ cut + 1 <= to
  OBVIOUS
<1>2. \A d \in Nat : /\ d >= from /\ d <= to <=>
                           (d >= from /\ d <= cut) \/ (d >= cut + 1 /\ d <= to)
                     /\ ~(d <= cut /\ d >= cut + 1)
  BY <1>1
<1>3. I!Day \subseteq Nat
  BY DEF I!Day
<1>4. QED BY <1>2, <1>3 DEF I!Found

LEMMA DaysAreFinite == IsFiniteSet(I!Day)
<1>1. 1 \in Int /\ LastDay \in Int
  OBVIOUS
<1>2. QED BY <1>1, FS_Interval DEF I!Day

\* The snapshots a listing finds are figures, and there are finitely many.
LEMMA FoundCounts ==
    ASSUME I!InsightsTypeOK, NEW o \in I!Object, NEW from, NEW to
    PROVE  /\ I!Found(o, from, to) \subseteq I!Day /\ IsFiniteSet(I!Found(o, from, to))
           /\ Counts(snap[o], I!Found(o, from, to))
<1>1. I!Found(o, from, to) \subseteq I!Day
  BY DEF I!Found
<1>2. IsFiniteSet(I!Found(o, from, to))
  BY <1>1, DaysAreFinite, FS_Subset
<1>3. snap[o] \in [I!Day -> 0..MaxFigure \cup {None}]
  BY DEF I!InsightsTypeOK
<1>4. ASSUME NEW d \in I!Found(o, from, to) PROVE snap[o][d] \in Nat
  BY <1>1, <1>3 DEF I!Found
<1>5. QED BY <1>1, <1>2, <1>4 DEF Counts

LEMMA ObjectAddsUp ==
    ASSUME I!InsightsTypeOK, NEW o \in I!Object, NEW from \in 1..LastDay + 1,
           NEW to \in 1..LastDay + 1, NEW cut \in from..to - 1
    PROVE  I!TotalOf(o, from, to) = I!TotalOf(o, from, cut) + I!TotalOf(o, cut + 1, to)
<1>1. \A i, j : I!TotalOf(o, i, j) = Total(snap[o], I!Found(o, i, j))
  BY DEF I!TotalOf, Total
<1> DEFINE A == I!Found(o, from, cut)
           B == I!Found(o, cut + 1, to)
<1>2. I!Found(o, from, to) = A \cup B /\ A \cap B = {}
  BY FoundSplits
<1>3. IsFiniteSet(A) /\ IsFiniteSet(B) /\ Counts(snap[o], A) /\ Counts(snap[o], B)
  BY FoundCounts
<1>4. Total(snap[o], A \cup B) = Total(snap[o], A) + Total(snap[o], B)
  <2> HIDE DEF A, B
  <2> QED BY <1>2, <1>3, TotalUnion
<1>5. QED BY <1>1, <1>2, <1>4

\* The rows a listing of the workspace finds, and the figure in each.
RowsFound(from, to) == UNION {{c} \X I!Found(c, from, to) : c \in Campaign}
FigureAt == [x \in Campaign \X I!Day |-> snap[x[1]][x[2]]]

LEMMA RowsFoundCount ==
    ASSUME I!InsightsTypeOK, NEW from, NEW to
    PROVE  /\ RowsFound(from, to) \subseteq Campaign \X I!Day /\ IsFiniteSet(RowsFound(from, to))
           /\ Counts(FigureAt, RowsFound(from, to))
<1>1. Campaign \subseteq I!Object
  BY DEF I!Object
<1>2. ASSUME NEW x \in RowsFound(from, to)
      PROVE  x \in Campaign \X I!Day /\ FigureAt[x] \in Nat
  <2>1. PICK c \in Campaign : x \in {c} \X I!Found(c, from, to)
    BY DEF RowsFound
  <2>2. PICK d \in I!Found(c, from, to) : x = <<c, d>>
    BY <2>1
  <2>3. d \in I!Day /\ snap[c][d] \in Nat
    BY <1>1, FoundCounts DEF Counts
  <2>4. QED BY <2>2, <2>3 DEF FigureAt
<1>3. IsFiniteSet(Campaign \X I!Day)
  BY DaysAreFinite, FS_Product
<1>4. QED BY <1>2, <1>3, FS_Subset DEF Counts

\* The total of the workspace is the sum of those figures.
LEMMA WorkspaceTotal ==
    ASSUME I!InsightsTypeOK, NEW from, NEW to
    PROVE  I!TotalOfWorkspace(from, to) = Total(FigureAt, RowsFound(from, to))
<1> DEFINE S == RowsFound(from, to)
           A(g) == g = [T \in SUBSET S |->
                          IF T = {} THEN 0
                          ELSE snap[PickOf(T)[1]][PickOf(T)[2]] + g[T \ {PickOf(T)}]]
<1>1. I!TotalOfWorkspace(from, to) = (CHOOSE g : A(g))[S]
  BY DEF I!TotalOfWorkspace, I!MapThenSumSet, I!MapThenFoldSet, PickOf, RowsFound
<1>2. S \subseteq Campaign \X I!Day /\ IsFiniteSet(S)
  BY RowsFoundCount
<1> HIDE DEF S
<1>3. \A T \in SUBSET S : T # {} => FigureAt[PickOf(T)] = snap[PickOf(T)[1]][PickOf(T)[2]]
  <2> SUFFICES ASSUME NEW T \in SUBSET S, T # {}
               PROVE  FigureAt[PickOf(T)] = snap[PickOf(T)[1]][PickOf(T)[2]]
    OBVIOUS
  <2>1. PickOf(T) \in Campaign \X I!Day
    BY <1>2, PickIsIn
  <2>2. QED BY <2>1 DEF FigureAt
<1>4. ASSUME NEW g PROVE A(g) <=> Adds(g, FigureAt, S)
  BY <1>3 DEF Adds
<1> DEFINE g == CHOOSE h : A(h)
           k == CHOOSE h : Adds(h, FigureAt, S)
<1>5. Adds(k, FigureAt, S)
  BY <1>2, AddsExists
<1>6. A(g)
  <2> HIDE DEF A, k
  <2>1. A(k)
    BY <1>4, <1>5
  <2>2. QED BY <2>1
<1> HIDE DEF A, g, k
<1>7. Adds(g, FigureAt, S)
  BY <1>4, <1>6
<1>8. g[S] = k[S]
  BY <1>2, <1>5, <1>7, AddsAgree
<1>9. Total(FigureAt, S) = k[S]
  BY TotalUnfolds DEF k
<1>10. QED BY <1>1, <1>8, <1>9 DEF S, g

LEMMA WorkspaceAddsUp ==
    ASSUME I!InsightsTypeOK, NEW from \in 1..LastDay + 1, NEW to \in 1..LastDay + 1,
           NEW cut \in from..to - 1
    PROVE  I!TotalOfWorkspace(from, to) =
               I!TotalOfWorkspace(from, cut) + I!TotalOfWorkspace(cut + 1, to)
<1> DEFINE A == RowsFound(from, cut)
           B == RowsFound(cut + 1, to)
<1>1. Campaign \subseteq I!Object
  BY DEF I!Object
<1>2. \A c \in Campaign :
         /\ I!Found(c, from, to) = I!Found(c, from, cut) \cup I!Found(c, cut + 1, to)
         /\ I!Found(c, from, cut) \cap I!Found(c, cut + 1, to) = {}
  BY <1>1, FoundSplits
<1>3. \A i, j : \A x : x \in RowsFound(i, j) <=>
                  \E c \in Campaign : \E d \in I!Found(c, i, j) : x = <<c, d>>
  BY DEF RowsFound
<1>4. RowsFound(from, to) = A \cup B
  BY <1>2, <1>3
<1>5. A \cap B = {}
  BY <1>2, <1>3
<1>6. IsFiniteSet(A) /\ IsFiniteSet(B) /\ Counts(FigureAt, A) /\ Counts(FigureAt, B)
  BY RowsFoundCount
<1>7. Total(FigureAt, A \cup B) = Total(FigureAt, A) + Total(FigureAt, B)
  <2> HIDE DEF A, B
  <2> QED BY <1>5, <1>6, TotalUnion
<1>8. QED BY <1>4, <1>7, WorkspaceTotal

\* assertRange accepts the ranges of at most MaxRangeDays days, and no empty one.
LEMMA AcceptedIsLength ==
    ASSUME NEW from \in Nat, NEW to \in Nat
    PROVE  I!Accepted(from, to) <=>
               from..to # {} /\ I!Cardinality(from..to) <= MaxRangeDays
<1>1. from..to # {} <=> from <= to
  OBVIOUS
<1>2. from <= to => I!Cardinality(from..to) = to - from + 1
  BY FS_Interval, SameCardinality
<1>3. QED BY <1>1, <1>2 DEF I!Accepted

LEMMA TypedAddsUp == I!InsightsTypeOK => RangesAddUp
<1> SUFFICES ASSUME I!InsightsTypeOK, NEW from \in 1..LastDay + 1, NEW to \in 1..LastDay + 1
             PROVE  /\ I!Accepted(from, to) <=>
                          from..to # {} /\ I!Cardinality(from..to) <= MaxRangeDays
                    /\ \A cut \in from..to - 1 :
                        /\ \A o \in I!Object :
                              I!TotalOf(o, from, to) =
                                  I!TotalOf(o, from, cut) + I!TotalOf(o, cut + 1, to)
                        /\ I!TotalOfWorkspace(from, to) =
                              I!TotalOfWorkspace(from, cut) + I!TotalOfWorkspace(cut + 1, to)
  BY DEF RangesAddUp, I!RangesAddUp
<1>1. from \in Nat /\ to \in Nat
  OBVIOUS
<1>2. QED BY <1>1, AcceptedIsLength, ObjectAddsUp, WorkspaceAddsUp

\* Both ends of a range count: adjacent ranges add up to the whole, for every
\* object and over the workspace, and the ranges of at most MaxRangeDays days
\* are the ones accepted (insights.service.ts, assertRange and sumTotals).
THEOREM RangesTheorem == MCSpec => []RangesAddUp
<1>1. FiguresInv => RangesAddUp
  BY TypedAddsUp DEF FiguresInv
<1>2. QED BY <1>1, FiguresInvariance, PTL

=============================================================================
