------------------------ MODULE CampaignCacheProofs -------------------------
(***************************************************************************)
(* Proofs about CampaignCache for any number of campaigns, requests and    *)
(* account rows.                                                           *)
(*                                                                         *)
(* The argument is about what a handler holds in its record while others   *)
(* work: the account row it read may be gone, and then it writes nothing;  *)
(* the campaign it read may have changed at Meta, but one that is known    *)
(* there stays known and one that is deleted stays deleted.                *)
(***************************************************************************)
EXTENDS MCCampaignCache, FiniteSetTheorems, TLAPS

USE NumbersAssumption, NoneAssumption

\* All campaigns fit in the one page that a sync asks for (limit=250).
OnePage == IsFiniteSet(Campaign) /\ Cardinality(Campaign) <= PageSize

ReqState(n) ==
    [pc : Pc, acct : 0..n, camp : Campaign \cup {None}, status : Status \cup {None},
     snap : [Campaign -> Running \cup {None}], todo : SUBSET Campaign]

\* A row is about a campaign that Meta has had.
RowsKnown == \A c \in Campaign : local[c] # None => remote[c] # None

Changing == {"create", "update"}
Targeting == {"createFetch", "createRow", "update", "updateFetch", "updateRow",
              "delete", "deleteRow"}
Fetched == {"createRow", "updateRow"}

\* What a handler may rely on between its steps, whatever others do.
FlightOK(r) ==
    LET q == req[r] IN
    /\ q.pc \in Changing => q.status \in Running
    /\ q.pc \in Targeting => q.camp \in Campaign /\ remote[q.camp] # None
    /\ q.pc \in Fetched => /\ q.status # None
                           /\ q.status = "DELETED" => remote[q.camp] = "DELETED"
    /\ q.pc = "deleteRow" => remote[q.camp] = "DELETED"
    /\ q.pc = "syncUpsert" =>
           \A c \in Campaign : /\ q.snap[c] # None => remote[c] # None
                               /\ c \in q.todo => q.snap[c] # None
    /\ q.pc = "insights" /\ Current(r) => \A c \in q.todo : local[c] # None

\* A sync under way is right about every campaign nobody else has touched: its
\* snapshot is what Meta has, and what it has written already is, too.
SyncOK(r) ==
    LET q == req[r] IN
    q.pc = "syncUpsert" =>
        \A c \in Campaign \ touched[r] :
            /\ Current(r)
            /\ q.snap[c] = IF c \in Listed THEN remote[c] ELSE None
            /\ c \in Listed \ q.todo => local[c] = remote[c]

Inv ==
    /\ TypeOK
    /\ RowsKnown
    /\ \A r \in Request : FlightOK(r)
    /\ OnePage => \A r \in Request : SyncOK(r)

-----------------------------------------------------------------------------
(* How steps change the state: what all of them leave to the others.       *)

Others(r) == \A p \in Request \ {r} : req'[p] = req[p]

\* A campaign never becomes unknown at Meta, nor undeleted.
Grows ==
    \A c \in Campaign : /\ remote[c] # None => remote'[c] # None
                        /\ remote[c] = "DELETED" => remote'[c] = "DELETED"

\* A row stays until its account row goes.
RowsStay ==
    \A p \in Request :
        req'[p] = req[p] /\ Current(p)' =>
            Current(p) /\ \A c \in Campaign : local[c] # None => local'[c] # None

\* A sync of somebody else's is told about what a step of r changes.
Told(r) ==
    \A p \in Request \ {r} : req[p].pc = "syncUpsert" =>
        \A c \in Campaign \ touched'[p] :
            /\ c \notin touched[p]
            /\ remote'[c] = remote[c] /\ local'[c] = local[c] /\ acct' = acct

LEMMA Frame ==
    ASSUME Inv, NEW r \in Request \cup {None}, Others(r), TypeOK', RowsKnown',
           Grows, RowsStay, Told(r),
           r \in Request => FlightOK(r)' /\ (OnePage => SyncOK(r)')
    PROVE  Inv'
<1>1. ASSUME NEW p \in Request \ {r} PROVE FlightOK(p)'
  <2>1. FlightOK(p) /\ req'[p] = req[p]
    BY DEF Inv, Others
  <2>2. Current(p)' => Current(p) /\ \A c \in Campaign : local[c] # None => local'[c] # None
    BY <2>1 DEF RowsStay
  <2>3. req[p].todo \subseteq Campaign
    BY DEF Inv, TypeOK
  <2> HIDE DEF Current
  <2>4. QED BY <2>1, <2>2, <2>3 DEF FlightOK, Grows, Targeting, Fetched
<1>2. ASSUME OnePage, NEW p \in Request \ {r} PROVE SyncOK(p)'
  <2>1. SyncOK(p) /\ req'[p] = req[p]
    BY <1>2 DEF Inv, Others
  <2> SUFFICES ASSUME req[p].pc = "syncUpsert", NEW c \in Campaign \ touched'[p]
               PROVE  /\ Current(p)'
                      /\ req[p].snap[c] = IF c \in Listed' THEN remote'[c] ELSE None
                      /\ c \in Listed' \ req[p].todo => local'[c] = remote'[c]
    BY <2>1 DEF SyncOK
  <2>2. /\ c \notin touched[p]
        /\ remote'[c] = remote[c] /\ local'[c] = local[c] /\ acct' = acct
    BY DEF Told
  <2>3. c \in Listed' <=> c \in Listed
    BY <2>2 DEF Listed
  <2>4. /\ Current(p)
        /\ req[p].snap[c] = IF c \in Listed THEN remote[c] ELSE None
        /\ c \in Listed \ req[p].todo => local[c] = remote[c]
    BY <2>1, <2>2 DEF SyncOK
  <2>5. Current(p)'
    BY <2>1, <2>2, <2>4 DEF Current
  <2>6. QED BY <2>2, <2>3, <2>4, <2>5
<1>3. (\A p \in Request : FlightOK(p)') /\ (OnePage => \A p \in Request : SyncOK(p)')
  BY <1>1, <1>2
<1>4. QED BY <1>3 DEF Inv, OnePage

\* The record of one request is replaced.
LEMMA Moves ==
    ASSUME TypeOK, NEW r \in Request, NEW q \in ReqState(rows),
           req' = [req EXCEPT ![r] = q]
    PROVE  req' \in [Request -> ReqState(rows)] /\ req'[r] = q /\ Others(r)
  BY DEF TypeOK, ReqState, Others

LEMMA ReqType ==
    ASSUME TypeOK, NEW r \in Request
    PROVE  req[r] \in ReqState(rows)
  BY DEF TypeOK, ReqState

LEMMA IdleType ==
    ASSUME NEW n \in Nat
    PROVE  Idle \in ReqState(n) /\ Idle.pc = "idle"
  BY DEF Idle, ReqState, Pc, NoSnapshot

LEMMA FinishMoves ==
    ASSUME TypeOK, rows \in Nat, NEW r \in Request, Finish(r)
    PROVE  req' \in [Request -> ReqState(rows)] /\ req'[r].pc = "idle" /\ Others(r)
  BY IdleType, Moves DEF Finish

LEMMA GotoMoves ==
    ASSUME TypeOK, NEW r \in Request, NEW pc \in Pc, Goto(r, pc)
    PROVE  /\ req' \in [Request -> ReqState(rows)] /\ Others(r)
           /\ req'[r].pc = pc /\ req'[r].acct = req[r].acct /\ req'[r].camp = req[r].camp
           /\ req'[r].status = req[r].status /\ req'[r].snap = req[r].snap
           /\ req'[r].todo = req[r].todo
<1> DEFINE q == [req[r] EXCEPT !.pc = pc]
<1>1. /\ q \in ReqState(rows) /\ q.pc = pc /\ q.acct = req[r].acct
      /\ q.camp = req[r].camp /\ q.status = req[r].status
      /\ q.snap = req[r].snap /\ q.todo = req[r].todo
  BY ReqType DEF ReqState
<1>2. req' = [req EXCEPT ![r] = q]
  BY DEF Goto
<1> HIDE DEF q
<1>3. QED BY <1>1, <1>2, Moves

\* Nothing but the record of r, and what r has been told, is changed.
LEMMA Quiet ==
    ASSUME Inv, NEW r \in Request, req' \in [Request -> ReqState(rows)], Others(r),
           UNCHANGED <<remote, cache>>, touched' \in [Request -> SUBSET Campaign],
           \A p \in Request \ {r} : touched'[p] = touched[p],
           FlightOK(r)', OnePage => SyncOK(r)'
    PROVE  Inv'
<1>1. TypeOK'
  BY DEF Inv, TypeOK, ReqState, cache, NoSnapshot
<1>2. RowsKnown' /\ Grows
  BY DEF Inv, RowsKnown, Grows, cache
<1>3. RowsStay
  BY DEF RowsStay, Current, cache
<1>4. Told(r)
  BY DEF Told, cache
<1>5. QED BY <1>1, <1>2, <1>3, <1>4, Frame

\* One campaign changes at Meta.
LEMMA RemoteStep ==
    ASSUME Inv, NEW r \in Request \cup {None}, req' \in [Request -> ReqState(rows)],
           Others(r), NEW c \in Campaign, NEW s \in Status,
           remote[c] = "DELETED" => s = "DELETED",
           remote' = [remote EXCEPT ![c] = s], UNCHANGED cache, Touch({c}, r),
           r \in Request => FlightOK(r)' /\ (OnePage => SyncOK(r)')
    PROVE  Inv'
<1>1. touched' \in [Request -> SUBSET Campaign]
  BY DEF Inv, TypeOK, Touch
<1>2. remote' \in [Campaign -> Status \cup {None}]
  BY DEF Inv, TypeOK
<1>3. TypeOK'
  BY <1>1, <1>2 DEF Inv, TypeOK, ReqState, cache, NoSnapshot
<1>4. RowsKnown' /\ Grows
  BY DEF Inv, TypeOK, RowsKnown, Grows, cache
<1>5. RowsStay
  BY DEF RowsStay, Current, cache
<1>6. Told(r)
  BY DEF Told, Touch, Inv, TypeOK, cache
<1>7. QED BY <1>3, <1>4, <1>5, <1>6, Frame

\* One row is written under the current account row.
LEMMA LocalStep ==
    ASSUME Inv, NEW r \in Request, req' \in [Request -> ReqState(rows)],
           Others(r), NEW c \in Campaign, NEW s \in Status, acct # 0, remote[c] # None,
           local' = [local EXCEPT ![c] = s], UNCHANGED <<remote, acct, rows, insights>>,
           Touch({c}, r), FlightOK(r)', OnePage => SyncOK(r)'
    PROVE  Inv'
<1>1. touched' \in [Request -> SUBSET Campaign]
  BY DEF Inv, TypeOK, Touch
<1>2. local' \in [Campaign -> Status \cup {None}]
      /\ \A d \in Campaign : local'[d] = IF d = c THEN s ELSE local[d]
  BY DEF Inv, TypeOK
<1>3. insights' \subseteq {d \in Campaign : local'[d] # None}
  BY <1>2 DEF Inv, TypeOK, Status, Running
<1>4. TypeOK'
  BY <1>1, <1>2, <1>3 DEF Inv, TypeOK, ReqState
<1>5. RowsKnown' /\ Grows
  BY <1>2 DEF Inv, TypeOK, RowsKnown, Grows
<1>6. RowsStay
  BY <1>2 DEF RowsStay, Current, Status, Running
<1>7. Told(r)
  BY <1>2 DEF Told, Touch, Inv, TypeOK
<1>8. QED BY <1>4, <1>5, <1>6, <1>7, Frame

\* A request at rest relies on nothing, and only a sync in its loop is a sync
\* that has something to be right about.
LEMMA Resting == ASSUME NEW r, req[r].pc = "idle" PROVE FlightOK(r)
  BY DEF FlightOK, Changing, Targeting, Fetched

LEMMA NoSync == ASSUME NEW r, req[r].pc # "syncUpsert" PROVE SyncOK(r)
  BY DEF SyncOK

-----------------------------------------------------------------------------
(* The invariant holds initially, and every step preserves it.             *)

LEMMA InitInv == Init => Inv
<1> SUFFICES ASSUME Init PROVE Inv
  OBVIOUS
<1>1. req \in [Request -> ReqState(rows)] /\ \A r \in Request : req[r].pc = "idle"
  BY IdleType DEF Init
<1>2. TypeOK
  BY <1>1 DEF Init, TypeOK, ReqState, NoSnapshot, Status, Running
<1>3. RowsKnown
  BY DEF RowsKnown, Init, NoSnapshot
<1>4. \A r \in Request : FlightOK(r) /\ SyncOK(r)
  BY <1>1, Resting, NoSync
<1>5. QED BY <1>2, <1>3, <1>4 DEF Inv

\* The new account row is not the one that any handler has read.
LEMMA SyncAdAccountsInv == ASSUME Inv, SyncAdAccounts PROVE Inv'
<1>1. /\ rows \in Nat /\ rows' = rows + 1 /\ rows' \in 0..MaxRow /\ acct' \in 0..rows'
      /\ acct' \in {0, rows + 1} /\ acct \in 0..rows
      /\ UNCHANGED <<remote, req>> /\ local' = NoSnapshot /\ insights' = {}
  BY DEF SyncAdAccounts, Inv, TypeOK
<1>2. touched' \in [Request -> SUBSET Campaign]
  BY DEF SyncAdAccounts, Inv, TypeOK, Touch
<1>3. \A n \in 0..rows : n \in 0..rows'
  BY <1>1
<1>4. \A r \in Request : req[r] \in ReqState(rows) /\ req[r] \in ReqState(rows')
  BY <1>3, ReqType DEF Inv, ReqState
<1>5. TypeOK'
  <2>1. req' \in [Request -> ReqState(rows')]
    BY <1>1, <1>4 DEF Inv, TypeOK
  <2>2. local' \in [Campaign -> Status \cup {None}]
    BY <1>1 DEF NoSnapshot
  <2>3. remote' \in [Campaign -> Status \cup {None}]
    BY <1>1 DEF Inv, TypeOK
  <2>4. NoSnapshot' = NoSnapshot
    BY DEF NoSnapshot
  <2>5. QED BY <1>1, <1>2, <2>1, <2>2, <2>3, <2>4 DEF TypeOK, ReqState
<1>6. RowsKnown' /\ Grows
  BY <1>1 DEF RowsKnown, Grows, NoSnapshot
<1>7. \A r \in Request : ~Current(r)'
  BY <1>1, <1>4 DEF Current, ReqState
<1>8. RowsStay
  BY <1>7 DEF RowsStay
<1>9. Told(None)
  BY DEF Told, SyncAdAccounts, Touch, Inv, TypeOK
<1>10. Others(None)
  BY <1>1 DEF Others
<1>11. QED BY <1>5, <1>6, <1>8, <1>9, <1>10, Frame

LEMMA ElsewhereInv == ASSUME Inv, NEW c \in Campaign, ElsewhereChange(c) PROVE Inv'
<1> PICK s \in Status :
      /\ remote[c] \in Running \/ (remote[c] = None /\ s \in Running)
      /\ s # remote[c]
      /\ remote' = [remote EXCEPT ![c] = s]
  BY DEF ElsewhereChange
<1>1. UNCHANGED cache /\ UNCHANGED req /\ Touch({c}, None)
  BY DEF ElsewhereChange, cache
<1>2. remote[c] # "DELETED"
  BY DEF Running, Status
<1>3. Others(None) /\ req' \in [Request -> ReqState(rows)]
  BY <1>1 DEF Others, Inv, TypeOK, ReqState
<1>4. QED BY <1>1, <1>2, <1>3, RemoteStep

LEMMA CrashInv == ASSUME Inv, NEW r \in Request, Crash(r) PROVE Inv'
<1>1. req' \in [Request -> ReqState(rows)] /\ req'[r].pc = "idle" /\ Others(r)
  BY FinishMoves DEF Crash, Inv, TypeOK
<1>2. FlightOK(r)' /\ SyncOK(r)'
  BY <1>1, Resting, NoSync DEF FlightOK, SyncOK, Current, Listed, Changing, Targeting, Fetched
<1>3. touched' \in [Request -> SUBSET Campaign] /\ UNCHANGED <<remote, cache>>
      /\ \A p \in Request \ {r} : touched'[p] = touched[p]
  BY DEF Crash, Inv, TypeOK
<1>4. QED BY <1>1, <1>2, <1>3, Quiet

\* The handlers that start with nothing in hand but the account row they read.
LEMMA StartInv ==
    ASSUME Inv, NEW r \in Request, NEW q \in ReqState(rows), Start(r, q),
           UNCHANGED <<remote, cache, touched>>,
           q.pc # "syncUpsert", q.pc \notin Fetched, q.pc # "deleteRow",
           q.pc \in Changing => q.status \in Running,
           q.pc \in Targeting => q.camp \in Campaign /\ local[q.camp] # None,
           q.pc = "insights" => \A c \in q.todo : c \in Campaign /\ local[c] # None
    PROVE  Inv'
<1>1. req' \in [Request -> ReqState(rows)] /\ req'[r] = q /\ Others(r)
  BY Moves DEF Start, Inv
<1>2. FlightOK(r)'
  BY <1>1 DEF FlightOK, Inv, RowsKnown, cache
<1>3. SyncOK(r)'
  BY <1>1 DEF SyncOK
<1>4. touched' \in [Request -> SUBSET Campaign]
      /\ \A p \in Request \ {r} : touched'[p] = touched[p]
  BY DEF Inv, TypeOK
<1>5. QED BY <1>1, <1>2, <1>3, <1>4, Quiet

LEMMA SyncStartInv == ASSUME Inv, NEW r \in Request, SyncStart(r) PROVE Inv'
<1> DEFINE q == [Idle EXCEPT !.pc = "syncFetch", !.acct = acct]
<1>1. q \in ReqState(rows) /\ q.pc = "syncFetch"
  BY IdleType DEF Inv, TypeOK, ReqState, Pc
<1>2. Start(r, q) /\ UNCHANGED <<remote, cache, touched>>
  BY DEF SyncStart
<1> HIDE DEF q
<1>3. QED BY <1>1, <1>2, StartInv DEF Fetched, Changing, Targeting

\* With one page, the page is all that Meta lists.
LEMMA PageIsAll ==
    ASSUME OnePage, NEW page \in SUBSET Listed,
           Cardinality(page) = PageSize \/ page = Listed
    PROVE  page = Listed
<1>1. CASE Cardinality(page) = PageSize
  <2>1. page \subseteq Campaign /\ Listed \subseteq Campaign /\ page \subseteq Listed
    BY DEF Listed
  <2>2. Cardinality(page) \in Nat /\ Cardinality(Campaign) \in Nat
        /\ Cardinality(page) <= Cardinality(Campaign)
    BY <2>1, FS_Subset, FS_CardinalityType DEF OnePage
  <2>3. Cardinality(page) = Cardinality(Campaign)
    BY <1>1, <2>2 DEF OnePage
  <2>4. page = Campaign
    BY <2>1, <2>3, FS_Subset DEF OnePage
  <2>5. QED BY <2>1, <2>4
<1>2. QED BY <1>1

LEMMA SyncFetchInv == ASSUME Inv, NEW r \in Request, SyncFetch(r) PROVE Inv'
<1>1. PICK page \in SUBSET Listed :
        /\ Cardinality(page) = PageSize \/ page = Listed
        /\ req' = [req EXCEPT
              ![r].pc = "syncUpsert", ![r].todo = page,
              ![r].snap = [c \in Campaign |-> IF c \in page THEN remote[c] ELSE None]]
  BY DEF SyncFetch
<1> DEFINE snap == [c \in Campaign |-> IF c \in page THEN remote[c] ELSE None]
           q == [req[r] EXCEPT !.pc = "syncUpsert", !.todo = page, !.snap = snap]
<1>2. page \subseteq Campaign /\ \A c \in page : remote[c] \in Running
  BY DEF Listed
<1>3. snap \in [Campaign -> Running \cup {None}]
      /\ \A c \in Campaign : snap[c] = IF c \in page THEN remote[c] ELSE None
  BY <1>2
<1>4. req' = [req EXCEPT ![r] = q]
  BY <1>1
<1> HIDE DEF snap
<1>5. q \in ReqState(rows) /\ q.pc = "syncUpsert" /\ q.todo = page /\ q.snap = snap
      /\ q.acct = req[r].acct
  BY <1>2, <1>3, ReqType DEF Inv, ReqState, Pc
<1> HIDE DEF q
<1>6. req' \in [Request -> ReqState(rows)] /\ req'[r] = q /\ Others(r)
  BY <1>4, <1>5, Moves DEF Inv
<1>7. UNCHANGED <<remote, cache>>
      /\ touched' = [touched EXCEPT ![r] = IF Current(r) THEN {} ELSE Campaign]
  BY DEF SyncFetch
<1>8. touched' \in [Request -> SUBSET Campaign]
      /\ \A p \in Request \ {r} : touched'[p] = touched[p]
      /\ touched'[r] = IF Current(r) THEN {} ELSE Campaign
  BY <1>7 DEF Inv, TypeOK
<1>9. FlightOK(r)'
  <2>1. \A c \in Campaign : (snap[c] # None => remote'[c] # None) /\ (c \in page => snap[c] # None)
    BY <1>2, <1>3, <1>7 DEF Running, Status
  <2>2. QED BY <1>5, <1>6, <2>1 DEF FlightOK, Changing, Targeting, Fetched
<1>10. ASSUME OnePage PROVE SyncOK(r)'
  <2>1. page = Listed /\ Listed' = Listed
    BY <1>1, <1>7, <1>10, PageIsAll DEF Listed
  <2>2. ASSUME Current(r) PROVE Current(r)'
    BY <1>5, <1>6, <1>7, <2>2 DEF Current, cache
  <2>3. ASSUME NEW c \in Campaign \ touched'[r]
        PROVE  /\ Current(r)'
               /\ snap[c] = IF c \in Listed' THEN remote'[c] ELSE None
               /\ c \notin Listed' \ page
    BY <1>3, <1>7, <1>8, <2>1, <2>2, <2>3
  <2>4. QED BY <1>5, <1>6, <2>3 DEF SyncOK
<1>11. QED BY <1>6, <1>7, <1>8, <1>9, <1>10, Quiet

LEMMA SyncUpsertInv == ASSUME Inv, NEW r \in Request, SyncUpsert(r) PROVE Inv'
<1>1. PICK c \in req[r].todo :
        IF Current(r)
        THEN /\ local' = [local EXCEPT ![c] = req[r].snap[c]]
             /\ req' = [req EXCEPT ![r].todo = @ \ {c}]
             /\ Touch({c}, r)
        ELSE /\ Finish(r)
             /\ UNCHANGED <<local, touched>>
  BY DEF SyncUpsert
<1>2. UNCHANGED <<remote, acct, rows, insights>> /\ req[r].pc = "syncUpsert"
  BY DEF SyncUpsert
<1>3. CASE ~Current(r)
  <2>1. req' \in [Request -> ReqState(rows)] /\ req'[r].pc = "idle" /\ Others(r)
    BY <1>1, <1>3, FinishMoves DEF Inv, TypeOK
  <2>2. FlightOK(r)' /\ SyncOK(r)'
    BY <2>1 DEF FlightOK, SyncOK, Changing, Targeting, Fetched
  <2>3. UNCHANGED <<remote, cache>> /\ touched' \in [Request -> SUBSET Campaign]
        /\ \A p \in Request \ {r} : touched'[p] = touched[p]
    BY <1>1, <1>2, <1>3 DEF Inv, TypeOK, cache
  <2>4. QED BY <2>1, <2>2, <2>3, Quiet
<1>4. CASE Current(r)
  <2> DEFINE q == [req[r] EXCEPT !.todo = req[r].todo \ {c}]
  <2>1. /\ q \in ReqState(rows) /\ q.pc = "syncUpsert" /\ q.todo = req[r].todo \ {c}
        /\ q.snap = req[r].snap /\ q.acct = req[r].acct
    BY <1>2, ReqType DEF Inv, ReqState
  <2>2. req' = [req EXCEPT ![r] = q]
    BY <1>1, <1>4
  <2> HIDE DEF q
  <2>3. req' \in [Request -> ReqState(rows)] /\ req'[r] = q /\ Others(r)
    BY <2>1, <2>2, Moves DEF Inv
  <2>4. c \in Campaign /\ req[r].snap[c] \in Running \cup {None}
    BY ReqType DEF Inv, ReqState
  <2>5. req[r].snap[c] \in Running /\ remote[c] # None
    BY <1>2, <2>4 DEF Inv, FlightOK
  <2>6. local' = [local EXCEPT ![c] = req[r].snap[c]] /\ Touch({c}, r) /\ acct # 0
    BY <1>1, <1>4 DEF Current
  <2>7. FlightOK(r)'
    <3>1. FlightOK(r)
      BY DEF Inv
    <3>2. QED BY <1>2, <2>1, <2>3, <3>1 DEF FlightOK, Changing, Targeting, Fetched
  <2>8. ASSUME OnePage PROVE SyncOK(r)'
    <3>1. touched'[r] = touched[r]
      BY <2>6 DEF Touch, Inv, TypeOK
    <3>2. Listed' = Listed /\ Current(r)'
      BY <1>2, <1>4, <2>1, <2>3 DEF Listed, Current
    <3>3. \A d \in Campaign : local'[d] = IF d = c THEN req[r].snap[c] ELSE local[d]
      BY <2>6 DEF Inv, TypeOK
    <3>4. SyncOK(r)
      BY <2>8 DEF Inv
    <3>5. ASSUME NEW d \in Campaign \ touched'[r]
          PROVE  /\ q.snap[d] = IF d \in Listed' THEN remote'[d] ELSE None
                 /\ d \in Listed' \ q.todo => local'[d] = remote'[d]
      BY <1>2, <2>1, <3>1, <3>2, <3>3, <3>4 DEF SyncOK
    <3>6. QED BY <2>1, <2>3, <3>2, <3>5 DEF SyncOK
  <2>9. QED BY <1>2, <2>3, <2>4, <2>5, <2>6, <2>7, <2>8, LocalStep DEF Status
<1>5. QED BY <1>3, <1>4

Missing(r) ==
    {c \in Campaign : /\ Current(r) /\ req[r].snap[c] = None
                      /\ local[c] \in Running}

LEMMA SyncMarkInv == ASSUME Inv, NEW r \in Request, SyncMark(r) PROVE Inv'
<1> DEFINE missing == Missing(r)
<1>1. /\ local' = [c \in Campaign |-> IF c \in missing THEN "DELETED" ELSE local[c]]
      /\ Goto(r, "synced") /\ Touch(missing, r)
      /\ UNCHANGED <<remote, acct, rows, insights>>
  BY DEF SyncMark, Missing
<1>2. missing \subseteq Campaign /\ \A c \in missing : acct # 0 /\ local[c] \in Running
  BY DEF Missing, Current
<1> HIDE DEF missing
<1>3. req' \in [Request -> ReqState(rows)] /\ Others(r) /\ req'[r].pc = "synced"
  BY <1>1, GotoMoves DEF Inv, Pc
<1>4. touched' \in [Request -> SUBSET Campaign]
  BY <1>1, <1>2 DEF Inv, TypeOK, Touch
<1>5. /\ local' \in [Campaign -> Status \cup {None}]
      /\ \A c \in Campaign : local'[c] # None <=> local[c] # None
  BY <1>1, <1>2 DEF Inv, TypeOK, Status, Running
<1>6. acct = 0 => local' = NoSnapshot
  BY <1>1, <1>2 DEF Inv, TypeOK, NoSnapshot
<1>7. TypeOK'
  BY <1>1, <1>3, <1>4, <1>5, <1>6 DEF Inv, TypeOK, ReqState, NoSnapshot
<1>8. RowsKnown' /\ Grows
  BY <1>1, <1>5 DEF Inv, RowsKnown, Grows
<1>9. RowsStay
  BY <1>1, <1>5 DEF RowsStay, Current
<1>10. Told(r)
  <2> SUFFICES ASSUME NEW p \in Request \ {r}, req[p].pc = "syncUpsert",
                      NEW c \in Campaign \ touched'[p]
               PROVE  c \notin touched[p] /\ local'[c] = local[c]
    BY <1>1 DEF Told
  <2>1. touched'[p] = touched[p] \cup missing
    BY <1>1 DEF Touch
  <2>2. QED BY <1>1, <2>1
<1>11. FlightOK(r)' /\ SyncOK(r)'
  BY <1>3 DEF FlightOK, SyncOK, Changing, Targeting, Fetched
<1>12. QED BY <1>3, <1>7, <1>8, <1>9, <1>10, <1>11, Frame

LEMMA SyncDoneInv == ASSUME Inv, NEW r \in Request, SyncDone(r) PROVE Inv'
<1>1. req' \in [Request -> ReqState(rows)] /\ req'[r].pc = "idle" /\ Others(r)
  BY FinishMoves DEF SyncDone, Inv, TypeOK
<1>2. FlightOK(r)' /\ SyncOK(r)'
  BY <1>1 DEF FlightOK, SyncOK, Changing, Targeting, Fetched
<1>3. touched' \in [Request -> SUBSET Campaign] /\ UNCHANGED <<remote, cache>>
      /\ \A p \in Request \ {r} : touched'[p] = touched[p]
  BY DEF SyncDone, Inv, TypeOK
<1>4. QED BY <1>1, <1>2, <1>3, Quiet

LEMMA CreateStartInv ==
    ASSUME Inv, NEW r \in Request, NEW s \in Running, CreateStart(r, s)
    PROVE  Inv'
<1> DEFINE q == [Idle EXCEPT !.pc = "create", !.acct = acct, !.status = s]
<1>1. q \in ReqState(rows) /\ q.pc = "create" /\ q.status = s
  BY IdleType DEF Inv, TypeOK, ReqState, Pc, Status
<1>2. Start(r, q) /\ UNCHANGED <<remote, cache, touched>>
  BY DEF CreateStart
<1> HIDE DEF q
<1>3. QED BY <1>1, <1>2, StartInv DEF Fetched, Changing, Targeting

LEMMA CreateRemoteInv == ASSUME Inv, NEW r \in Request, CreateRemote(r) PROVE Inv'
<1>1. PICK c \in Campaign :
        /\ remote[c] = None
        /\ remote' = [remote EXCEPT ![c] = req[r].status]
        /\ req' = [req EXCEPT ![r].pc = "createFetch", ![r].camp = c]
        /\ Touch({c}, r)
  BY DEF CreateRemote
<1>2. UNCHANGED cache /\ req[r].status \in Running
  BY DEF CreateRemote, Inv, FlightOK, Changing
<1> DEFINE q == [req[r] EXCEPT !.pc = "createFetch", !.camp = c]
<1>3. q \in ReqState(rows) /\ q.pc = "createFetch" /\ q.camp = c
  BY ReqType DEF Inv, ReqState, Pc
<1>4. req' = [req EXCEPT ![r] = q]
  BY <1>1
<1> HIDE DEF q
<1>5. req' \in [Request -> ReqState(rows)] /\ req'[r] = q /\ Others(r)
  BY <1>3, <1>4, Moves DEF Inv
<1>6. remote'[c] # None
  BY <1>1, <1>2 DEF Inv, TypeOK, Running, Status
<1>7. FlightOK(r)' /\ SyncOK(r)'
  BY <1>3, <1>5, <1>6 DEF FlightOK, SyncOK, Changing, Targeting, Fetched
<1>8. QED BY <1>1, <1>2, <1>5, <1>7, RemoteStep DEF Status

LEMMA FetchMoves ==
    ASSUME Inv, NEW r \in Request, NEW pc, NEW next \in Pc, Fetch(r, pc, next),
           pc \in Targeting
    PROVE  /\ req' \in [Request -> ReqState(rows)] /\ Others(r)
           /\ req'[r].pc = next /\ req'[r].camp = req[r].camp /\ req'[r].acct = req[r].acct
           /\ req[r].camp \in Campaign /\ remote[req[r].camp] \in Status
           /\ req'[r].status = remote[req[r].camp]
<1> DEFINE q == [req[r] EXCEPT !.pc = next, !.status = remote[req[r].camp]]
<1>1. req[r].camp \in Campaign /\ remote[req[r].camp] \in Status
  BY DEF Fetch, Inv, TypeOK, FlightOK
<1>2. /\ q \in ReqState(rows) /\ q.pc = next /\ q.status = remote[req[r].camp]
      /\ q.camp = req[r].camp /\ q.acct = req[r].acct
  BY <1>1, ReqType DEF Inv, ReqState
<1>3. req' = [req EXCEPT ![r] = q]
  BY DEF Fetch
<1> HIDE DEF q
<1>4. QED BY <1>1, <1>2, <1>3, Moves DEF Inv

LEMMA FetchInv ==
    ASSUME Inv, NEW r \in Request, NEW pc \in Targeting, NEW next \in Fetched,
           Fetch(r, pc, next)
    PROVE  Inv'
<1>1. next \in Pc /\ next \notin Changing /\ next # "deleteRow"
      /\ next # "syncUpsert" /\ next # "insights"
  BY DEF Pc, Fetched, Changing
<1>2. /\ req' \in [Request -> ReqState(rows)] /\ Others(r)
      /\ req'[r].pc = next /\ req'[r].camp = req[r].camp
      /\ req[r].camp \in Campaign /\ remote[req[r].camp] \in Status
      /\ req'[r].status = remote[req[r].camp]
  BY <1>1, FetchMoves
<1>3. UNCHANGED <<remote, cache, touched>>
  BY DEF Fetch
<1>4. FlightOK(r)' /\ SyncOK(r)'
  BY <1>1, <1>2, <1>3 DEF FlightOK, SyncOK, Status, Running
<1>5. touched' \in [Request -> SUBSET Campaign]
      /\ \A p \in Request \ {r} : touched'[p] = touched[p]
  BY <1>3 DEF Inv, TypeOK
<1>6. QED BY <1>2, <1>3, <1>4, <1>5, Quiet

\* The handlers end with one write of a row, if the account row is still there.
LEMMA RowInv ==
    ASSUME Inv, NEW r \in Request, NEW c \in Campaign, NEW s \in Status, remote[c] # None,
           \/ Current(r) /\ local' = [local EXCEPT ![c] = s] /\ Touch({c}, r)
           \/ UNCHANGED <<local, touched>>,
           Finish(r), UNCHANGED <<remote, acct, rows, insights>>
    PROVE  Inv'
<1>1. req' \in [Request -> ReqState(rows)] /\ req'[r].pc = "idle" /\ Others(r)
  BY FinishMoves DEF Inv, TypeOK
<1>2. FlightOK(r)' /\ SyncOK(r)'
  BY <1>1 DEF FlightOK, SyncOK, Changing, Targeting, Fetched
<1>3. CASE Current(r) /\ local' = [local EXCEPT ![c] = s] /\ Touch({c}, r)
  <2>1. acct # 0
    BY <1>3 DEF Current
  <2>2. QED BY <1>1, <1>2, <1>3, <2>1, LocalStep
<1>4. CASE UNCHANGED <<local, touched>>
  <2>1. UNCHANGED <<remote, cache>> /\ touched' \in [Request -> SUBSET Campaign]
        /\ \A p \in Request \ {r} : touched'[p] = touched[p]
    BY <1>4 DEF Inv, TypeOK, cache
  <2>2. QED BY <1>1, <1>2, <2>1, Quiet
<1>5. QED BY <1>3, <1>4

\* What the record of a handler about to write its row says.
LEMMA AtRow ==
    ASSUME Inv, NEW r \in Request, req[r].pc \in Fetched
    PROVE  /\ req[r].camp \in Campaign /\ remote[req[r].camp] # None
           /\ req[r].status \in Status
  BY ReqType DEF Inv, FlightOK, ReqState, Fetched, Targeting

LEMMA CreateRowInv == ASSUME Inv, NEW r \in Request, CreateRow(r) PROVE Inv'
  BY AtRow, RowInv DEF CreateRow, Fetched

LEMMA UpdateRowInv == ASSUME Inv, NEW r \in Request, UpdateRow(r) PROVE Inv'
  BY AtRow, RowInv DEF UpdateRow, Fetched

LEMMA DeleteRowInv == ASSUME Inv, NEW r \in Request, DeleteRow(r) PROVE Inv'
<1>1. req[r].camp \in Campaign /\ remote[req[r].camp] # None /\ "DELETED" \in Status
  BY DEF DeleteRow, Inv, FlightOK, Targeting, Status
<1>2. QED BY <1>1, RowInv DEF DeleteRow

LEMMA UpdateStartInv ==
    ASSUME Inv, NEW r \in Request, NEW c \in Campaign, NEW s \in Running,
           UpdateStart(r, c, s)
    PROVE  Inv'
<1> DEFINE q == [Idle EXCEPT !.pc = "update", !.acct = acct, !.camp = c, !.status = s]
<1>1. q \in ReqState(rows) /\ q.pc = "update" /\ q.status = s /\ q.camp = c
  BY IdleType DEF Inv, TypeOK, ReqState, Pc, Status
<1>2. Start(r, q) /\ UNCHANGED <<remote, cache, touched>> /\ local[c] # None
  BY DEF UpdateStart, Status, Running
<1> HIDE DEF q
<1>3. QED BY <1>1, <1>2, StartInv DEF Fetched, Changing

LEMMA DeleteStartInv ==
    ASSUME Inv, NEW r \in Request, NEW c \in Campaign, DeleteStart(r, c)
    PROVE  Inv'
<1> DEFINE q == [Idle EXCEPT !.pc = "delete", !.acct = acct, !.camp = c]
<1>1. q \in ReqState(rows) /\ q.pc = "delete" /\ q.camp = c
  BY IdleType DEF Inv, TypeOK, ReqState, Pc
<1>2. Start(r, q) /\ UNCHANGED <<remote, cache, touched>> /\ local[c] # None
  BY DEF DeleteStart, Status, Running
<1> HIDE DEF q
<1>3. QED BY <1>1, <1>2, StartInv DEF Fetched, Changing

LEMMA InsightsStartInv ==
    ASSUME Inv, NEW r \in Request, NEW C \in SUBSET Campaign, InsightsStart(r, C)
    PROVE  Inv'
<1> DEFINE q == [Idle EXCEPT !.pc = "insights", !.acct = acct, !.todo = C]
<1>1. q \in ReqState(rows) /\ q.pc = "insights" /\ q.todo = C
  BY IdleType DEF Inv, TypeOK, ReqState, Pc
<1>2. Start(r, q) /\ UNCHANGED <<remote, cache, touched>>
      /\ \A c \in C : c \in Campaign /\ local[c] # None
  BY DEF InsightsStart, Status, Running
<1> HIDE DEF q
<1>3. QED BY <1>1, <1>2, StartInv DEF Fetched, Changing, Targeting

\* The two steps that change a campaign which has a row at Meta.
LEMMA ChangeInv ==
    ASSUME Inv, NEW r \in Request, NEW s \in Status, NEW pc \in {"updateFetch", "deleteRow"},
           req[r].pc \in Targeting,
           remote[req[r].camp] = "DELETED" => s = "DELETED",
           pc = "deleteRow" => s = "DELETED",
           remote' = [remote EXCEPT ![req[r].camp] = s],
           Goto(r, pc), Touch({req[r].camp}, r), UNCHANGED cache
    PROVE  Inv'
<1>1. req' \in [Request -> ReqState(rows)] /\ Others(r) /\ req'[r].pc = pc
      /\ req'[r].camp = req[r].camp
  BY GotoMoves DEF Inv, Pc
<1>2. req[r].camp \in Campaign
  BY DEF Inv, FlightOK
<1>3. remote'[req[r].camp] = s /\ s # None
  BY <1>2 DEF Inv, TypeOK
<1>4. FlightOK(r)' /\ SyncOK(r)'
  BY <1>1, <1>2, <1>3 DEF FlightOK, SyncOK, Changing, Fetched
<1>5. QED BY <1>1, <1>2, <1>4, RemoteStep

\* A handler that gives up changes nothing.
LEMMA GivesUp ==
    ASSUME Inv, NEW r \in Request, Finish(r), UNCHANGED <<remote, cache, touched>>
    PROVE  Inv'
<1>1. req' \in [Request -> ReqState(rows)] /\ req'[r].pc = "idle" /\ Others(r)
  BY FinishMoves DEF Inv, TypeOK
<1>2. FlightOK(r)' /\ SyncOK(r)'
  BY <1>1 DEF FlightOK, SyncOK, Changing, Targeting, Fetched
<1>3. touched' \in [Request -> SUBSET Campaign]
      /\ \A p \in Request \ {r} : touched'[p] = touched[p]
  BY DEF Inv, TypeOK
<1>4. QED BY <1>1, <1>2, <1>3, Quiet

LEMMA UpdateRemoteInv == ASSUME Inv, NEW r \in Request, UpdateRemote(r) PROVE Inv'
<1>1. req[r].pc = "update" /\ UNCHANGED cache
  BY DEF UpdateRemote
<1>2. req[r].pc \in Targeting /\ req[r].status \in Running
  BY <1>1 DEF Targeting, Inv, FlightOK, Changing
<1>3. CASE remote[req[r].camp] \in Running
  <2>1. /\ remote' = [remote EXCEPT ![req[r].camp] = req[r].status]
        /\ Goto(r, "updateFetch")
        /\ Touch({req[r].camp}, r)
    BY <1>3 DEF UpdateRemote
  <2>2. req[r].status \in Status /\ remote[req[r].camp] # "DELETED"
    BY <1>2, <1>3 DEF Status, Running
  <2>3. QED BY <1>1, <1>2, <2>1, <2>2, ChangeInv
<1>4. CASE remote[req[r].camp] \notin Running
  BY <1>1, <1>4, GivesUp DEF UpdateRemote
<1>5. QED BY <1>3, <1>4

LEMMA DeleteRemoteInv == ASSUME Inv, NEW r \in Request, DeleteRemote(r) PROVE Inv'
<1>1. req[r].pc \in Targeting /\ UNCHANGED cache /\ "DELETED" \in Status
  BY DEF DeleteRemote, Targeting, Status
<1>2. CASE /\ remote' = [remote EXCEPT ![req[r].camp] = "DELETED"]
           /\ Goto(r, "deleteRow") /\ Touch({req[r].camp}, r)
  BY <1>1, <1>2, ChangeInv
<1>3. CASE Finish(r) /\ UNCHANGED <<remote, touched>>
  BY <1>1, <1>3, GivesUp
<1>4. QED BY <1>2, <1>3 DEF DeleteRemote

LEMMA InsightsUpsertInv == ASSUME Inv, NEW r \in Request, InsightsUpsert(r) PROVE Inv'
<1>1. PICK c \in req[r].todo :
        IF Current(r)
        THEN /\ insights' = insights \cup {c}
             /\ IF req[r].todo # {c} THEN req' = [req EXCEPT ![r].todo = @ \ {c}]
                                     ELSE Finish(r)
        ELSE Finish(r) /\ UNCHANGED insights
  BY DEF InsightsUpsert
<1>2. UNCHANGED <<remote, acct, rows, local, touched>> /\ req[r].pc = "insights"
  BY DEF InsightsUpsert
<1>3. CASE ~Current(r)
  BY <1>1, <1>2, <1>3, GivesUp DEF cache
<1>4. CASE Current(r)
  <2>1. c \in Campaign /\ local[c] # None
    BY <1>2, <1>4, ReqType DEF Inv, FlightOK, ReqState
  <2>2. /\ req' \in [Request -> ReqState(rows)] /\ Others(r)
        /\ FlightOK(r)' /\ SyncOK(r)'
    <3>1. CASE Finish(r)
      <4>1. req' \in [Request -> ReqState(rows)] /\ req'[r].pc = "idle" /\ Others(r)
        BY <3>1, FinishMoves DEF Inv, TypeOK
      <4>2. QED BY <4>1 DEF FlightOK, SyncOK, Changing, Targeting, Fetched
    <3>2. CASE req' = [req EXCEPT ![r].todo = @ \ {c}]
      <4> DEFINE q == [req[r] EXCEPT !.todo = req[r].todo \ {c}]
      <4>1. /\ q \in ReqState(rows) /\ q.pc = "insights" /\ q.todo \subseteq req[r].todo
            /\ q.acct = req[r].acct
        BY <1>2, ReqType DEF Inv, ReqState
      <4>2. req' = [req EXCEPT ![r] = q]
        BY <3>2
      <4> HIDE DEF q
      <4>3. req' \in [Request -> ReqState(rows)] /\ req'[r] = q /\ Others(r)
        BY <4>1, <4>2, Moves DEF Inv
      <4>4. \A d \in q.todo : local[d] # None
        BY <1>2, <1>4, <4>1 DEF Inv, FlightOK
      <4>5. QED BY <1>2, <4>1, <4>3, <4>4
                DEF FlightOK, SyncOK, Changing, Targeting, Fetched
    <3>3. QED BY <1>1, <1>4, <3>1, <3>2
  <2>3. insights' \subseteq {d \in Campaign : local'[d] # None}
    BY <1>1, <1>2, <1>4, <2>1 DEF Inv, TypeOK
  <2>4. TypeOK'
    BY <1>2, <2>2, <2>3 DEF Inv, TypeOK, ReqState, NoSnapshot
  <2>5. RowsKnown' /\ Grows /\ RowsStay /\ Told(r)
    BY <1>2 DEF Inv, RowsKnown, Grows, RowsStay, Current, Told
  <2>6. QED BY <2>2, <2>4, <2>5, Frame
<1>5. QED BY <1>3, <1>4

LEMMA InvStep == ASSUME Inv, [Next]_vars PROVE Inv'
<1>1. ASSUME NEW r \in Request, Sync(r) PROVE Inv'
  BY <1>1, SyncStartInv, SyncFetchInv, SyncUpsertInv, SyncMarkInv, SyncDoneInv DEF Sync
<1>2. ASSUME NEW r \in Request, Create(r) PROVE Inv'
  <2>1. "createFetch" \in Targeting /\ "createRow" \in Fetched
    BY DEF Targeting, Fetched
  <2>2. QED BY <1>2, <2>1, CreateStartInv, CreateRemoteInv, FetchInv, CreateRowInv
            DEF Create, CreateFetch
<1>3. ASSUME NEW r \in Request, Update(r) PROVE Inv'
  <2>1. "updateFetch" \in Targeting /\ "updateRow" \in Fetched
    BY DEF Targeting, Fetched
  <2>2. QED BY <1>3, <2>1, UpdateStartInv, UpdateRemoteInv, FetchInv, UpdateRowInv
            DEF Update, UpdateFetch
<1>4. ASSUME NEW r \in Request, Delete(r) PROVE Inv'
  BY <1>4, DeleteStartInv, DeleteRemoteInv, DeleteRowInv DEF Delete
<1>5. ASSUME NEW r \in Request, Insights(r) PROVE Inv'
  BY <1>5, InsightsStartInv, InsightsUpsertInv DEF Insights
<1>6. CASE UNCHANGED vars
  <2>1. TypeOK' /\ RowsKnown'
    BY <1>6 DEF Inv, TypeOK, RowsKnown, vars, NoSnapshot
  <2>2. ASSUME NEW r \in Request PROVE FlightOK(r)' /\ (OnePage => SyncOK(r)')
    BY <1>6 DEF Inv, FlightOK, SyncOK, Current, Listed, vars
  <2>3. OnePage' = OnePage
    BY DEF OnePage
  <2>4. QED BY <2>1, <2>2, <2>3 DEF Inv
<1>7. QED
  BY <1>1, <1>2, <1>3, <1>4, <1>5, <1>6, SyncAdAccountsInv, CrashInv, ElsewhereInv
  DEF Next, Own

LEMMA Invariance == Spec => []Inv
<1>1. Init => Inv
  BY InitInv
<1>2. Inv /\ [Next]_vars => Inv'
  BY InvStep
<1>3. QED BY <1>1, <1>2, PTL DEF Spec

\* The cache is well formed at all times: the rows hang on the account row that
\* there is, and the insights on rows (the foreign keys of schema.prisma).
THEOREM TypeCorrect == Spec => []TypeOK
<1>1. Inv => TypeOK
  BY DEF Inv
<1>2. QED BY <1>1, Invariance, PTL

-----------------------------------------------------------------------------
(* What a sync has achieved at its end.                                    *)

\* A handler of one request leaves the records of the others alone.
LEMMA StepOthers ==
    ASSUME Inv, NEW p \in Request,
           Sync(p) \/ Create(p) \/ Update(p) \/ Delete(p) \/ Insights(p) \/ Crash(p)
    PROVE  Others(p)
<1> req \in [Request -> ReqState(rows)]
  BY DEF Inv, TypeOK, ReqState
<1>1. CASE Sync(p)
  BY <1>1 DEF Sync, SyncStart, SyncFetch, SyncUpsert, SyncMark, SyncDone,
              Start, Goto, Finish, Others
<1>2. CASE Create(p)
  BY <1>2 DEF Create, CreateStart, CreateRemote, CreateFetch, CreateRow, Fetch,
              Start, Finish, Others
<1>3. CASE Update(p)
  BY <1>3 DEF Update, UpdateStart, UpdateRemote, UpdateFetch, UpdateRow, Fetch,
              Start, Goto, Finish, Others
<1>4. CASE Delete(p)
  BY <1>4 DEF Delete, DeleteStart, DeleteRemote, DeleteRow, Start, Goto, Finish, Others
<1>5. CASE Insights(p)
  BY <1>5 DEF Insights, InsightsStart, InsightsUpsert, Start, Finish, Others
<1>6. CASE Crash(p)
  BY <1>6 DEF Crash, Finish, Others
<1>7. QED BY <1>1, <1>2, <1>3, <1>4, <1>5, <1>6

LEMMA OnlyMark ==
    ASSUME Inv, [Next]_vars, NEW r \in Request,
           req[r].pc = "syncUpsert", req'[r].pc = "synced"
    PROVE  SyncMark(r)
<1>1. ASSUME NEW p \in Request \ {r},
             Sync(p) \/ Create(p) \/ Update(p) \/ Delete(p) \/ Insights(p) \/ Crash(p)
      PROVE  FALSE
  BY <1>1, StepOthers DEF Others
<1>2. ASSUME Create(r) \/ Update(r) \/ Delete(r) \/ Insights(r) PROVE FALSE
  BY <1>2 DEF Create, CreateStart, CreateRemote, CreateFetch, CreateRow, Fetch, Start,
              Update, UpdateStart, UpdateRemote, UpdateFetch, UpdateRow,
              Delete, DeleteStart, DeleteRemote, DeleteRow,
              Insights, InsightsStart, InsightsUpsert
<1>3. ~Finish(r)
  BY DEF Finish, Idle, Inv, TypeOK
<1>4. ~Crash(r) /\ ~SyncStart(r) /\ ~SyncFetch(r) /\ ~SyncDone(r)
  BY <1>3 DEF Crash, SyncStart, Start, SyncFetch, SyncDone
<1>5. ~SyncUpsert(r)
  <2> SUFFICES ASSUME SyncUpsert(r) PROVE FALSE
    OBVIOUS
  <2>1. PICK c : req' = [req EXCEPT ![r].todo = @ \ {c}]
    BY <1>3 DEF SyncUpsert
  <2>2. req'[r].pc = req[r].pc
    BY <2>1 DEF Inv, TypeOK
  <2>3. QED BY <2>2
<1>6. ~UNCHANGED req
  OBVIOUS
<1>7. QED BY <1>1, <1>2, <1>4, <1>5, <1>6
          DEF Next, Own, Sync, SyncAdAccounts, ElsewhereChange, vars

LEMMA MarkExact ==
    ASSUME OnePage, Inv, [Next]_vars, NEW r \in Request,
           req[r].pc = "syncUpsert", req'[r].pc = "synced",
           NEW c \in Campaign \ touched[r]
    PROVE  Exact(c)'
<1>1. SyncMark(r)
  BY OnlyMark
<1>2. /\ Current(r)
      /\ req[r].snap[c] = IF c \in Listed THEN remote[c] ELSE None
      /\ c \in Listed \ req[r].todo => local[c] = remote[c]
  BY DEF Inv, SyncOK
<1>3. req[r].todo = {} /\ UNCHANGED remote
      /\ local'[c] = IF c \in Missing(r) THEN "DELETED" ELSE local[c]
  BY <1>1 DEF SyncMark, Missing
<1>4. c \in Listed' <=> c \in Listed
  BY <1>3 DEF Listed
<1>5. CASE c \in Listed
  <2>1. remote[c] # None
    BY <1>5 DEF Listed, Status, Running
  <2>2. c \notin Missing(r)
    BY <1>2, <1>5, <2>1 DEF Missing
  <2>3. QED BY <1>2, <1>3, <1>4, <1>5, <2>2 DEF Exact
<1>6. CASE c \notin Listed
  <2>1. local[c] \in Running => c \in Missing(r)
    BY <1>2, <1>6 DEF Missing
  <2>2. local'[c] \notin Running
    BY <1>3, <2>1 DEF Running
  <2>3. QED BY <1>4, <1>6, <2>2 DEF Exact
<1>7. QED BY <1>5, <1>6

\* Campaigns that fit in one page: whatever requests overlap, die or are
\* overtaken, a sync that reaches its end has made every campaign exact that
\* nobody else has changed since it read Meta (CampaignsService.syncFromMeta).
THEOREM SyncTheorem == ASSUME OnePage PROVE Spec => SyncIsExact
<1>1. Inv /\ [Next]_vars =>
        [\A r \in Request :
            req[r].pc = "syncUpsert" /\ req'[r].pc = "synced"
                => \A c \in Campaign \ touched[r] : Exact(c)']_vars
  BY MarkExact
<1>2. QED BY <1>1, Invariance, PTL DEF Spec, SyncIsExact

-----------------------------------------------------------------------------
(* One request at a time.                                                  *)

Updating == {"update", "updateFetch", "updateRow"}

\* A handler that is alone can rely on more: what its listing did not show and
\* has a row is deleted, and what it is going to write is not marked DELETED.
AloneOK(r) ==
    LET q == req[r] IN
    /\ q.pc = "syncUpsert" =>
           \A c \in Campaign :
               /\ q.snap[c] = None /\ local[c] # None => remote[c] = "DELETED"
               /\ c \in q.todo => local[c] # "DELETED"
    /\ q.pc \in Updating => local[q.camp] # "DELETED"

AloneInv == AtMostOne /\ DeletedIsGone /\ \A r \in Request : AloneOK(r)

\* What a step keeps: no row loses its mark while its account row stays.
MarksStay ==
    \A c \in Campaign : local[c] = "DELETED" /\ acct' = acct => local'[c] = "DELETED"

\* What has to be shown of a step of r: the others are at rest.
AloneGoal(r) == DeletedIsGone' /\ MarksStay /\ AloneOK(r)'

LEMMA StepGrows == ASSUME Inv, Next PROVE Grows
<1>1. ASSUME NEW r \in Request, Sync(r) \/ Insights(r) \/ Crash(r) PROVE Grows
  BY <1>1 DEF Sync, SyncStart, SyncFetch, SyncUpsert, SyncMark, SyncDone,
              Insights, InsightsStart, InsightsUpsert, Crash, Grows
<1>2. ASSUME NEW r \in Request, Create(r) PROVE Grows
  <2>1. CASE CreateRemote(r)
    <3>1. req[r].status \in Running
      BY <2>1 DEF CreateRemote, Inv, FlightOK, Changing
    <3>2. QED BY <2>1, <3>1 DEF CreateRemote, Grows, Inv, TypeOK, Running, Status
  <2>2. CASE UNCHANGED remote
    BY <2>2 DEF Grows
  <2>3. QED BY <1>2, <2>1, <2>2 DEF Create, CreateStart, CreateFetch, Fetch, CreateRow
<1>3. ASSUME NEW r \in Request, Update(r) PROVE Grows
  <2>1. CASE UpdateRemote(r)
    <3>1. req[r].status \in Running
      BY <2>1 DEF UpdateRemote, Inv, FlightOK, Changing
    <3>2. QED BY <2>1, <3>1 DEF UpdateRemote, Grows, Inv, TypeOK, Running, Status
  <2>2. CASE UNCHANGED remote
    BY <2>2 DEF Grows
  <2>3. QED BY <1>3, <2>1, <2>2 DEF Update, UpdateStart, UpdateFetch, Fetch, UpdateRow
<1>4. ASSUME NEW r \in Request, Delete(r) PROVE Grows
  <2>1. CASE DeleteRemote(r)
    BY <2>1 DEF DeleteRemote, Grows, Inv, TypeOK, Running, Status
  <2>2. CASE UNCHANGED remote
    BY <2>2 DEF Grows
  <2>3. QED BY <1>4, <2>1, <2>2 DEF Delete, DeleteStart, DeleteRow
<1>5. ASSUME NEW c \in Campaign, ElsewhereChange(c) PROVE Grows
  BY <1>5 DEF ElsewhereChange, Grows, Inv, TypeOK, Running, Status
<1>6. ASSUME SyncAdAccounts PROVE Grows
  BY <1>6 DEF SyncAdAccounts, Grows
<1>7. QED BY <1>1, <1>2, <1>3, <1>4, <1>5, <1>6 DEF Next, Own

\* Steps that leave the rows alone, and do not end in a state that relies on them.
LEMMA AloneQuiet ==
    ASSUME AloneInv, Grows, UNCHANGED local, NEW r \in Request, AloneOK(r)'
    PROVE  AloneGoal(r)
  BY DEF AloneInv, AloneGoal, DeletedIsGone, MarksStay, Grows

LEMMA AloneElsewhere ==
    ASSUME Inv, AloneInv, Grows, UNCHANGED <<local, req>>
    PROVE  DeletedIsGone' /\ MarksStay /\ \A r \in Request : AloneOK(r)'
<1>1. DeletedIsGone' /\ MarksStay
  BY DEF AloneInv, DeletedIsGone, MarksStay, Grows
<1>2. \A r \in Request : AloneOK(r)'
  BY DEF AloneInv, AloneOK, Grows
<1>3. QED BY <1>1, <1>2

LEMMA AloneAdAccounts ==
    ASSUME Inv, AloneInv, SyncAdAccounts
    PROVE  DeletedIsGone' /\ MarksStay /\ \A r \in Request : AloneOK(r)'
<1>1. \A c : c \in Campaign => local'[c] = None
  BY DEF SyncAdAccounts, NoSnapshot
<1>2. UNCHANGED req /\ None # "DELETED"
  BY DEF SyncAdAccounts, Status
<1>3. DeletedIsGone'
  BY <1>1, <1>2 DEF DeletedIsGone
<1>4. MarksStay
  <2>1. acct' = acct => acct = 0
    BY DEF SyncAdAccounts, Inv, TypeOK
  <2>2. acct = 0 => \A c \in Campaign : local[c] = None
    BY DEF Inv, TypeOK, NoSnapshot
  <2>3. QED BY <1>2, <2>1, <2>2 DEF MarksStay
<1>5. ASSUME NEW r \in Request PROVE AloneOK(r)'
  <2>1. req[r].pc \in Updating => req[r].camp \in Campaign
    BY DEF Inv, FlightOK, Updating, Targeting
  <2>2. QED BY <1>1, <1>2, <2>1 DEF AloneOK
<1>6. QED BY <1>3, <1>4, <1>5

\* Most states rely on nothing of the kind.
LEMMA Plain ==
    ASSUME NEW r, req'[r].pc \notin Updating \cup {"syncUpsert"}
    PROVE  AloneOK(r)'
  BY DEF AloneOK

LEMMA FinishPc ==
    ASSUME Inv, NEW r \in Request, Finish(r)
    PROVE  req'[r].pc = "idle"
  BY FinishMoves DEF Inv, TypeOK

LEMMA AloneSync ==
    ASSUME OnePage, Inv, AloneInv, Grows, NEW r \in Request, Sync(r)
    PROVE  AloneGoal(r)
<1>1. CASE SyncStart(r)
  <2>1. req'[r].pc = "syncFetch"
    BY <1>1 DEF SyncStart, Start, Inv, TypeOK, Idle
  <2>2. QED BY <1>1, <2>1, Plain, AloneQuiet DEF SyncStart, cache, Updating
<1>2. CASE SyncFetch(r)
  <2>1. PICK page \in SUBSET Listed :
          /\ Cardinality(page) = PageSize \/ page = Listed
          /\ req' = [req EXCEPT
                ![r].pc = "syncUpsert", ![r].todo = page,
                ![r].snap = [c \in Campaign |-> IF c \in page THEN remote[c] ELSE None]]
    BY <1>2 DEF SyncFetch
  <2>2. UNCHANGED <<remote, local>>
    BY <1>2 DEF SyncFetch, cache
  <2>3. page = Listed
    BY <2>1, PageIsAll
  <2>4. /\ req'[r].pc = "syncUpsert" /\ req'[r].todo = page
        /\ \A c \in Campaign : req'[r].snap[c] = IF c \in page THEN remote[c] ELSE None
    BY <2>1 DEF Inv, TypeOK
  <2>5. ASSUME NEW c \in Campaign
        PROVE  /\ req'[r].snap[c] = None /\ local'[c] # None => remote'[c] = "DELETED"
               /\ c \in req'[r].todo => local'[c] # "DELETED"
    <3>1. CASE c \in Listed
      <4>1. remote[c] \in Running /\ remote[c] # "DELETED" /\ remote[c] # None
        BY <3>1 DEF Listed, Running, Status
      <4>2. QED BY <3>1, <4>1, <2>2, <2>3, <2>4 DEF AloneInv, DeletedIsGone
    <3>2. CASE c \notin Listed
      <4>1. remote[c] \notin Running /\ remote[c] \in Status \cup {None}
        BY <3>2 DEF Listed, Inv, TypeOK
      <4>2. local[c] # None => remote[c] # None
        BY DEF Inv, RowsKnown
      <4>3. QED BY <3>2, <4>1, <4>2, <2>2, <2>3, <2>4 DEF Status
    <3>3. QED BY <3>1, <3>2
  <2>6. AloneOK(r)'
    BY <2>4, <2>5 DEF AloneOK, Updating
  <2>7. QED BY <2>2, <2>6, AloneQuiet
<1>3. CASE SyncUpsert(r)
  <2>1. PICK c \in req[r].todo :
          IF Current(r)
          THEN /\ local' = [local EXCEPT ![c] = req[r].snap[c]]
               /\ req' = [req EXCEPT ![r].todo = @ \ {c}]
          ELSE Finish(r) /\ UNCHANGED local
    BY <1>3 DEF SyncUpsert
  <2>2. req[r].pc = "syncUpsert" /\ UNCHANGED <<remote, acct>>
    BY <1>3 DEF SyncUpsert
  <2>3. CASE ~Current(r)
    <3>1. req'[r].pc = "idle"
      BY <2>1, <2>3, FinishPc
    <3>2. QED BY <2>1, <2>3, <3>1, Plain, AloneQuiet DEF Updating
  <2>4. CASE Current(r)
    <3>1. c \in Campaign /\ req[r].snap[c] # None /\ req[r].snap[c] \in Running \cup {None}
          /\ local[c] # "DELETED"
      BY <2>2, ReqType DEF Inv, ReqState, FlightOK, AloneInv, AloneOK
    <3>2. req[r].snap[c] # "DELETED"
      BY <3>1 DEF Running
    <3>3. \A d \in Campaign : local'[d] = IF d = c THEN req[r].snap[c] ELSE local[d]
      BY <2>1, <2>4 DEF Inv, TypeOK
    <3>4. DeletedIsGone' /\ MarksStay
      BY <2>2, <3>1, <3>2, <3>3 DEF AloneInv, DeletedIsGone, MarksStay
    <3>5. req'[r].pc = "syncUpsert" /\ req'[r].todo = req[r].todo \ {c}
          /\ req'[r].snap = req[r].snap
      BY <2>1, <2>2, <2>4 DEF Inv, TypeOK
    <3>6. ASSUME NEW d \in Campaign
          PROVE  /\ req[r].snap[d] = None /\ local'[d] # None => remote'[d] = "DELETED"
                 /\ d \in req[r].todo \ {c} => local'[d] # "DELETED"
      BY <2>2, <3>1, <3>2, <3>3 DEF AloneInv, AloneOK
    <3>7. AloneOK(r)'
      BY <3>5, <3>6 DEF AloneOK, Updating
    <3>8. QED BY <3>4, <3>7 DEF AloneGoal
  <2>5. QED BY <2>3, <2>4
<1>4. CASE SyncMark(r)
  <2>1. /\ req[r].pc = "syncUpsert" /\ UNCHANGED remote /\ Goto(r, "synced")
        /\ \A c \in Campaign : local'[c] = IF c \in Missing(r) THEN "DELETED" ELSE local[c]
    BY <1>4 DEF SyncMark, Missing
  <2>2. \A c \in Missing(r) : remote[c] = "DELETED"
    <3>1. ASSUME NEW c \in Missing(r) PROVE remote[c] = "DELETED"
      <4>1. c \in Campaign /\ req[r].snap[c] = None /\ local[c] # None
        BY DEF Missing, Running, Status
      <4>2. QED BY <2>1, <4>1 DEF AloneInv, AloneOK
    <3>2. QED BY <3>1
  <2>3. DeletedIsGone' /\ MarksStay
    BY <2>1, <2>2 DEF AloneInv, DeletedIsGone, MarksStay
  <2>4. req'[r].pc = "synced"
    BY <2>1 DEF Goto, Inv, TypeOK
  <2>5. QED BY <2>3, <2>4, Plain DEF AloneGoal, Updating
<1>5. CASE SyncDone(r)
  <2>1. req'[r].pc = "idle" /\ UNCHANGED local
    BY <1>5, FinishPc DEF SyncDone, cache
  <2>2. QED BY <2>1, Plain, AloneQuiet DEF Updating
<1>6. QED BY <1>1, <1>2, <1>3, <1>4, <1>5 DEF Sync

LEMMA AloneCreate ==
    ASSUME Inv, AloneInv, Grows, NEW r \in Request, Create(r)
    PROVE  AloneGoal(r)
<1>1. CASE UNCHANGED local
  <2>1. req'[r].pc \in {"idle", "create", "createFetch", "createRow"}
    <3>1. ASSUME NEW s \in Running, CreateStart(r, s) PROVE req'[r].pc = "create"
      BY <3>1 DEF CreateStart, Start, Inv, TypeOK, Idle
    <3>2. ASSUME CreateRemote(r) PROVE req'[r].pc = "createFetch"
      BY <3>2 DEF CreateRemote, Inv, TypeOK
    <3>3. ASSUME CreateFetch(r) PROVE req'[r].pc = "createRow"
      BY <3>3 DEF CreateFetch, Fetch, Inv, TypeOK
    <3>4. ASSUME CreateRow(r) PROVE req'[r].pc = "idle"
      BY <3>4, FinishPc DEF CreateRow
    <3>5. QED BY <3>1, <3>2, <3>3, <3>4 DEF Create
  <2>2. QED BY <1>1, <2>1, Plain, AloneQuiet DEF Updating
<1>2. CASE ~UNCHANGED local
  <2>1. CreateRow(r)
    BY <1>2 DEF Create, CreateStart, CreateRemote, CreateFetch, Fetch, cache
  <2>2. req'[r].pc = "idle"
    BY <2>1, FinishPc DEF CreateRow
  <2>3. req[r].camp \in Campaign /\ UNCHANGED remote
        /\ (req[r].status = "DELETED" => remote[req[r].camp] = "DELETED")
    BY <2>1, AtRow DEF CreateRow, Inv, FlightOK, Fetched
  <2>4. /\ local[req[r].camp] = None
        /\ local' = [local EXCEPT ![req[r].camp] = req[r].status]
    BY <1>2, <2>1 DEF CreateRow
  <2>5. DeletedIsGone' /\ MarksStay
    BY <2>3, <2>4 DEF Inv, TypeOK, AloneInv, DeletedIsGone, MarksStay, Status
  <2>6. QED BY <2>2, <2>5, Plain DEF AloneGoal, Updating
<1>3. QED BY <1>1, <1>2

LEMMA AloneUpdate ==
    ASSUME Inv, AloneInv, Grows, NEW r \in Request, Update(r)
    PROVE  AloneGoal(r)
<1>1. ASSUME NEW c \in Campaign, NEW s \in Running, UpdateStart(r, c, s)
      PROVE  AloneGoal(r)
  <2>1. req'[r].pc = "update" /\ req'[r].camp = c
    BY <1>1 DEF UpdateStart, Start, Inv, TypeOK, Idle
  <2>2. UNCHANGED local /\ local[c] # "DELETED"
    BY <1>1 DEF UpdateStart, cache, Running
  <2>3. AloneOK(r)'
    BY <2>1, <2>2 DEF AloneOK
  <2>4. QED BY <2>2, <2>3, AloneQuiet
<1>2. ASSUME UpdateRemote(r) \/ UpdateFetch(r) PROVE AloneGoal(r)
  <2>1. UNCHANGED local /\ req[r].pc \in Updating
    BY <1>2 DEF UpdateRemote, UpdateFetch, Fetch, cache, Updating
  <2>2. req'[r].pc = "idle" \/ (req'[r].pc \in Updating /\ req'[r].camp = req[r].camp)
    <3>1. CASE Finish(r)
      BY <3>1, FinishPc
    <3>2. CASE Goto(r, "updateFetch")
      BY <3>2, GotoMoves DEF Inv, Pc, Updating
    <3>3. CASE UpdateFetch(r)
      BY <3>3 DEF UpdateFetch, Fetch, Inv, TypeOK, Updating
    <3>4. QED BY <1>2, <3>1, <3>2, <3>3 DEF UpdateRemote
  <2>3. CASE req'[r].pc = "idle"
    BY <2>1, <2>3, Plain, AloneQuiet DEF Updating
  <2>4. CASE req'[r].pc \in Updating /\ req'[r].camp = req[r].camp
    <3>1. local'[req'[r].camp] # "DELETED"
      BY <2>1, <2>4 DEF AloneInv, AloneOK
    <3>2. AloneOK(r)'
      BY <2>4, <3>1 DEF AloneOK, Updating
    <3>3. QED BY <2>1, <3>2, AloneQuiet
  <2>5. QED BY <2>2, <2>3, <2>4
<1>3. ASSUME UpdateRow(r) PROVE AloneGoal(r)
  <2>1. req'[r].pc = "idle"
    BY <1>3, FinishPc DEF UpdateRow
  <2>2. CASE UNCHANGED local
    BY <2>1, <2>2, Plain, AloneQuiet DEF Updating
  <2>3. CASE local' = [local EXCEPT ![req[r].camp] = req[r].status]
    <3>1. req[r].camp \in Campaign /\ UNCHANGED remote
          /\ (req[r].status = "DELETED" => remote[req[r].camp] = "DELETED")
      BY <1>3, AtRow DEF UpdateRow, Inv, FlightOK, Fetched
    <3>2. local[req[r].camp] # "DELETED"
      BY <1>3 DEF UpdateRow, AloneInv, AloneOK, Updating
    <3>3. DeletedIsGone' /\ MarksStay
      BY <2>3, <3>1, <3>2 DEF Inv, TypeOK, AloneInv, DeletedIsGone, MarksStay
    <3>4. QED BY <2>1, <3>3, Plain DEF AloneGoal, Updating
  <2>4. QED BY <1>3, <2>2, <2>3 DEF UpdateRow
<1>4. QED BY <1>1, <1>2, <1>3 DEF Update

LEMMA AloneDelete ==
    ASSUME Inv, AloneInv, Grows, NEW r \in Request, Delete(r)
    PROVE  AloneGoal(r)
<1>1. AloneOK(r)'
  <2>1. ASSUME NEW c \in Campaign, DeleteStart(r, c) PROVE req'[r].pc = "delete"
    BY <2>1 DEF DeleteStart, Start, Inv, TypeOK, Idle
  <2>2. ASSUME Goto(r, "deleteRow") PROVE req'[r].pc = "deleteRow"
    BY <2>2 DEF Goto, Inv, TypeOK
  <2>3. req'[r].pc \in {"idle", "delete", "deleteRow"}
    BY <2>1, <2>2, FinishPc DEF Delete, DeleteRemote, DeleteRow
  <2>4. QED BY <2>3, Plain DEF Updating
<1>2. CASE UNCHANGED local
  BY <1>1, <1>2, AloneQuiet
<1>3. CASE ~UNCHANGED local
  <2>1. DeleteRow(r)
    BY <1>3 DEF Delete, DeleteStart, DeleteRemote, cache
  <2>2. UNCHANGED remote /\ local' = [local EXCEPT ![req[r].camp] = "DELETED"]
        /\ remote[req[r].camp] = "DELETED"
    BY <1>3, <2>1 DEF DeleteRow, Inv, FlightOK
  <2>3. DeletedIsGone' /\ MarksStay
    BY <2>2 DEF Inv, TypeOK, AloneInv, DeletedIsGone, MarksStay
  <2>4. QED BY <1>1, <2>3 DEF AloneGoal
<1>4. QED BY <1>2, <1>3

LEMMA AloneInsights ==
    ASSUME Inv, AloneInv, Grows, NEW r \in Request, Insights(r)
    PROVE  AloneGoal(r)
<1>1. req'[r].pc \in {"idle", "insights"}
  <2>1. ASSUME NEW C \in SUBSET Campaign, InsightsStart(r, C) PROVE req'[r].pc = "insights"
    BY <2>1 DEF InsightsStart, Start, Inv, TypeOK, Idle
  <2>2. CASE InsightsUpsert(r)
    <3>1. Finish(r) \/ \E c : req' = [req EXCEPT ![r].todo = @ \ {c}]
      BY <2>2 DEF InsightsUpsert
    <3>2. req[r].pc = "insights"
      BY <2>2 DEF InsightsUpsert
    <3>3. QED BY <3>1, <3>2, FinishPc DEF Inv, TypeOK
  <2>3. QED BY <2>1, <2>2 DEF Insights
<1>2. UNCHANGED local
  BY DEF Insights, InsightsStart, InsightsUpsert, cache
<1>3. QED BY <1>1, <1>2, Plain, AloneQuiet DEF Updating

LEMMA AloneCrash ==
    ASSUME Inv, AloneInv, Grows, NEW r \in Request, Crash(r)
    PROVE  AloneGoal(r)
<1>1. req'[r].pc = "idle" /\ UNCHANGED local
  BY FinishPc DEF Crash, cache
<1>2. QED BY <1>1, Plain, AloneQuiet DEF Updating

\* A handler is busy before or after each of its steps.
LEMMA Busy ==
    ASSUME Inv, NEW r \in Request,
           Sync(r) \/ Create(r) \/ Update(r) \/ Delete(r) \/ Insights(r) \/ Crash(r)
    PROVE  req[r].pc # "idle" \/ req'[r].pc # "idle"
<1>1. CASE req[r].pc = "idle"
  <2>1. SyncStart(r) \/ (\E s \in Running : CreateStart(r, s))
        \/ (\E c \in Campaign, s \in Running : UpdateStart(r, c, s))
        \/ (\E c \in Campaign : DeleteStart(r, c))
        \/ (\E C \in SUBSET Campaign : InsightsStart(r, C))
    BY <1>1 DEF Sync, SyncFetch, SyncUpsert, SyncMark, SyncDone, Create, CreateRemote,
       CreateFetch, CreateRow, Fetch, Update, UpdateRemote, UpdateFetch, UpdateRow,
       Delete, DeleteRemote, DeleteRow, Insights, InsightsUpsert, Crash
  <2>2. CASE SyncStart(r)
    BY <2>2 DEF SyncStart, Start, Inv, TypeOK, Idle
  <2>3. ASSUME NEW s \in Running, CreateStart(r, s) PROVE req'[r].pc # "idle"
    BY <2>3 DEF CreateStart, Start, Inv, TypeOK, Idle
  <2>4. ASSUME NEW c \in Campaign, NEW s \in Running, UpdateStart(r, c, s)
        PROVE  req'[r].pc # "idle"
    BY <2>4 DEF UpdateStart, Start, Inv, TypeOK, Idle
  <2>5. ASSUME NEW c \in Campaign, DeleteStart(r, c) PROVE req'[r].pc # "idle"
    BY <2>5 DEF DeleteStart, Start, Inv, TypeOK, Idle
  <2>6. ASSUME NEW C \in SUBSET Campaign, InsightsStart(r, C) PROVE req'[r].pc # "idle"
    BY <2>6 DEF InsightsStart, Start, Inv, TypeOK, Idle
  <2>7. QED BY <2>1, <2>2, <2>3, <2>4, <2>5, <2>6
<1>2. QED BY <1>1

\* As long as nothing overlaps, the other handlers are at rest before and after.
LEMMA OthersRest ==
    ASSUME Inv, AtMostOne, AtMostOne', NEW r \in Request,
           Sync(r) \/ Create(r) \/ Update(r) \/ Delete(r) \/ Insights(r) \/ Crash(r)
    PROVE  \A p \in Request \ {r} : req[p].pc = "idle" /\ req'[p].pc = "idle"
<1>1. req[r].pc # "idle" \/ req'[r].pc # "idle"
  BY Busy
<1>2. \A p \in Request \ {r} : req'[p] = req[p]
  BY StepOthers DEF Others
<1>3. QED BY <1>1, <1>2 DEF AtMostOne

LEMMA AloneStep ==
    ASSUME OnePage, Inv, AloneInv, AtMostOne', Next
    PROVE  AloneInv' /\ MarksStay
<1>1. Grows
  BY StepGrows
<1>2. ASSUME NEW r \in Request,
             Sync(r) \/ Create(r) \/ Update(r) \/ Delete(r) \/ Insights(r) \/ Crash(r)
      PROVE  AloneInv' /\ MarksStay
  <2>1. AloneGoal(r)
    BY <1>1, <1>2, AloneSync, AloneCreate, AloneUpdate, AloneDelete, AloneInsights, AloneCrash
  <2>2. \A p \in Request \ {r} : req'[p].pc = "idle"
    BY <1>2, OthersRest DEF AloneInv
  <2>3. \A p \in Request \ {r} : AloneOK(p)'
    BY <2>2, Plain DEF Updating
  <2>4. \A p \in Request : AloneOK(p)'
    BY <2>1, <2>3 DEF AloneGoal
  <2>5. QED BY <2>1, <2>4 DEF AloneInv, AloneGoal
<1>3. CASE SyncAdAccounts
  BY <1>3, AloneAdAccounts DEF AloneInv
<1>4. ASSUME NEW c \in Campaign, ElsewhereChange(c) PROVE AloneInv' /\ MarksStay
  BY <1>1, <1>4, AloneElsewhere DEF AloneInv, ElsewhereChange, cache
<1>5. QED BY <1>2, <1>3, <1>4 DEF Next, Own

\* What MCCampaignCache explores are behaviours of CampaignCache.
LEMMA MCRefines == MCSpec => Spec
<1>1. MCInit => Init
  BY DEF MCInit
<1>2. [MCNext]_<<vars, mode>> => [Next]_vars
  BY DEF MCNext, Next
<1>3. QED BY <1>1, <1>2, PTL DEF MCSpec, Spec

MCInv == mode # "overlap" => AloneInv

LEMMA MCInvInit == MCInit => MCInv
<1> SUFFICES ASSUME MCInit, mode # "overlap" PROVE AloneInv
  BY DEF MCInv
<1>1. AtMostOne
  BY DEF MCInit, Allowed
<1>2. DeletedIsGone
  BY DEF MCInit, Init, DeletedIsGone, NoSnapshot, Status
<1>3. \A r \in Request : AloneOK(r)
  BY DEF MCInit, Init, AloneOK, Updating, Idle
<1>4. QED BY <1>1, <1>2, <1>3 DEF AloneInv

LEMMA MCInvStep ==
    ASSUME OnePage, Inv, MCInv, [MCNext]_<<vars, mode>>
    PROVE  MCInv' /\ (mode # "overlap" => MarksStay)
<1>1. CASE MCNext
  <2>1. mode' = mode /\ Next /\ (mode # "overlap" => AtMostOne')
    BY <1>1 DEF MCNext, Next, Allowed
  <2>2. QED BY <2>1, AloneStep DEF MCInv
<1>2. CASE UNCHANGED <<vars, mode>>
  BY <1>2 DEF MCInv, AloneInv, AtMostOne, DeletedIsGone, AloneOK, MarksStay, vars
<1>3. QED BY <1>1, <1>2

LEMMA MCInvariance == ASSUME OnePage PROVE MCSpec => []Inv /\ []MCInv
<1>1. Inv /\ MCInv /\ [MCNext]_<<vars, mode>> => MCInv'
  BY MCInvStep
<1>2. QED BY <1>1, MCInvInit, MCRefines, Invariance, PTL DEF MCSpec

\* As long as no two requests overlap, and with campaigns that fit in one page,
\* a campaign that runs at Meta is never shown as deleted, although others
\* change campaigns there and processes die at any point.
THEOREM DeletedTheorem == ASSUME OnePage PROVE MCSpec => []AloneDeletedIsGone
<1>1. MCInv => AloneDeletedIsGone
  BY DEF MCInv, AloneInv, AloneDeletedIsGone
<1>2. QED BY <1>1, MCInvariance, PTL

\* Then, too, a row that says DELETED says so until its account row is replaced.
THEOREM FinalTheorem == ASSUME OnePage PROVE MCSpec => AloneDeletedIsFinal
<1>1. Inv /\ MCInv /\ [MCNext]_<<vars, mode>> =>
        [mode # "overlap" =>
            \A c \in Campaign :
                local[c] = "DELETED" /\ acct' = acct => local'[c] = "DELETED"]_vars
  BY MCInvStep DEF MarksStay
<1>2. QED BY <1>1, MCInvariance, PTL DEF MCSpec, AloneDeletedIsFinal

-----------------------------------------------------------------------------
(* One request at a time, none cut short, and nobody else.                 *)

Writing == {"updateFetch", "updateRow", "deleteRow"}

\* A handler whose account row is gone finds no rows at all; what a handler has
\* read of Meta is what Meta has.
OursOK(r) ==
    LET q == req[r] IN
    /\ q.pc # "idle" => Current(r) \/ local = NoSnapshot
    /\ q.pc = "syncUpsert" =>
           \A c \in Campaign : q.snap[c] = IF c \in Listed THEN remote[c] ELSE None
    /\ q.pc \in Fetched => q.status = remote[q.camp]

\* Meta has been changed, and the row will be.
Pending(r, c) == req[r].pc \in Writing /\ req[r].camp = c /\ Current(r)

RowsOf(r) == \A c \in Campaign : local[c] # None => Exact(c) \/ Pending(r, c)

OursInv ==
    /\ \A r \in Request : OursOK(r)
    /\ \A c \in Campaign : local[c] # None => Exact(c) \/ \E r \in Request : Pending(r, c)

OursGoal(r) == OursOK(r)' /\ RowsOf(r)'

\* With nothing pending, rows that are left alone stay exact as long as Meta is.
LEMMA OursQuiet ==
    ASSUME NEW r \in Request, RowsOf(r), req[r].pc \notin Writing,
           UNCHANGED <<remote, local>>
    PROVE  RowsOf(r)'
  BY DEF RowsOf, Pending, Exact, Listed

LEMMA OursStart ==
    ASSUME Inv, NEW r \in Request, RowsOf(r), UNCHANGED <<remote, cache>>, acct # 0,
           req[r].pc = "idle", req'[r].acct = acct,
           req'[r].pc \notin Fetched \cup {"syncUpsert"}
    PROVE  OursGoal(r)
<1>1. RowsOf(r)'
  BY OursQuiet DEF Writing, cache
<1>2. OursOK(r)'
  BY DEF OursOK, Current, cache
<1>3. QED BY <1>1, <1>2 DEF OursGoal

\* A handler that ends without a write had nothing to write.
LEMMA OursEnds ==
    ASSUME Inv, NEW r \in Request, RowsOf(r), OursOK(r), UNCHANGED <<remote, local>>,
           Finish(r), req[r].pc \notin Writing \/ ~Current(r)
    PROVE  OursGoal(r)
<1>1. req'[r].pc = "idle"
  BY FinishPc
<1>2. OursOK(r)'
  BY <1>1 DEF OursOK, Fetched
<1>3. RowsOf(r)'
  BY DEF RowsOf, Pending, Exact, Listed
<1>4. QED BY <1>2, <1>3 DEF OursGoal

\* The handler goes on, with the account row it read.
LEMMA OursStays ==
    ASSUME NEW r \in Request, OursOK(r), req[r].pc # "idle", UNCHANGED <<acct, local>>,
           req'[r].acct = req[r].acct
    PROVE  Current(r)' \/ local' = NoSnapshot
  BY DEF OursOK, Current

LEMMA OursSync ==
    ASSUME OnePage, Inv, NEW r \in Request, OursOK(r), RowsOf(r), Sync(r)
    PROVE  OursGoal(r)
<1>1. CASE SyncStart(r)
  <2>1. req'[r].pc = "syncFetch" /\ req'[r].acct = acct
    BY <1>1 DEF SyncStart, Start, Inv, TypeOK, Idle
  <2>2. QED BY <1>1, <2>1, OursStart DEF SyncStart, Start, Fetched
<1>2. CASE SyncFetch(r)
  <2>1. PICK page \in SUBSET Listed :
          /\ Cardinality(page) = PageSize \/ page = Listed
          /\ req' = [req EXCEPT
                ![r].pc = "syncUpsert", ![r].todo = page,
                ![r].snap = [c \in Campaign |-> IF c \in page THEN remote[c] ELSE None]]
    BY <1>2 DEF SyncFetch
  <2>2. UNCHANGED <<remote, local, acct>> /\ req[r].pc = "syncFetch"
    BY <1>2 DEF SyncFetch, cache
  <2>3. page = Listed /\ Listed' = Listed
    BY <2>1, <2>2, PageIsAll DEF Listed
  <2>4. /\ req'[r].pc = "syncUpsert" /\ req'[r].acct = req[r].acct
        /\ \A c \in Campaign : req'[r].snap[c] = IF c \in page THEN remote[c] ELSE None
    BY <2>1 DEF Inv, TypeOK
  <2>5. Current(r)' \/ local' = NoSnapshot
    BY <2>2, <2>4, OursStays
  <2>6. OursOK(r)'
    BY <2>2, <2>3, <2>4, <2>5 DEF OursOK, Fetched
  <2>7. RowsOf(r)'
    BY <2>2, OursQuiet DEF Writing
  <2>8. QED BY <2>6, <2>7 DEF OursGoal
<1>3. CASE SyncUpsert(r)
  <2>1. PICK c \in req[r].todo :
          IF Current(r)
          THEN /\ local' = [local EXCEPT ![c] = req[r].snap[c]]
               /\ req' = [req EXCEPT ![r].todo = @ \ {c}]
          ELSE Finish(r) /\ UNCHANGED local
    BY <1>3 DEF SyncUpsert
  <2>2. req[r].pc = "syncUpsert" /\ UNCHANGED <<remote, acct>>
    BY <1>3 DEF SyncUpsert
  <2>3. CASE ~Current(r)
    BY <2>1, <2>2, <2>3, OursEnds
  <2>4. CASE Current(r)
    <3>1. c \in Campaign /\ req[r].snap[c] # None
      BY <2>2, ReqType DEF Inv, ReqState, FlightOK
    <3>2. c \in Listed /\ req[r].snap[c] = remote[c]
      BY <2>2, <3>1 DEF OursOK
    <3>3. \A d \in Campaign : local'[d] = IF d = c THEN remote[c] ELSE local[d]
      BY <2>1, <2>4, <3>2 DEF Inv, TypeOK
    <3>4. req'[r].pc = "syncUpsert" /\ req'[r].snap = req[r].snap /\ req'[r].acct = req[r].acct
      BY <2>1, <2>2, <2>4 DEF Inv, TypeOK
    <3>5. Listed' = Listed
      BY <2>2 DEF Listed
    <3>6. RowsOf(r)'
      BY <2>2, <3>2, <3>3, <3>5 DEF RowsOf, Exact, Pending, Writing
    <3>7. Current(r)'
      BY <2>2, <2>4, <3>4 DEF Current
    <3>8. OursOK(r)'
      BY <2>2, <3>4, <3>5, <3>7 DEF OursOK, Fetched
    <3>9. QED BY <3>6, <3>8 DEF OursGoal
  <2>5. QED BY <2>3, <2>4
<1>4. CASE SyncMark(r)
  <2>1. /\ req[r].pc = "syncUpsert" /\ UNCHANGED <<remote, acct>> /\ Goto(r, "synced")
        /\ local' = [c \in Campaign |-> IF c \in Missing(r) THEN "DELETED" ELSE local[c]]
    BY <1>4 DEF SyncMark, Missing
  <2>2. Missing(r) = {}
    <3>1. ASSUME NEW c \in Missing(r) PROVE FALSE
      <4>1. c \in Campaign /\ req[r].snap[c] = None /\ local[c] \in Running /\ local[c] # None
        BY DEF Missing, Running, Status
      <4>2. Exact(c)
        BY <2>1, <4>1 DEF RowsOf, Pending, Writing
      <4>3. c \in Listed /\ remote[c] # None
        BY <4>1, <4>2 DEF Exact, Listed, Running, Status
      <4>4. QED BY <2>1, <4>1, <4>3 DEF OursOK
    <3>2. QED BY <3>1
  <2>3. local' = local
    BY <2>1, <2>2 DEF Inv, TypeOK
  <2>4. req'[r].pc = "synced" /\ req'[r].acct = req[r].acct
    BY <2>1, GotoMoves DEF Inv, Pc
  <2>5. Current(r)' \/ local' = NoSnapshot
    BY <2>1, <2>3, <2>4, OursStays
  <2>6. OursOK(r)'
    BY <2>4, <2>5 DEF OursOK, Fetched
  <2>7. RowsOf(r)'
    BY <2>1, <2>3, OursQuiet DEF Writing
  <2>8. QED BY <2>6, <2>7 DEF OursGoal
<1>5. CASE SyncDone(r)
  BY <1>5, OursEnds DEF SyncDone, cache, Writing
<1>6. QED BY <1>1, <1>2, <1>3, <1>4, <1>5 DEF Sync

\* A row is written with what Meta has, or left alone because it is not there.
LEMMA OursRow ==
    ASSUME Inv, NEW r \in Request, OursOK(r), RowsOf(r), Finish(r), UNCHANGED remote,
           NEW c \in Campaign, NEW s \in Status, Current(r), req[r].camp = c,
           local' = [local EXCEPT ![c] = s], s = remote[c]
    PROVE  OursGoal(r)
<1>1. req'[r].pc = "idle"
  BY FinishPc
<1>2. OursOK(r)'
  BY <1>1 DEF OursOK, Fetched
<1>3. Listed' = Listed /\ \A d \in Campaign : local'[d] = IF d = c THEN remote[c] ELSE local[d]
  BY DEF Listed, Inv, TypeOK
<1>4. Exact(c)'
  BY <1>3 DEF Exact, Listed
<1>5. ASSUME NEW d \in Campaign \ {c}, local[d] # None PROVE Exact(d)'
  BY <1>3, <1>5 DEF RowsOf, Pending, Exact
<1>6. RowsOf(r)'
  BY <1>3, <1>4, <1>5 DEF RowsOf
<1>7. QED BY <1>2, <1>6 DEF OursGoal

LEMMA OursFetch ==
    ASSUME Inv, NEW r \in Request, OursOK(r), RowsOf(r),
           NEW pc \in Targeting, NEW next \in Fetched, Fetch(r, pc, next),
           pc \notin Writing \/ next \in Writing
    PROVE  OursGoal(r)
<1>1. next \in Pc /\ next # "idle" /\ next # "syncUpsert" /\ pc # "idle"
  BY DEF Pc, Fetched, Targeting
<1>2. /\ req'[r].pc = next /\ req'[r].camp = req[r].camp /\ req'[r].acct = req[r].acct
      /\ req'[r].status = remote[req[r].camp]
  BY <1>1, FetchMoves
<1>3. UNCHANGED <<remote, local, acct>> /\ req[r].pc = pc
  BY DEF Fetch, cache
<1>4. Current(r)' \/ local' = NoSnapshot
  BY <1>1, <1>2, <1>3, OursStays
<1>5. OursOK(r)'
  BY <1>1, <1>2, <1>3, <1>4 DEF OursOK
<1>6. RowsOf(r)'
  BY <1>2, <1>3 DEF RowsOf, Pending, Exact, Listed, Current
<1>7. QED BY <1>5, <1>6 DEF OursGoal

LEMMA OursCreate ==
    ASSUME Inv, NEW r \in Request, OursOK(r), RowsOf(r), Create(r)
    PROVE  OursGoal(r)
<1>1. ASSUME NEW s \in Running, CreateStart(r, s) PROVE OursGoal(r)
  <2>1. req'[r].pc = "create" /\ req'[r].acct = acct
    BY <1>1 DEF CreateStart, Start, Inv, TypeOK, Idle
  <2>2. QED BY <1>1, <2>1, OursStart DEF CreateStart, Start, Fetched
<1>2. CASE CreateRemote(r)
  <2>1. PICK c \in Campaign :
          /\ remote[c] = None
          /\ remote' = [remote EXCEPT ![c] = req[r].status]
          /\ req' = [req EXCEPT ![r].pc = "createFetch", ![r].camp = c]
    BY <1>2 DEF CreateRemote
  <2>2. UNCHANGED <<local, acct>> /\ req[r].pc = "create"
    BY <1>2 DEF CreateRemote, cache
  <2>3. req'[r].pc = "createFetch" /\ req'[r].acct = req[r].acct
    BY <2>1 DEF Inv, TypeOK
  <2>4. Current(r)' \/ local' = NoSnapshot
    BY <2>2, <2>3, OursStays
  <2>5. OursOK(r)'
    BY <2>3, <2>4 DEF OursOK, Fetched
  <2>6. ASSUME NEW d \in Campaign, local[d] # None PROVE Exact(d)'
    <3>1. d # c /\ remote'[d] = remote[d] /\ Exact(d)
      BY <2>1, <2>2, <2>6 DEF Inv, TypeOK, RowsKnown, RowsOf, Pending, Writing
    <3>2. QED BY <2>2, <3>1 DEF Exact, Listed
  <2>7. RowsOf(r)'
    BY <2>2, <2>6 DEF RowsOf
  <2>8. QED BY <2>5, <2>7 DEF OursGoal
<1>3. CASE CreateFetch(r)
  <2>1. "createFetch" \in Targeting \ Writing /\ "createRow" \in Fetched
    BY DEF Targeting, Fetched, Writing
  <2>2. QED BY <1>3, <2>1, OursFetch DEF CreateFetch
<1>4. CASE CreateRow(r)
  <2>1. req[r].camp \in Campaign /\ req[r].status \in Status
        /\ req[r].status = remote[req[r].camp]
    BY <1>4, AtRow DEF CreateRow, OursOK, Fetched
  <2>2. QED BY <1>4, <2>1, OursRow, OursEnds DEF CreateRow, Writing
<1>5. QED BY <1>1, <1>2, <1>3, <1>4 DEF Create

\* The campaign is changed at Meta: its row is what is pending now.
LEMMA OursChange ==
    ASSUME Inv, NEW r \in Request, OursOK(r), RowsOf(r), NEW pc \in {"updateFetch", "deleteRow"},
           req[r].pc \in Targeting \ Writing, NEW s,
           remote' = [remote EXCEPT ![req[r].camp] = s],
           Goto(r, pc), UNCHANGED cache
    PROVE  OursGoal(r)
<1>1. req'[r].pc = pc /\ req'[r].camp = req[r].camp /\ req'[r].acct = req[r].acct
  BY GotoMoves DEF Inv, Pc
<1>2. req[r].camp \in Campaign /\ req[r].pc # "idle" /\ UNCHANGED <<acct, local>>
  BY DEF Inv, FlightOK, Targeting, cache
<1>3. Current(r)' \/ local' = NoSnapshot
  BY <1>1, <1>2, OursStays
<1>4. OursOK(r)'
  BY <1>1, <1>3 DEF OursOK, Fetched
<1>5. ASSUME NEW d \in Campaign \ {req[r].camp}, local[d] # None PROVE Exact(d)'
  <2>1. remote'[d] = remote[d] /\ Exact(d)
    BY <1>2, <1>5 DEF Inv, TypeOK, RowsOf, Pending
  <2>2. QED BY <1>2, <2>1 DEF Exact, Listed
<1>6. ASSUME NEW d \in Campaign, d = req[r].camp, local[d] # None PROVE Pending(r, d)'
  BY <1>1, <1>2, <1>3, <1>6 DEF Pending, Writing, NoSnapshot
<1>7. RowsOf(r)'
  BY <1>2, <1>5, <1>6 DEF RowsOf
<1>8. QED BY <1>4, <1>7 DEF OursGoal

LEMMA OursUpdate ==
    ASSUME Inv, NEW r \in Request, OursOK(r), RowsOf(r), Update(r)
    PROVE  OursGoal(r)
<1>1. ASSUME NEW c \in Campaign, NEW s \in Running, UpdateStart(r, c, s) PROVE OursGoal(r)
  <2>1. req'[r].pc = "update" /\ req'[r].acct = acct
    BY <1>1 DEF UpdateStart, Start, Inv, TypeOK, Idle
  <2>2. acct # 0
    BY <1>1 DEF UpdateStart, Inv, TypeOK, NoSnapshot, Running, Status
  <2>3. QED BY <1>1, <2>1, <2>2, OursStart DEF UpdateStart, Start, Fetched
<1>2. CASE UpdateRemote(r)
  <2>1. req[r].pc \in Targeting \ Writing /\ req[r].pc = "update"
    BY <1>2 DEF UpdateRemote, Targeting, Writing
  <2>2. CASE remote[req[r].camp] \in Running
    BY <1>2, <2>1, <2>2, OursChange DEF UpdateRemote
  <2>3. CASE remote[req[r].camp] \notin Running
    BY <1>2, <2>1, <2>3, OursEnds DEF UpdateRemote, cache
  <2>4. QED BY <2>2, <2>3
<1>3. CASE UpdateFetch(r)
  <2>1. "updateFetch" \in Targeting /\ "updateRow" \in Fetched /\ "updateRow" \in Writing
    BY DEF Targeting, Fetched, Writing
  <2>2. QED BY <1>3, <2>1, OursFetch DEF UpdateFetch
<1>4. CASE UpdateRow(r)
  <2>1. req[r].camp \in Campaign /\ req[r].status \in Status
        /\ req[r].status = remote[req[r].camp]
    BY <1>4, AtRow DEF UpdateRow, OursOK, Fetched
  <2>2. QED BY <1>4, <2>1, OursRow, OursEnds DEF UpdateRow
<1>5. QED BY <1>1, <1>2, <1>3, <1>4 DEF Update

LEMMA OursDelete ==
    ASSUME Inv, NEW r \in Request, OursOK(r), RowsOf(r), Delete(r)
    PROVE  OursGoal(r)
<1>1. ASSUME NEW c \in Campaign, DeleteStart(r, c) PROVE OursGoal(r)
  <2>1. req'[r].pc = "delete" /\ req'[r].acct = acct
    BY <1>1 DEF DeleteStart, Start, Inv, TypeOK, Idle
  <2>2. acct # 0
    BY <1>1 DEF DeleteStart, Inv, TypeOK, NoSnapshot, Running, Status
  <2>3. QED BY <1>1, <2>1, <2>2, OursStart DEF DeleteStart, Start, Fetched
<1>2. CASE DeleteRemote(r)
  <2>1. req[r].pc \in Targeting \ Writing /\ UNCHANGED cache
    BY <1>2 DEF DeleteRemote, Targeting, Writing
  <2>2. CASE remote' = [remote EXCEPT ![req[r].camp] = "DELETED"] /\ Goto(r, "deleteRow")
    BY <2>1, <2>2, OursChange
  <2>3. CASE Finish(r) /\ UNCHANGED remote
    BY <2>1, <2>3, OursEnds DEF cache
  <2>4. QED BY <1>2, <2>2, <2>3 DEF DeleteRemote
<1>3. CASE DeleteRow(r)
  <2>1. req[r].camp \in Campaign /\ "DELETED" \in Status /\ remote[req[r].camp] = "DELETED"
    BY <1>3 DEF DeleteRow, Inv, FlightOK, Targeting, Status
  <2>2. QED BY <1>3, <2>1, OursRow, OursEnds DEF DeleteRow
<1>4. QED BY <1>1, <1>2, <1>3 DEF Delete

LEMMA OursInsights ==
    ASSUME Inv, NEW r \in Request, OursOK(r), RowsOf(r), Insights(r)
    PROVE  OursGoal(r)
<1>1. ASSUME NEW C \in SUBSET Campaign, InsightsStart(r, C) PROVE OursGoal(r)
  <2>1. req'[r].pc = "insights" /\ req'[r].acct = acct
    BY <1>1 DEF InsightsStart, Start, Inv, TypeOK, Idle
  <2>2. acct # 0
    BY <1>1 DEF InsightsStart, Inv, TypeOK, NoSnapshot, Running, Status
  <2>3. QED BY <1>1, <2>1, <2>2, OursStart DEF InsightsStart, Start, Fetched
<1>2. CASE InsightsUpsert(r)
  <2>1. req[r].pc = "insights" /\ UNCHANGED <<remote, acct, local>>
    BY <1>2 DEF InsightsUpsert
  <2>2. CASE Finish(r)
    BY <2>1, <2>2, OursEnds DEF Writing
  <2>3. ASSUME NEW c, req' = [req EXCEPT ![r].todo = @ \ {c}] PROVE OursGoal(r)
    <3>1. req'[r].pc = "insights" /\ req'[r].acct = req[r].acct
      BY <2>1, <2>3 DEF Inv, TypeOK
    <3>2. Current(r)' \/ local' = NoSnapshot
      BY <2>1, <3>1, OursStays
    <3>3. OursOK(r)' /\ RowsOf(r)'
      BY <2>1, <3>1, <3>2, OursQuiet DEF OursOK, Fetched, Writing
    <3>4. QED BY <3>3 DEF OursGoal
  <2>4. QED BY <1>2, <2>2, <2>3 DEF InsightsUpsert
<1>3. QED BY <1>1, <1>2 DEF Insights

\* Replacing the account row takes all rows with it.
LEMMA OursAdAccounts == ASSUME Inv, OursInv, SyncAdAccounts PROVE OursInv'
<1>1. UNCHANGED <<remote, req>> /\ local' = NoSnapshot /\ NoSnapshot' = NoSnapshot
  BY DEF SyncAdAccounts, NoSnapshot
<1>2. \A r \in Request : OursOK(r)'
  BY <1>1 DEF OursInv, OursOK, Listed
<1>3. \A c \in Campaign : local'[c] = None
  BY <1>1 DEF NoSnapshot
<1>4. QED BY <1>2, <1>3 DEF OursInv

LEMMA OursStep ==
    ASSUME OnePage, Inv, OursInv, AtMostOne, AtMostOne', Own
    PROVE  OursInv'
<1>1. ASSUME NEW r \in Request, Sync(r) \/ Create(r) \/ Update(r) \/ Delete(r) \/ Insights(r)
      PROVE  OursInv'
  <2>1. \A p \in Request \ {r} : req[p].pc = "idle" /\ req'[p].pc = "idle"
    BY <1>1, OthersRest
  <2>2. OursOK(r) /\ RowsOf(r)
    BY <2>1 DEF OursInv, RowsOf, Pending, Writing
  <2>3. OursGoal(r)
    BY <1>1, <2>2, OursSync, OursCreate, OursUpdate, OursDelete, OursInsights
  <2>4. \A p \in Request \ {r} : OursOK(p)'
    BY <2>1 DEF OursOK, Fetched
  <2>5. QED BY <2>3, <2>4 DEF OursGoal, OursInv, RowsOf
<1>2. QED BY <1>1, OursAdAccounts DEF Own

MCOurs == mode = "ours" => AtMostOne /\ OursInv

LEMMA MCOursInit == MCInit => MCOurs
<1> SUFFICES ASSUME MCInit, mode = "ours" PROVE AtMostOne /\ OursInv
  BY DEF MCOurs
<1>1. AtMostOne
  BY DEF MCInit, Allowed
<1>2. OursInv
  BY DEF MCInit, Init, OursInv, OursOK, Idle, NoSnapshot, Fetched
<1>3. QED BY <1>1, <1>2

LEMMA MCOursStep ==
    ASSUME OnePage, Inv, MCOurs, [MCNext]_<<vars, mode>>
    PROVE  MCOurs'
<1> SUFFICES ASSUME mode' = "ours" PROVE (AtMostOne /\ OursInv)'
  BY DEF MCOurs
<1>1. CASE MCNext
  <2>1. mode = "ours" /\ Own /\ AtMostOne'
    BY <1>1 DEF MCNext, Allowed
  <2>2. QED BY <2>1, OursStep DEF MCOurs
<1>2. CASE UNCHANGED <<vars, mode>>
  BY <1>2 DEF MCOurs, OursInv, AtMostOne, OursOK, Current, Exact, Pending, Listed, vars,
              NoSnapshot
<1>3. QED BY <1>1, <1>2

\* As long as only metaflow changes campaigns, one request at a time and none
\* cut short, and they fit in one page, what it shows at rest is what Meta has.
THEOREM SettledTheorem == ASSUME OnePage PROVE MCSpec => []OursSettledIsExact
<1>1. MCOurs => OursSettledIsExact
  BY DEF MCOurs, OursInv, OursSettledIsExact, SettledIsExact, Pending, Writing
<1>2. Inv /\ MCOurs /\ [MCNext]_<<vars, mode>> => MCOurs'
  BY MCOursStep
<1>3. QED BY <1>1, <1>2, MCOursInit, MCRefines, Invariance, PTL DEF MCSpec
=============================================================================
