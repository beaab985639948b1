------------------------------ MODULE WebProofs ------------------------------
(***************************************************************************)
(* Proofs about the web client: about its cache for every query of the     *)
(* pages and any number of controls used, about its session for any number *)
(* of calls and tokens.                                                    *)
(***************************************************************************)
EXTENDS MCWeb, FiniteSetTheorems, TLAPS

-----------------------------------------------------------------------------
(* The query cache.                                                        *)

EntryState == [has : BOOLEAN, invalid : BOOLEAN, failed : BOOLEAN, mounted : BOOLEAN,
               net : {"idle", "out", "back"}, repeated : BOOLEAN,
               lacks : SUBSET Change, misses : SUBSET Change]

UseState == [pc : Stage, here : BOOLEAN, touches : BOOLEAN,
             invalidates : BOOLEAN, leaves : BOOLEAN]

\* What the client has promised about a change once its success has been told.
Owed(u) == u.pc = "told" /\ u.invalidates

\* An answer that lacks what is owed is never under way; data that lack it are
\* marked; and marked data on a page are being fetched, unless that has failed.
Marked(e, used) ==
    /\ e \in EntryState
    /\ \A n \in e.misses : ~Owed(used[n])
    /\ \A n \in e.lacks : Owed(used[n]) => e.invalid
    /\ e.net # "back" => e.misses = {}
    /\ \A n \in e.lacks \cup e.misses : used[n].touches /\ used[n].pc \in {"written", "told"}

Held(e, used) ==
    /\ Marked(e, used)
    /\ e.mounted /\ e.invalid /\ e.net = "idle" => e.failed

\* A control that was used on this visit is one of the page, and has not left it.
OfPage(k, p, u) ==
    /\ \E v \in Uses[<<k, p>>] : /\ u.touches = v.touches /\ u.invalidates = v.invalidates
                                 /\ u.leaves = v.leaves
    /\ u.pc = "told" => ~u.leaves

CacheInv ==
    /\ focus \in Key /\ screen \in PagesOf[focus]
    /\ change \in [Change -> UseState]
    /\ Held(entry, change)
    /\ entry.mounted => focus \in Shows[screen]
    /\ \A n \in Change : change[n].here => OfPage(focus, screen, change[n])

LEMMA NothingHeld == Nothing \in EntryState /\ ~Nothing.mounted /\ Nothing.net = "idle"
                     /\ Nothing.lacks = {} /\ Nothing.misses = {}
  BY DEF Nothing, EntryState

\* Whatever is fetched, its answer is still to be read or was under way before.
LEMMA FetchedIs ==
    ASSUME NEW e \in EntryState, NEW again \in BOOLEAN
    PROVE  LET f == Fetched(e, again) IN
           /\ f \in EntryState
           /\ f.has = e.has /\ f.invalid = e.invalid /\ f.mounted = e.mounted
           /\ f.lacks = e.lacks /\ f.net # "idle"
           /\ \/ f = e /\ ~(e.has /\ again)
              \/ f.net = "out" /\ f.misses = {}
<1>1. CASE e.net # "idle" /\ ~(e.has /\ again)
  BY <1>1 DEF Fetched, EntryState
<1>2. CASE ~(e.net # "idle" /\ ~(e.has /\ again))
  <2>1. Fetched(e, again) =
          [e EXCEPT !.net = "out", !.repeated = FALSE, !.failed = FALSE, !.misses = {}]
    BY <1>2 DEF Fetched
  <2>2. QED BY <2>1 DEF EntryState
<1>3. QED BY <1>1, <1>2

LEMMA FetchedHolds ==
    ASSUME NEW e, NEW used, NEW again \in BOOLEAN, Marked(e, used)
    PROVE  Held(Fetched(e, again), used)
<1> DEFINE f == Fetched(e, again)
<1>1. e \in EntryState
  BY DEF Marked
<1>2. /\ f \in EntryState
      /\ f.has = e.has /\ f.invalid = e.invalid /\ f.mounted = e.mounted
      /\ f.lacks = e.lacks /\ f.net # "idle"
      /\ \/ f = e
         \/ f.net = "out" /\ f.misses = {}
  BY <1>1, FetchedIs
<1> SUFFICES Held(f, used)
  OBVIOUS
<1> HIDE DEF f
<1>3. CASE f = e
  BY <1>2, <1>3 DEF Held, Marked
<1>4. CASE f.net = "out" /\ f.misses = {}
  BY <1>2, <1>4 DEF Held, Marked
<1>5. QED BY <1>2, <1>3, <1>4

\* A page that is left takes nothing away, and none comes up that does not show
\* the query.
LEMMA LeaveKeeps ==
    ASSUME CacheInv, NEW p \in PagesOf[focus], NEW e, NEW used \in [Change -> UseState],
           Held(e, used), Leave(p, e, used), focus' = focus
    PROVE  CacheInv'
<1> DEFINE stays == e.mounted /\ focus \in Around /\ focus \in Shows[p]
<1>1. screen' = p /\ entry' = [e EXCEPT !.mounted = stays]
      /\ change' = [n \in Change |-> [used[n] EXCEPT !.here = FALSE]]
  BY DEF Leave
<1>2. e \in EntryState /\ stays \in BOOLEAN
  BY DEF Held, Marked
<1>3. entry' \in EntryState /\ entry'.mounted = stays
      /\ entry'.has = e.has /\ entry'.invalid = e.invalid /\ entry'.failed = e.failed
      /\ entry'.net = e.net /\ entry'.lacks = e.lacks /\ entry'.misses = e.misses
  BY <1>1, <1>2 DEF EntryState
<1>4. change' \in [Change -> UseState]
      /\ \A n \in Change : ~change'[n].here /\ change'[n].pc = used[n].pc
                           /\ change'[n].touches = used[n].touches
                           /\ change'[n].invalidates = used[n].invalidates
  BY <1>1 DEF UseState
<1>5. e.lacks \subseteq Change /\ e.misses \subseteq Change
  BY <1>2 DEF EntryState
<1>6. \A n \in Change : Owed(change'[n]) <=> Owed(used[n])
  BY <1>4 DEF Owed
<1>7. Marked(entry', change')
  BY <1>3, <1>4, <1>5, <1>6 DEF Marked, Held
<1>8. Held(entry', change')
  BY <1>3, <1>7 DEF Held
<1>9. entry'.mounted => focus' \in Shows[screen']
  BY <1>1, <1>3
<1>10. QED BY <1>1, <1>4, <1>8, <1>9 DEF CacheInv

\* Only the entry changes.
LEMMA EntryKeeps ==
    ASSUME CacheInv, Held(entry', change), entry'.mounted => focus \in Shows[screen],
           UNCHANGED <<focus, screen, change>>
    PROVE  CacheInv'
  BY DEF CacheInv, OfPage

LEMMA MountKeeps == ASSUME CacheInv, Mount PROVE CacheInv'
<1> PICK old \in BOOLEAN :
      LET e == [entry EXCEPT !.mounted = TRUE] IN
      entry' = IF old \/ ~e.has \/ e.invalid THEN Fetched(e, FALSE) ELSE e
  BY DEF Mount
<1> DEFINE e == [entry EXCEPT !.mounted = TRUE]
<1>1. entry \in EntryState /\ Marked(entry, change)
  BY DEF CacheInv, Held, Marked
<1>2. e \in EntryState /\ e.mounted /\ e.has = entry.has /\ e.invalid = entry.invalid
      /\ e.failed = entry.failed /\ e.net = entry.net /\ e.lacks = entry.lacks
      /\ e.misses = entry.misses
  BY <1>1 DEF EntryState
<1>3. entry' = IF old \/ ~e.has \/ e.invalid THEN Fetched(e, FALSE) ELSE e
  OBVIOUS
<1> HIDE DEF e
<1>4. Marked(e, change)
  BY <1>1, <1>2 DEF Marked
<1>5. Held(entry', change)
  <2>1. CASE old \/ ~e.has \/ e.invalid
    BY <1>3, <1>4, <2>1, FetchedHolds
  <2>2. CASE ~(old \/ ~e.has \/ e.invalid)
    BY <1>3, <1>4, <2>2 DEF Held
  <2>3. QED BY <2>1, <2>2
<1>6. QED BY <1>5, EntryKeeps DEF Mount

LEMMA ReadKeeps == ASSUME CacheInv, Read PROVE CacheInv'
<1>1. entry \in EntryState /\ Held(entry, change) /\ Marked(entry, change)
  BY DEF CacheInv, Held, Marked
<1>2. entry' \in EntryState /\ entry'.mounted = entry.mounted /\ entry'.invalid = entry.invalid
      /\ entry'.net = "back" /\ entry'.lacks = entry.lacks /\ entry'.misses = {}
  BY <1>1 DEF Read, EntryState
<1>3. Held(entry', change)
  BY <1>1, <1>2 DEF Held, Marked
<1>4. QED BY <1>2, <1>3, EntryKeeps DEF Read, CacheInv

LEMMA AnsweredKeeps == ASSUME CacheInv, Answered PROVE CacheInv'
<1>1. entry \in EntryState /\ Marked(entry, change)
  BY DEF CacheInv, Held, Marked
<1>2. entry' \in EntryState /\ entry'.mounted = entry.mounted /\ ~entry'.invalid
      /\ entry'.net = "idle" /\ entry'.lacks = entry.misses /\ entry'.misses = {}
  BY <1>1 DEF Answered, EntryState
<1>3. Held(entry', change)
  BY <1>1, <1>2 DEF Held, Marked
<1>4. QED BY <1>2, <1>3, EntryKeeps DEF Answered, CacheInv

LEMMA FailedKeeps == ASSUME CacheInv, Failed PROVE CacheInv'
<1>1. entry \in EntryState /\ Marked(entry, change)
  BY DEF CacheInv, Held, Marked
<1>2. entry' \in EntryState /\ entry'.mounted = entry.mounted
      /\ entry'.invalid = entry.invalid /\ entry'.lacks = entry.lacks
      /\ entry'.misses = {} /\ (entry'.net = "out" \/ entry'.failed)
  <2>1. CASE entry.mounted /\ ~entry.repeated
    BY <1>1, <2>1 DEF Failed, EntryState
  <2>2. CASE ~(entry.mounted /\ ~entry.repeated)
    BY <1>1, <2>2 DEF Failed, EntryState
  <2>3. QED BY <2>1, <2>2
<1>3. Held(entry', change)
  BY <1>1, <1>2 DEF Held, Marked
<1>4. QED BY <1>2, <1>3, EntryKeeps DEF Failed, CacheInv

LEMMA CollectKeeps == ASSUME CacheInv, Collect PROVE CacheInv'
<1>1. entry' = Nothing /\ UNCHANGED <<focus, screen, change>>
  BY DEF Collect
<1>2. Held(Nothing, change) /\ ~Nothing.mounted
  BY NothingHeld DEF Held, Marked
<1>3. QED BY <1>1, <1>2, EntryKeeps

-----------------------------------------------------------------------------

\* One change is replaced, and the entry still holds.
LEMMA ChangeKeeps ==
    ASSUME CacheInv, NEW n \in Change, NEW u \in UseState, u.here => OfPage(focus, screen, u),
           change' = [change EXCEPT ![n] = u], Held(entry', change'),
           entry'.mounted = entry.mounted, UNCHANGED <<focus, screen>>
    PROVE  CacheInv'
<1>1. change' \in [Change -> UseState]
      /\ \A m \in Change : change'[m] = IF m = n THEN u ELSE change[m]
  BY DEF CacheInv
<1>2. \A m \in Change : change'[m].here => OfPage(focus', screen', change'[m])
  BY <1>1 DEF CacheInv, OfPage
<1>3. QED BY <1>1, <1>2 DEF CacheInv

LEMMA UseKeeps ==
    ASSUME CacheInv, NEW n \in Change, NEW u \in Uses[<<focus, screen>>], Use(n, u)
    PROVE  CacheInv'
<1> DEFINE v == [pc |-> "sent", here |-> TRUE, touches |-> u.touches,
                 invalidates |-> u.invalidates, leaves |-> u.leaves]
<1>1. change' = [change EXCEPT ![n] = v] /\ change[n].pc = "unused"
      /\ UNCHANGED <<focus, screen, entry>>
  BY DEF Use
<1>2. v \in UseState /\ v.pc = "sent" /\ v.here /\ OfPage(focus, screen, v)
  <2>1. focus \in Key /\ screen \in PagesOf[focus]
    BY DEF CacheInv
  <2>2. u.touches \in BOOLEAN /\ u.invalidates \in BOOLEAN /\ u.leaves \in BOOLEAN
    BY <2>1, PagesAssumption
  <2>3. QED BY <2>2 DEF UseState, Stage, OfPage
<1> HIDE DEF v
<1>3. Held(entry, change) /\ Marked(entry, change) /\ entry \in EntryState
  BY DEF CacheInv, Held, Marked
<1>4. n \notin entry.lacks /\ n \notin entry.misses
  BY <1>1, <1>3 DEF Marked
<1>5. \A m \in entry.lacks \cup entry.misses : change'[m] = change[m]
  BY <1>1, <1>3, <1>4 DEF CacheInv, EntryState
<1>6. Held(entry', change')
  BY <1>1, <1>3, <1>5 DEF Held, Marked
<1>7. QED BY <1>1, <1>2, <1>6, ChangeKeeps

LEMMA WrittenKeeps == ASSUME CacheInv, NEW n \in Change, Written(n) PROVE CacheInv'
<1> DEFINE u == [change[n] EXCEPT !.pc = "written"]
<1>1. change' = [change EXCEPT ![n] = u] /\ change[n].pc = "sent"
      /\ UNCHANGED <<focus, screen>>
  BY DEF Written, CacheInv
<1>2. change[n] \in UseState
  BY DEF CacheInv
<1>3. u \in UseState /\ u.pc = "written" /\ u.here = change[n].here
      /\ u.touches = change[n].touches /\ u.invalidates = change[n].invalidates
      /\ u.leaves = change[n].leaves
  BY <1>2 DEF UseState, Stage
<1> HIDE DEF u
<1>4. Held(entry, change) /\ Marked(entry, change) /\ entry \in EntryState
  BY DEF CacheInv, Held, Marked
<1>5. \A m \in Change : change'[m] = IF m = n THEN u ELSE change[m]
  BY <1>1 DEF CacheInv
<1>6. n \notin entry.lacks /\ n \notin entry.misses /\ ~Owed(u)
  BY <1>1, <1>3, <1>4 DEF Marked, Owed
<1>7. entry.lacks \subseteq Change /\ entry.misses \subseteq Change
  BY <1>4 DEF EntryState
<1>8. /\ entry' \in EntryState /\ entry'.mounted = entry.mounted
      /\ entry'.invalid = entry.invalid /\ entry'.net = entry.net
      /\ entry'.failed = entry.failed
      /\ entry'.lacks \subseteq entry.lacks \cup {n}
      /\ entry'.misses \subseteq entry.misses \cup {n}
      /\ entry.net # "back" => entry'.misses = entry.misses
      /\ ~change[n].touches => entry' = entry
  <2>1. CASE ~change[n].touches
    BY <1>4, <2>1 DEF Written
  <2>2. CASE change[n].touches
    <3> DEFINE lacks == IF entry.has THEN entry.lacks \cup {n} ELSE entry.lacks
               misses == IF entry.net = "back" THEN entry.misses \cup {n} ELSE entry.misses
    <3>1. entry' = [entry EXCEPT !.lacks = lacks, !.misses = misses]
      BY <2>2 DEF Written
    <3>2. lacks \in SUBSET Change /\ misses \in SUBSET Change
          /\ lacks \subseteq entry.lacks \cup {n} /\ misses \subseteq entry.misses \cup {n}
          /\ (entry.net # "back" => misses = entry.misses)
      BY <1>7
    <3> HIDE DEF lacks, misses
    <3>3. entry' \in EntryState /\ entry'.mounted = entry.mounted
          /\ entry'.invalid = entry.invalid /\ entry'.net = entry.net
          /\ entry'.failed = entry.failed
          /\ entry'.lacks = lacks /\ entry'.misses = misses
      BY <1>4, <3>1, <3>2 DEF EntryState
    <3>4. QED BY <2>2, <3>2, <3>3
  <2>3. QED BY <2>1, <2>2
<1>9. Marked(entry', change')
  BY <1>3, <1>4, <1>5, <1>6, <1>7, <1>8 DEF Marked
<1>10. Held(entry', change')
  BY <1>4, <1>8, <1>9 DEF Held
<1>11. u.here => OfPage(focus, screen, u)
  BY <1>3 DEF CacheInv, OfPage
<1>12. QED BY <1>1, <1>3, <1>8, <1>10, <1>11, ChangeKeeps

\* A change is dropped, and with it all that is said of it.
LEMMA DroppedIs ==
    ASSUME CacheInv, NEW n \in Change
    PROVE  LET now == Dropped(n)
               e == Without(n, entry) IN
           /\ now = [change EXCEPT ![n] = [Unused EXCEPT !.pc = "over"]]
           /\ [Unused EXCEPT !.pc = "over"] \in UseState
           /\ ~[Unused EXCEPT !.pc = "over"].here
           /\ Held(e, now)
           /\ e.mounted = entry.mounted /\ e.has = entry.has /\ e.net = entry.net
           /\ ~Owed(now[n])
<1> DEFINE u == [Unused EXCEPT !.pc = "over"]
           e == Without(n, entry)
           now == Dropped(n)
<1>1. now = [change EXCEPT ![n] = u]
  BY DEF Dropped
<1>2. u \in UseState /\ ~u.here /\ u.pc = "over"
  BY DEF UseState, Unused, Stage
<1>3. Held(entry, change) /\ Marked(entry, change) /\ entry \in EntryState
  BY DEF CacheInv, Held, Marked
<1>4. entry.lacks \subseteq Change /\ entry.misses \subseteq Change
  BY <1>3 DEF EntryState
<1>5. /\ e \in EntryState /\ e.mounted = entry.mounted /\ e.has = entry.has
      /\ e.net = entry.net /\ e.invalid = entry.invalid /\ e.failed = entry.failed
      /\ e.lacks = entry.lacks \ {n} /\ e.misses = entry.misses \ {n}
  <2>1. entry.lacks \ {n} \in SUBSET Change /\ entry.misses \ {n} \in SUBSET Change
    BY <1>4
  <2>2. QED BY <1>3, <2>1 DEF Without, EntryState
<1> HIDE DEF u, e
<1>6. \A m \in Change : now[m] = IF m = n THEN u ELSE change[m]
  BY <1>1 DEF CacheInv
<1> HIDE DEF now
<1>7. Marked(e, now)
  BY <1>3, <1>4, <1>5, <1>6 DEF Marked
<1>8. Held(e, now)
  BY <1>3, <1>5, <1>7 DEF Held
<1>9. ~Owed(now[n])
  BY <1>2, <1>6 DEF Owed
<1>10. QED BY <1>1, <1>2, <1>5, <1>8, <1>9 DEF u, e, now

LEMMA RefusedKeeps == ASSUME CacheInv, NEW n \in Change, Refused(n) PROVE CacheInv'
<1>1. change' = Dropped(n) /\ entry' = Without(n, entry) /\ UNCHANGED <<focus, screen>>
  BY DEF Refused
<1>2. QED BY <1>1, DroppedIs, ChangeKeeps

\* The change put in place of another, and on the page where it was used.
Becomes(n, u, now) ==
    /\ u \in UseState /\ now = [change EXCEPT ![n] = u]
    /\ u.here /\ ~change[n].leaves => OfPage(focus, screen, u)

\* The outcome of a success before the page is left, if it is.
Succeeds(n, e, now) ==
    LET old == IF Cancellable THEN entry ELSE Without(n, entry) IN
    /\ now = IF Cancellable THEN [change EXCEPT ![n].pc = "told"] ELSE Dropped(n)
    /\ e = IF ~change[n].invalidates THEN old
           ELSE LET marked == [old EXCEPT !.invalid = old.has \/ old.net # "idle" \/ @]
                IN  IF old.mounted THEN Fetched(marked, TRUE) ELSE marked

\* Invalidated, and fetched at once on a page.
LEMMA InvalidatedHolds ==
    ASSUME NEW old, NEW used, NEW marked, Marked(marked, used), marked.mounted = old.mounted
    PROVE  LET e == IF old.mounted THEN Fetched(marked, TRUE) ELSE marked
           IN  Held(e, used) /\ e.mounted = old.mounted
<1>1. marked \in EntryState
  BY DEF Marked
<1>2. CASE old.mounted
  BY <1>1, <1>2, FetchedHolds, FetchedIs
<1>3. CASE ~old.mounted
  BY <1>1, <1>3 DEF Held
<1>4. QED BY <1>2, <1>3

LEMMA SucceedsHolds ==
    ASSUME CacheInv, NEW n \in Change, change[n].pc = "written", NEW e, NEW now,
           Succeeds(n, e, now)
    PROVE  /\ Held(e, now) /\ e.mounted = entry.mounted
           /\ \E u : Becomes(n, u, now)
<1>1. Held(entry, change) /\ Marked(entry, change) /\ entry \in EntryState
      /\ change[n] \in UseState
  BY DEF CacheInv, Held, Marked
<1>2. CASE Cancellable
  <2> DEFINE u == [change[n] EXCEPT !.pc = "told"]
  <2>1. now = [change EXCEPT ![n] = u]
    BY <1>2 DEF Succeeds, CacheInv
  <2>2. u \in UseState /\ u.pc = "told" /\ u.here = change[n].here
        /\ u.touches = change[n].touches /\ u.invalidates = change[n].invalidates
        /\ u.leaves = change[n].leaves
    BY <1>1 DEF UseState, Stage
  <2> HIDE DEF u
  <2>3. \A m \in Change : now[m] = IF m = n THEN u ELSE change[m]
    BY <2>1 DEF CacheInv
  <2>4. u.here /\ ~change[n].leaves => OfPage(focus, screen, u)
    BY <2>2 DEF CacheInv, OfPage
  <2>5. entry.lacks \subseteq Change /\ entry.misses \subseteq Change
    BY <1>1 DEF EntryState
  <2>6. Held(e, now) /\ e.mounted = entry.mounted
    <3>1. CASE ~change[n].invalidates
      <4>1. e = entry
        BY <1>2, <3>1 DEF Succeeds
      <4>2. ~Owed(u)
        BY <2>2, <3>1 DEF Owed
      <4>3. Marked(entry, now)
        BY <1>1, <2>2, <2>3, <2>5, <4>2 DEF Marked
      <4>4. QED BY <1>1, <4>1, <4>3 DEF Held
    <3>2. CASE change[n].invalidates
      <4> DEFINE marked == [entry EXCEPT !.invalid = entry.has \/ entry.net # "idle" \/ @]
      <4>1. e = IF entry.mounted THEN Fetched(marked, TRUE) ELSE marked
        BY <1>2, <3>2 DEF Succeeds
      <4>2. entry.has /\ (entry.mounted \/ entry.net = "idle")
        BY <1>2 DEF Cancellable
      <4>3. /\ marked \in EntryState /\ marked.invalid /\ marked.has
            /\ marked.mounted = entry.mounted /\ marked.net = entry.net
            /\ marked.lacks = entry.lacks /\ marked.misses = entry.misses
        BY <1>1, <4>2 DEF EntryState
      <4> HIDE DEF marked
      <4>4. CASE entry.mounted
        <5> DEFINE f == Fetched(marked, TRUE)
        <5>1. /\ f \in EntryState /\ f.invalid /\ f.mounted = marked.mounted
              /\ f.lacks = marked.lacks /\ f.net = "out" /\ f.misses = {}
          BY <4>3, FetchedIs
        <5>2. e = f
          BY <4>1, <4>4
        <5> HIDE DEF f
        <5>3. Marked(f, now)
          BY <1>1, <2>2, <2>3, <2>5, <4>3, <5>1 DEF Marked
        <5>4. QED BY <4>3, <5>1, <5>2, <5>3 DEF Held
      <4>5. CASE ~entry.mounted
        <5>1. e = marked /\ marked.misses = {}
          BY <1>1, <4>1, <4>2, <4>3, <4>5 DEF Marked
        <5>2. Marked(marked, now)
          BY <1>1, <2>2, <2>3, <2>5, <4>3, <5>1 DEF Marked
        <5>3. QED BY <4>3, <4>5, <5>1, <5>2 DEF Held
      <4>6. QED BY <4>4, <4>5
    <3>3. QED BY <3>1, <3>2
  <2>7. QED BY <2>1, <2>2, <2>4, <2>6 DEF Becomes
<1>3. CASE ~Cancellable
  <2> DEFINE old == Without(n, entry)
  <2>1. /\ now = Dropped(n) /\ Held(old, now) /\ Marked(old, now) /\ old \in EntryState
        /\ old.mounted = entry.mounted
        /\ \E u : Becomes(n, u, now)
    BY <1>3, DroppedIs DEF Succeeds, Held, Marked, Becomes
  <2>2. e = IF ~change[n].invalidates THEN old
            ELSE LET marked == [old EXCEPT !.invalid = old.has \/ old.net # "idle" \/ @]
                 IN  IF old.mounted THEN Fetched(marked, TRUE) ELSE marked
    BY <1>3 DEF Succeeds
  <2> HIDE DEF old
  <2>3. CASE ~change[n].invalidates
    BY <2>1, <2>2, <2>3
  <2>4. CASE change[n].invalidates
    <3> DEFINE marked == [old EXCEPT !.invalid = old.has \/ old.net # "idle" \/ @]
    <3>1. /\ marked \in EntryState /\ (old.invalid => marked.invalid)
          /\ marked.mounted = old.mounted
          /\ marked.lacks = old.lacks /\ marked.misses = old.misses /\ marked.net = old.net
      BY <2>1 DEF EntryState
    <3>2. e = IF old.mounted THEN Fetched(marked, TRUE) ELSE marked
      BY <2>2, <2>4
    <3>3. Marked(marked, now)
      <4> HIDE DEF marked
      <4>1. QED BY <2>1, <3>1 DEF Marked
    <3>4. Held(e, now) /\ e.mounted = old.mounted
      <4> HIDE DEF marked
      <4>1. QED BY <3>1, <3>2, <3>3, InvalidatedHolds
    <3>5. QED BY <2>1, <3>4
  <2>5. QED BY <2>3, <2>4
<1>4. QED BY <1>2, <1>3

LEMMA SuccessKeeps == ASSUME CacheInv, NEW n \in Change, Success(n) PROVE CacheInv'
<1>1. PICK e, now :
        /\ Succeeds(n, e, now) /\ change[n].pc = "written" /\ focus' = focus
        /\ \/ Leave(Alike[<<focus, "campaigns">>], e, now)
           \/ ~change[n].leaves /\ entry' = e /\ change' = now /\ screen' = screen
  BY DEF Success, Succeeds
<1>2. Held(e, now) /\ e.mounted = entry.mounted
  BY <1>1, SucceedsHolds
<1>3. PICK u : Becomes(n, u, now)
  BY <1>1, SucceedsHolds
<1>4. CASE Leave(Alike[<<focus, "campaigns">>], e, now)
  <2>1. Alike[<<focus, "campaigns">>] \in PagesOf[focus]
    BY PagesAssumption DEF CacheInv
  <2>2. now \in [Change -> UseState]
    BY <1>3 DEF CacheInv, Becomes
  <2>3. QED BY <1>1, <1>2, <1>4, <2>1, <2>2, LeaveKeeps
<1>5. CASE ~change[n].leaves /\ entry' = e /\ change' = now /\ screen' = screen
  BY <1>1, <1>2, <1>3, <1>5, ChangeKeeps DEF Becomes
<1>6. QED BY <1>1, <1>4, <1>5

LEMMA CacheStep == ASSUME CacheInv, [Next]_vars PROVE CacheInv'
<1>1. CASE Mount BY <1>1, MountKeeps
<1>2. CASE Read BY <1>2, ReadKeeps
<1>3. CASE Answered BY <1>3, AnsweredKeeps
<1>4. CASE Failed BY <1>4, FailedKeeps
<1>5. CASE Collect BY <1>5, CollectKeeps
<1>6. ASSUME NEW p \in PagesOf[focus], Navigate(p) PROVE CacheInv'
  <2>1. Held(entry, change) /\ change \in [Change -> UseState]
    BY DEF CacheInv
  <2>2. Leave(p, entry, change) /\ focus' = focus
    BY <1>6 DEF Navigate
  <2>3. QED BY <2>1, <2>2, LeaveKeeps
<1>7. ASSUME NEW n \in Change, NEW u \in Uses[<<focus, screen>>], Use(n, u) PROVE CacheInv'
  BY <1>7, UseKeeps
<1>8. ASSUME NEW n \in Change, Written(n) PROVE CacheInv'
  BY <1>8, WrittenKeeps
<1>9. ASSUME NEW n \in Change, Refused(n) PROVE CacheInv'
  BY <1>9, RefusedKeeps
<1>10. ASSUME NEW n \in Change, Success(n) PROVE CacheInv'
  BY <1>10, SuccessKeeps
<1>11. CASE UNCHANGED vars
  BY <1>11 DEF vars, CacheInv, OfPage
<1>12. QED BY <1>1, <1>2, <1>3, <1>4, <1>5, <1>6, <1>7, <1>8, <1>9, <1>10, <1>11 DEF Next

LEMMA CacheStart == ASSUME NEW k \in Key, NEW p \in PagesOf[k], InitAt(k, p) PROVE CacheInv
<1>1. Unused \in UseState /\ ~Unused.here
  BY DEF Unused, UseState, Stage
<1>2. change \in [Change -> UseState] /\ \A n \in Change : ~change[n].here
  BY <1>1 DEF InitAt
<1>3. Held(entry, change) /\ ~entry.mounted
  BY NothingHeld DEF InitAt, Held, Marked
<1>4. QED BY <1>2, <1>3 DEF CacheInv, InitAt

LEMMA CacheShows == CacheInv => OwnChangeShows
<1> SUFFICES ASSUME CacheInv, entry.mounted, entry.net = "idle", ~entry.failed,
                    NEW n \in entry.lacks, change[n].pc = "told",
                    change[n].here \/ change[n].invalidates
             PROVE  FALSE
  BY DEF OwnChangeShows
<1>1. entry \in EntryState /\ Held(entry, change) /\ Marked(entry, change)
  BY DEF CacheInv, Held, Marked
<1>2. n \in Change /\ change[n].touches
  BY <1>1 DEF EntryState, Marked
<1>3. change[n].invalidates
  <2> SUFFICES ASSUME change[n].here PROVE change[n].invalidates
    OBVIOUS
  <2>1. PICK v \in Uses[<<focus, screen>>] :
          /\ change[n].touches = v.touches /\ change[n].invalidates = v.invalidates
          /\ change[n].leaves = v.leaves /\ ~change[n].leaves
    BY <1>2 DEF CacheInv, OfPage
  <2>2. QED BY <1>2, <2>1, PagesAssumption DEF CacheInv
<1>4. Owed(change[n])
  BY <1>3 DEF Owed
<1>5. entry.invalid
  BY <1>1, <1>4 DEF Marked
<1>6. QED BY <1>1, <1>5 DEF Held

\* What a page shows contains every change whose success has been told on it, for
\* any number of uses of its controls, in any order of their answers.
THEOREM OwnChangeTheorem == Spec => []OwnChangeShows
<1>1. Init => CacheInv
  BY CacheStart DEF Init
<1>2. QED BY <1>1, CacheStep, CacheShows, PTL DEF Spec

-----------------------------------------------------------------------------
(* The session: no token is anywhere before it has been issued.            *)

RefreshUpTo(n) == [st : {"none", "due", "out", "back", "set"}, token : 0..n]
TabUpTo(n) == [inApp : BOOLEAN, token : 0..n, flight : RefreshUpTo(n), boot : RefreshUpTo(n)]
CallUpTo(n) == [pc : {"idle", "sent", "ok", "denied", "waiting", "failed"},
                tab : Tab, kind : S!Kind, token : 0..n, retried : BOOLEAN]

SessionTypes ==
    /\ issued \in 0..MaxToken /\ jar \in 0..issued
    /\ live \subseteq 1..issued /\ good \subseteq 1..issued
    /\ theft \in BOOLEAN
    /\ tab \in [Tab -> TabUpTo(issued)]
    /\ call \in [Call -> CallUpTo(issued)]
    /\ strays \subseteq 0..issued

LEMMA UpToGrows ==
    ASSUME NEW n \in Nat, NEW m \in Nat, n <= m
    PROVE  /\ 0..n \subseteq 0..m /\ 1..n \subseteq 1..m
           /\ RefreshUpTo(n) \subseteq RefreshUpTo(m)
           /\ TabUpTo(n) \subseteq TabUpTo(m)
           /\ CallUpTo(n) \subseteq CallUpTo(m)
<1>1. 0..n \subseteq 0..m /\ 1..n \subseteq 1..m
  OBVIOUS
<1>2. RefreshUpTo(n) \subseteq RefreshUpTo(m)
  BY <1>1 DEF RefreshUpTo
<1>3. TabUpTo(n) \subseteq TabUpTo(m)
  BY <1>1, <1>2 DEF TabUpTo
<1>4. CallUpTo(n) \subseteq CallUpTo(m)
  BY <1>1 DEF CallUpTo
<1>5. QED BY <1>1, <1>2, <1>3, <1>4

LEMMA SessionTypesOK == SessionTypes => S!TypeOK
<1> SUFFICES ASSUME SessionTypes PROVE S!TypeOK
  OBVIOUS
<1>1. issued \in Nat /\ issued <= MaxToken /\ MaxToken \in Nat
  BY SessionAssumption DEF SessionTypes
<1>2. tab \in [Tab -> TabUpTo(MaxToken)] /\ call \in [Call -> CallUpTo(MaxToken)]
      /\ jar \in 0..MaxToken /\ strays \subseteq 0..MaxToken
  BY <1>1, UpToGrows DEF SessionTypes
<1>3. QED BY <1>2 DEF SessionTypes, S!TypeOK, S!Token, S!Refreshes, TabUpTo, CallUpTo, RefreshUpTo

LEMMA NothingSent ==
    ASSUME NEW n \in Nat
    PROVE  /\ S!NoRefresh \in RefreshUpTo(n) /\ S!NoRefresh.st = "none" /\ S!NoRefresh.token = 0
           /\ S!NoCall \in CallUpTo(n) /\ S!NoCall.pc = "idle" /\ S!NoCall.kind = "call"
           /\ ~S!NoCall.retried /\ S!NoCall.token = 0
<1>1. (CHOOSE t \in Tab : TRUE) \in Tab
  BY SessionAssumption
<1>2. QED BY <1>1 DEF S!NoRefresh, S!NoCall, S!Kind, RefreshUpTo, CallUpTo

\* The API after a step: what it knew of tokens has not grown but by new ones.
ApiKeeps ==
    /\ issued' \in 0..MaxToken /\ issued <= issued'
    /\ live' \subseteq 1..issued' /\ good' \subseteq 1..issued'
    /\ \A n \in 0..issued : n \in live' => n \in live
    /\ \A n \in 0..issued : n \in good' => n \in good
    /\ theft' \in BOOLEAN

LEMMA ApiSame == ASSUME SessionTypes, UNCHANGED S!api PROVE ApiKeeps
  BY DEF SessionTypes, ApiKeeps, S!api

LEMMA IssueKeeps ==
    ASSUME SessionTypes, S!Issue
    PROVE  /\ issued' = issued + 1 /\ issued' \in 0..MaxToken
           /\ good' = good \cup {issued + 1} /\ good' \subseteq 1..issued'
           /\ \A n \in 0..issued : n \in good' => n \in good
<1>1. issued' = issued + 1 /\ good' = good \cup {issued + 1} /\ issued < MaxToken
  BY DEF S!Issue
<1>2. issued \in Nat /\ MaxToken \in Nat /\ good \subseteq 1..issued
  BY SessionAssumption DEF SessionTypes
<1>3. QED BY <1>1, <1>2

LEMMA ExchangeKeeps ==
    ASSUME SessionTypes, NEW sent, NEW got, S!Exchange(sent, got)
    PROVE  /\ ApiKeeps /\ got \in 0..issued'
           /\ good \subseteq good'
           /\ got # 0 => got = issued + 1 /\ got \in good'
<1>0. issued \in Nat /\ MaxToken \in Nat /\ good \subseteq 1..issued /\ live \subseteq 1..issued
  BY SessionAssumption DEF SessionTypes
<1>1. theft \in BOOLEAN => theft' \in BOOLEAN
  <2>1. UNCHANGED S!api \/ UNCHANGED theft \/ theft' = TRUE
    BY DEF S!Exchange
  <2>2. UNCHANGED theft \/ theft' = TRUE
    BY <2>1 DEF S!api
  <2>3. QED BY <2>2
<1>2. theft' \in BOOLEAN
  BY <1>1 DEF SessionTypes
<1>3. CASE sent = 0 /\ got = 0 /\ UNCHANGED S!api
  BY <1>0, <1>3, ApiSame DEF S!api
<1>4. CASE S!Issue /\ got = issued + 1 /\ live' = (live \ {sent}) \cup {got}
  <2>1. issued' = issued + 1 /\ live' \subseteq live \cup {issued + 1}
    BY <1>4, IssueKeeps
  <2>2. live' \subseteq 1..issued' /\ \A n \in 0..issued : n \in live' => n \in live
    BY <1>0, <2>1
  <2>3. QED BY <1>0, <1>2, <1>4, <2>1, <2>2, IssueKeeps DEF ApiKeeps
<1>5. CASE got = 0 /\ live' = live \ {sent} /\ UNCHANGED <<good, issued>>
  <2>1. live' \subseteq live /\ good' = good /\ issued' = issued /\ got = 0
    BY <1>5
  <2>2. QED BY <1>0, <1>2, <2>1 DEF ApiKeeps, SessionTypes
<1>6. CASE got = 0 /\ live' = {} /\ UNCHANGED <<good, issued>>
  BY <1>0, <1>2, <1>6 DEF ApiKeeps, SessionTypes
<1>7. QED BY <1>3, <1>4, <1>5, <1>6 DEF S!Exchange

LEMMA TypesKept ==
    ASSUME SessionTypes, ApiKeeps, jar' \in 0..issued',
           tab' \in [Tab -> TabUpTo(issued')], call' \in [Call -> CallUpTo(issued')],
           strays' \subseteq 0..issued'
    PROVE  SessionTypes'
<1>1. QED BY DEF SessionTypes, ApiKeeps, CallUpTo

LEMMA TypesGrow ==
    ASSUME SessionTypes, ApiKeeps
    PROVE  /\ jar \in 0..issued' /\ tab \in [Tab -> TabUpTo(issued')]
           /\ call \in [Call -> CallUpTo(issued')] /\ strays \subseteq 0..issued'
           /\ issued \in Nat /\ issued' \in Nat
<1>1. issued \in Nat /\ issued' \in Nat /\ issued <= issued'
  BY SessionAssumption DEF SessionTypes, ApiKeeps
<1>2. QED BY <1>1, UpToGrows DEF SessionTypes

-----------------------------------------------------------------------------
(* What is replaced by a step.                                             *)

NowRefresh(t, w, x) == tab' = [tab EXCEPT ![t][w] = x]

LEMMA RefreshMoves ==
    ASSUME NEW n \in Nat, tab \in [Tab -> TabUpTo(n)], NEW t \in Tab,
           NEW w \in {"flight", "boot"}, NEW x \in RefreshUpTo(n), NowRefresh(t, w, x)
    PROVE  /\ tab' \in [Tab -> TabUpTo(n)]
           /\ tab'[t].token = tab[t].token /\ tab'[t].inApp = tab[t].inApp
           /\ w = "flight" => tab'[t].flight = x /\ tab'[t].boot = tab[t].boot
           /\ w = "boot" => tab'[t].boot = x /\ tab'[t].flight = tab[t].flight
<1>1. CASE w = "flight"
  <2>1. tab' = [tab EXCEPT ![t].flight = x]
    BY <1>1 DEF NowRefresh
  <2>2. QED BY <1>1, <2>1 DEF TabUpTo
<1>2. CASE w = "boot"
  <2>1. tab' = [tab EXCEPT ![t].boot = x]
    BY <1>2 DEF NowRefresh
  <2>2. QED BY <1>2, <2>1 DEF TabUpTo
<1>3. QED BY <1>1, <1>2

\* The record of a tab and that of a call.
NowTab(t, x) == tab' = [tab EXCEPT ![t] = x]
NowCall(c, q) == call' = [call EXCEPT ![c] = q]

LEMMA TabMoves ==
    ASSUME NEW n \in Nat, tab \in [Tab -> TabUpTo(n)], NEW t \in Tab, NEW x \in TabUpTo(n),
           NowTab(t, x)
    PROVE  tab' \in [Tab -> TabUpTo(n)] /\ tab'[t] = x
  BY DEF NowTab

LEMMA CallMoves ==
    ASSUME NEW n \in Nat, call \in [Call -> CallUpTo(n)], NEW c \in Call, NEW q \in CallUpTo(n),
           NowCall(c, q)
    PROVE  /\ call' \in [Call -> CallUpTo(n)] /\ call'[c] = q
           /\ \A d \in Call \ {c} : call'[d] = call[d]
  BY DEF NowCall

LEMMA AnswerMoves ==
    ASSUME NEW n \in Nat, call \in [Call -> CallUpTo(n)], NEW c \in Call,
           NEW pc \in {"ok", "denied", "waiting"}, S!Answer(c, pc)
    PROVE  /\ call' \in [Call -> CallUpTo(n)] /\ call'[c].pc = pc
           /\ call'[c].tab = call[c].tab /\ call'[c].kind = call[c].kind
           /\ call'[c].token = call[c].token /\ call'[c].retried = call[c].retried
           /\ \A d \in Call \ {c} : call'[d] = call[d]
<1> DEFINE q == [call[c] EXCEPT !.pc = pc]
<1>1. NowCall(c, q)
  BY DEF S!Answer, NowCall
<1>2. /\ q \in CallUpTo(n) /\ q.pc = pc /\ q.tab = call[c].tab /\ q.kind = call[c].kind
      /\ q.token = call[c].token /\ q.retried = call[c].retried
  BY DEF CallUpTo
<1> HIDE DEF q
<1>3. QED BY <1>1, <1>2, CallMoves

LEMMA EndMoves ==
    ASSUME NEW n \in Nat, call \in [Call -> CallUpTo(n)], NEW c \in Call,
           NEW pc \in {"idle", "failed"}, S!End(c, pc)
    PROVE  /\ call' \in [Call -> CallUpTo(n)] /\ call'[c].pc = pc /\ ~call'[c].retried
           /\ \A d \in Call \ {c} : call'[d] = call[d]
<1> DEFINE q == [S!NoCall EXCEPT !.pc = pc]
<1>1. NowCall(c, q)
  BY DEF S!End, NowCall
<1>2. q \in CallUpTo(n) /\ q.pc = pc /\ ~q.retried
  BY NothingSent DEF CallUpTo
<1> HIDE DEF q
<1>3. QED BY <1>1, <1>2, CallMoves

LEMMA RefreshesGivenUp ==
    ASSUME NEW n \in Nat, NEW x \in RefreshUpTo(n)
    PROVE  S!GivenUp(x) \subseteq 0..n
  BY DEF S!GivenUp, RefreshUpTo

LEMMA BootIs ==
    ASSUME NEW n \in Nat, tab \in [Tab -> TabUpTo(n)], NEW t \in Tab, NEW token \in 0..n
    PROVE  S!Boot(t, token) \in RefreshUpTo(n)
<1>1. [st |-> "due", token |-> 0] \in RefreshUpTo(n) /\ S!NoRefresh \in RefreshUpTo(n)
  BY NothingSent DEF RefreshUpTo
<1>2. tab[t].boot \in RefreshUpTo(n)
  BY DEF TabUpTo
<1>3. QED BY <1>1, <1>2 DEF S!Boot

LEMMA SetTokenMoves ==
    ASSUME NEW n \in Nat, tab \in [Tab -> TabUpTo(n)], strays \subseteq 0..n, NEW t \in Tab,
           NEW token \in 0..n, NEW x \in RefreshUpTo(n), S!SetToken(t, token, x)
    PROVE  /\ tab' \in [Tab -> TabUpTo(n)] /\ strays' \subseteq 0..n
           /\ tab'[t].token = token /\ tab'[t].flight = x
           /\ tab'[t].boot = S!Boot(t, token) /\ tab'[t].inApp = tab[t].inApp
<1> DEFINE b == S!Boot(t, token)
           y == [tab[t] EXCEPT !.token = token, !.flight = x, !.boot = b]
<1>1. b \in RefreshUpTo(n)
  BY BootIs
<1>2. NowTab(t, y)
  BY DEF S!SetToken, NowTab
<1>3. strays' \subseteq 0..n
  <2>1. tab[t].boot \in RefreshUpTo(n)
    BY DEF TabUpTo
  <2>2. S!GivenUp(tab[t].boot) \subseteq 0..n
    BY <2>1, RefreshesGivenUp
  <2>3. QED BY <2>2 DEF S!SetToken
<1> HIDE DEF b
<1>4. /\ y \in TabUpTo(n) /\ y.token = token /\ y.flight = x /\ y.boot = b
      /\ y.inApp = tab[t].inApp
  BY <1>1 DEF TabUpTo
<1> HIDE DEF y
<1>5. tab' \in [Tab -> TabUpTo(n)] /\ tab'[t] = y
  BY <1>2, <1>4, TabMoves
<1>6. QED BY <1>3, <1>4, <1>5 DEF b

-----------------------------------------------------------------------------
(* The types are kept by every step.                                       *)

LEMMA SendTypes ==
    ASSUME SessionTypes, NEW t \in Tab, NEW c \in Call, NEW kind \in S!Kind, S!Send(t, c, kind)
    PROVE  /\ SessionTypes'
           /\ call'[c].pc = "sent" /\ call'[c].tab = t /\ call'[c].kind = kind
           /\ call'[c].token = tab[t].token /\ ~call'[c].retried
           /\ \A d \in Call \ {c} : call'[d] = call[d]
           /\ UNCHANGED <<jar, S!api, tab>>
<1> DEFINE q == [pc |-> "sent", tab |-> t, kind |-> kind, token |-> tab[t].token,
                 retried |-> FALSE]
<1>1. NowCall(c, q) /\ UNCHANGED <<jar, S!api, tab, strays>>
  BY DEF S!Send, NowCall
<1>2. q \in CallUpTo(issued)
  BY DEF SessionTypes, TabUpTo, CallUpTo
<1>3. q.pc = "sent" /\ q.tab = t /\ q.kind = kind /\ q.token = tab[t].token /\ ~q.retried
  OBVIOUS
<1> HIDE DEF q
<1>4. issued \in Nat /\ issued' = issued /\ ApiKeeps
  BY <1>1, ApiSame, TypesGrow DEF S!api
<1>5. call' \in [Call -> CallUpTo(issued)] /\ call'[c] = q
      /\ \A d \in Call \ {c} : call'[d] = call[d]
  BY <1>1, <1>2, <1>4, CallMoves DEF SessionTypes
<1>6. SessionTypes'
  BY <1>1, <1>4, <1>5, TypesKept DEF SessionTypes
<1>7. QED BY <1>1, <1>3, <1>5, <1>6

\* The API answers a call; only a logout takes anything from what it knows.
LEMMA ServeTypes ==
    ASSUME SessionTypes, NEW c \in Call, S!Serve(c)
    PROVE  /\ SessionTypes' /\ issued' = issued
           /\ call'[c].pc = IF call[c].token \in good THEN "ok" ELSE "denied"
           /\ call'[c].tab = call[c].tab /\ call'[c].kind = call[c].kind
           /\ call'[c].token = call[c].token /\ call'[c].retried = call[c].retried
           /\ \A d \in Call \ {c} : call'[d] = call[d]
           /\ live' \subseteq live /\ good' \subseteq good /\ UNCHANGED <<jar, tab, theft>>
           /\ call[c].kind # "logout" => UNCHANGED S!api
           /\ call[c].kind = "logout" /\ call[c].token \in good => call[c].token \notin live'
<1> DEFINE pc == IF call[c].token \in good THEN "ok" ELSE "denied"
<1>1. S!Answer(c, pc) /\ UNCHANGED <<jar, tab, strays>>
  BY DEF S!Serve
<1>2. /\ issued' = issued /\ live' \subseteq live /\ good' \subseteq good /\ theft' = theft
      /\ call[c].kind # "logout" => UNCHANGED S!api
      /\ call[c].kind = "logout" /\ call[c].token \in good => call[c].token \notin live'
  BY DEF S!Serve, S!api
<1>3. ApiKeeps /\ issued \in Nat
  <2>1. theft' \in BOOLEAN
    BY <1>2 DEF SessionTypes
  <2>2. issued \in Nat /\ issued' = issued
    BY <1>2 DEF SessionTypes
  <2>3. QED BY <1>2, <2>1, <2>2 DEF ApiKeeps, SessionTypes
<1>4. pc \in {"ok", "denied", "waiting"}
  OBVIOUS
<1> HIDE DEF pc
<1>5. /\ call' \in [Call -> CallUpTo(issued)] /\ call'[c].pc = pc
      /\ call'[c].tab = call[c].tab /\ call'[c].kind = call[c].kind
      /\ call'[c].token = call[c].token /\ call'[c].retried = call[c].retried
      /\ \A d \in Call \ {c} : call'[d] = call[d]
  BY <1>1, <1>3, <1>4, AnswerMoves DEF SessionTypes
<1>6. SessionTypes'
  BY <1>1, <1>2, <1>3, <1>5, TypesKept DEF SessionTypes
<1>7. QED BY <1>1, <1>2, <1>5, <1>6 DEF pc

LEMMA ServeVerifyTypes ==
    ASSUME SessionTypes, NEW c \in Call, S!ServeVerify(c)
    PROVE  /\ SessionTypes' /\ ApiKeeps
           /\ call'[c].pc \in {"ok", "denied"} /\ call'[c].kind = "verify"
           /\ call'[c].tab = call[c].tab
           /\ \A d \in Call \ {c} : call'[d] = call[d]
           /\ UNCHANGED <<jar, tab>>
<1>1. call[c].kind = "verify" /\ UNCHANGED <<jar, tab, strays>>
  BY DEF S!ServeVerify
<1>2. CASE S!Answer(c, "denied") /\ UNCHANGED S!api
  <2>1. ApiKeeps /\ issued \in Nat /\ issued' = issued
    BY <1>2, ApiSame, TypesGrow DEF S!api
  <2>2. /\ call' \in [Call -> CallUpTo(issued)] /\ call'[c].pc = "denied"
        /\ call'[c].tab = call[c].tab /\ call'[c].kind = call[c].kind
        /\ \A d \in Call \ {c} : call'[d] = call[d]
    BY <1>2, <2>1, AnswerMoves DEF SessionTypes
  <2>3. SessionTypes'
    BY <1>1, <2>1, <2>2, TypesKept DEF SessionTypes
  <2>4. QED BY <1>1, <2>1, <2>2, <2>3
<1>3. CASE /\ S!Issue /\ live' = live \cup {issued + 1} /\ theft' = theft
           /\ call' = [call EXCEPT ![c].pc = "ok", ![c].token = issued + 1]
  <2> DEFINE n == issued + 1
             q == [call[c] EXCEPT !.pc = "ok", !.token = n]
  <2>1. issued \in Nat /\ issued' = n /\ live \subseteq 1..issued
    BY <1>3, IssueKeeps DEF SessionTypes
  <2>2. ApiKeeps
    <3>1. theft' \in BOOLEAN
      BY <1>3 DEF SessionTypes
    <3>2. live' \subseteq 1..issued' /\ \A m \in 0..issued : m \in live' => m \in live
      BY <1>3, <2>1
    <3>3. QED BY <1>3, <2>1, <3>1, <3>2, IssueKeeps DEF ApiKeeps
  <2>3. NowCall(c, q)
    BY <1>3 DEF NowCall, SessionTypes
  <2>4. call \in [Call -> CallUpTo(n)]
    BY <2>1, <2>2, TypesGrow
  <2>5. n \in Nat /\ n \in 0..n
    BY <2>1
  <2> HIDE DEF n
  <2>6. q \in CallUpTo(n) /\ q.pc = "ok" /\ q.tab = call[c].tab /\ q.kind = call[c].kind
    BY <2>4, <2>5 DEF CallUpTo
  <2> HIDE DEF q
  <2>7. call' \in [Call -> CallUpTo(n)] /\ call'[c] = q
        /\ \A d \in Call \ {c} : call'[d] = call[d]
    BY <2>3, <2>4, <2>5, <2>6, CallMoves
  <2>8. SessionTypes'
    BY <1>1, <2>1, <2>2, <2>7, TypesGrow, TypesKept
  <2>9. QED BY <1>1, <2>2, <2>6, <2>7, <2>8
<1>4. QED BY <1>2, <1>3 DEF S!ServeVerify

\* A call ends, and nothing else happens.
LEMMA EndTypes ==
    ASSUME SessionTypes, NEW c \in Call, NEW pc \in {"idle", "failed"}, S!End(c, pc),
           UNCHANGED <<jar, S!api, tab, strays>>
    PROVE  /\ SessionTypes' /\ call'[c].pc = pc /\ ~call'[c].retried
           /\ \A d \in Call \ {c} : call'[d] = call[d]
<1>1. ApiKeeps /\ issued \in Nat /\ issued' = issued
  BY ApiSame, TypesGrow DEF S!api
<1>2. /\ call' \in [Call -> CallUpTo(issued)] /\ call'[c].pc = pc /\ ~call'[c].retried
      /\ \A d \in Call \ {c} : call'[d] = call[d]
  BY <1>1, EndMoves DEF SessionTypes
<1>3. SessionTypes'
  BY <1>1, <1>2, TypesKept DEF SessionTypes
<1>4. QED BY <1>2, <1>3

LEMMA VerifyDoneTypes ==
    ASSUME SessionTypes, NEW c \in Call, S!VerifyDone(c)
    PROVE  LET t == call[c].tab IN
           /\ SessionTypes' /\ UNCHANGED S!api
           /\ jar' = call[c].token /\ tab'[t].token = call[c].token
           /\ tab'[t].flight = tab[t].flight /\ tab'[t].boot = tab[t].boot
           /\ call'[c].pc = "idle" /\ ~call'[c].retried
           /\ \A d \in Call \ {c} : call'[d] = call[d]
<1> DEFINE t == call[c].tab
<1>1. PICK inApp \in BOOLEAN :
        tab' = [tab EXCEPT ![t].token = call[c].token, ![t].inApp = inApp]
  BY DEF S!VerifyDone
<1>2. jar' = call[c].token /\ S!End(c, "idle") /\ UNCHANGED <<S!api, strays>>
  BY DEF S!VerifyDone
<1>3. ApiKeeps /\ issued \in Nat /\ issued' = issued
  BY <1>2, ApiSame, TypesGrow DEF S!api
<1>4. t \in Tab /\ call[c].token \in 0..issued
  BY DEF SessionTypes, CallUpTo
<1> DEFINE y == [tab[t] EXCEPT !.token = call[c].token, !.inApp = inApp]
<1>5. NowTab(t, y)
  BY <1>1 DEF NowTab, SessionTypes
<1>6. /\ y \in TabUpTo(issued) /\ y.token = call[c].token
      /\ y.flight = tab[t].flight /\ y.boot = tab[t].boot
  BY <1>4 DEF SessionTypes, TabUpTo
<1> HIDE DEF y, t
<1>7. tab' \in [Tab -> TabUpTo(issued)] /\ tab'[t] = y
  BY <1>3, <1>4, <1>5, <1>6, TabMoves DEF SessionTypes
<1>8. /\ call' \in [Call -> CallUpTo(issued)] /\ call'[c].pc = "idle" /\ ~call'[c].retried
      /\ \A d \in Call \ {c} : call'[d] = call[d]
  BY <1>2, <1>3, EndMoves DEF SessionTypes
<1>9. SessionTypes'
  BY <1>2, <1>3, <1>4, <1>7, <1>8, TypesKept DEF SessionTypes
<1>10. QED BY <1>2, <1>6, <1>7, <1>8, <1>9 DEF t

LEMMA LogoutDoneTypes ==
    ASSUME SessionTypes, NEW c \in Call, S!LogoutDone(c)
    PROVE  LET t == call[c].tab IN
           /\ SessionTypes' /\ UNCHANGED S!api
           /\ jar' = 0 /\ tab'[t].token = 0 /\ tab'[t].flight = tab[t].flight
           /\ tab'[t].boot.st \in {"none", "due"}
           /\ call'[c].pc = "idle" /\ ~call'[c].retried
           /\ \A d \in Call \ {c} : call'[d] = call[d]
<1> DEFINE t == call[c].tab
<1>1. PICK b \in {S!NoRefresh, [st |-> "due", token |-> 0]} :
        tab' = [tab EXCEPT ![t].token = 0, ![t].inApp = FALSE, ![t].boot = b]
  BY DEF S!LogoutDone
<1>2. jar' = 0 /\ S!End(c, "idle") /\ UNCHANGED S!api
      /\ strays' = strays \cup S!GivenUp(tab[t].boot)
  BY DEF S!LogoutDone
<1>3. ApiKeeps /\ issued \in Nat /\ issued' = issued
  BY <1>2, ApiSame, TypesGrow DEF S!api
<1>4. t \in Tab
  BY DEF SessionTypes, CallUpTo
<1>5. b \in RefreshUpTo(issued) /\ b.st \in {"none", "due"}
  BY <1>3, NothingSent DEF RefreshUpTo
<1> DEFINE y == [tab[t] EXCEPT !.token = 0, !.inApp = FALSE, !.boot = b]
<1>6. NowTab(t, y)
  BY <1>1 DEF NowTab, SessionTypes
<1>7. y \in TabUpTo(issued) /\ y.token = 0 /\ y.flight = tab[t].flight /\ y.boot = b
  <2>1. tab[t] \in TabUpTo(issued) /\ 0 \in 0..issued
    BY <1>3, <1>4 DEF SessionTypes
  <2> HIDE DEF t
  <2>2. QED BY <1>5, <2>1 DEF TabUpTo
<1> HIDE DEF y, t
<1>8. tab' \in [Tab -> TabUpTo(issued)] /\ tab'[t] = y
  BY <1>3, <1>4, <1>6, <1>7, TabMoves DEF SessionTypes
<1>9. /\ call' \in [Call -> CallUpTo(issued)] /\ call'[c].pc = "idle" /\ ~call'[c].retried
      /\ \A d \in Call \ {c} : call'[d] = call[d]
  BY <1>2, <1>3, EndMoves DEF SessionTypes
<1>10. strays' \subseteq 0..issued /\ jar' \in 0..issued
  <2>1. tab[t].boot \in RefreshUpTo(issued)
    BY <1>4 DEF SessionTypes, TabUpTo
  <2>2. S!GivenUp(tab[t].boot) \subseteq 0..issued
    BY <1>3, <2>1, RefreshesGivenUp
  <2>3. strays \subseteq 0..issued /\ 0 \in 0..issued
    BY <1>3 DEF SessionTypes
  <2>4. QED BY <1>2, <2>2, <2>3
<1>11. SessionTypes'
  BY <1>3, <1>8, <1>9, <1>10, TypesKept DEF SessionTypes
<1>12. QED BY <1>2, <1>5, <1>7, <1>8, <1>9, <1>11 DEF t

\* The first 401 of a call: it waits, and a refresh is on its way.
LEMMA DeniedTypes ==
    ASSUME SessionTypes, NEW c \in Call, S!Denied(c)
    PROVE  LET t == call[c].tab IN
           /\ SessionTypes' /\ UNCHANGED <<jar, S!api>>
           /\ tab'[t].token = tab[t].token /\ tab'[t].inApp = tab[t].inApp
           /\ tab'[t].boot = tab[t].boot
           /\ \A d \in Call \ {c} : call'[d] = call[d]
           /\ call[c].retried => call'[c].pc = "failed" /\ tab' = tab
           /\ ~call[c].retried =>
                /\ call'[c].pc = "waiting" /\ call'[c].tab = t
                /\ call'[c].kind = call[c].kind /\ call'[c].token = call[c].token
                /\ call'[c].retried = call[c].retried
                /\ tab'[t].flight = IF tab[t].flight.st # "none" THEN tab[t].flight
                                    ELSE [st |-> "out", token |-> jar]
<1> DEFINE t == call[c].tab
<1>1. UNCHANGED <<jar, S!api, strays>>
  BY DEF S!Denied
<1>2. ApiKeeps /\ issued \in Nat /\ issued' = issued
  BY <1>1, ApiSame, TypesGrow DEF S!api
<1>3. t \in Tab
  BY DEF SessionTypes, CallUpTo
<1>4. CASE call[c].retried
  BY <1>1, <1>4, EndTypes DEF S!Denied
<1>5. CASE ~call[c].retried
  <2>1. S!Answer(c, "waiting")
    BY <1>5 DEF S!Denied
  <2>2. /\ call' \in [Call -> CallUpTo(issued)] /\ call'[c].pc = "waiting"
        /\ call'[c].tab = call[c].tab /\ call'[c].kind = call[c].kind
        /\ call'[c].token = call[c].token /\ call'[c].retried = call[c].retried
        /\ \A d \in Call \ {c} : call'[d] = call[d]
    BY <1>2, <2>1, AnswerMoves DEF SessionTypes
  <2>3. CASE tab[t].flight.st # "none"
    <3>1. tab' = tab
      BY <1>5, <2>3 DEF S!Denied
    <3>2. SessionTypes'
      BY <1>1, <1>2, <2>2, <3>1, TypesKept DEF SessionTypes
    <3>3. QED BY <1>1, <1>5, <2>2, <2>3, <3>1, <3>2
  <2>4. CASE tab[t].flight.st = "none"
    <3> DEFINE x == [st |-> "out", token |-> jar]
    <3>1. tab' = [tab EXCEPT ![t].flight = x]
      BY <1>5, <2>4 DEF S!Denied
    <3>2. x \in RefreshUpTo(issued)
      BY DEF SessionTypes, RefreshUpTo
    <3> HIDE DEF x, t
    <3>3. NowRefresh(t, "flight", x)
      BY <3>1 DEF NowRefresh
    <3>4. /\ tab' \in [Tab -> TabUpTo(issued)]
          /\ tab'[t].token = tab[t].token /\ tab'[t].inApp = tab[t].inApp
          /\ tab'[t].flight = x /\ tab'[t].boot = tab[t].boot
      BY <1>2, <1>3, <3>2, <3>3, RefreshMoves DEF SessionTypes
    <3>5. SessionTypes'
      BY <1>1, <1>2, <2>2, <3>4, TypesKept DEF SessionTypes
    <3>6. QED BY <1>1, <1>5, <2>2, <2>4, <3>4, <3>5 DEF x, t
  <2>5. QED BY <2>3, <2>4
<1>6. QED BY <1>4, <1>5

\* One of the two refreshes of a tab, and with it the API or the cookie.
LEMMA RefreshTypes ==
    ASSUME SessionTypes, ApiKeeps, NEW t \in Tab, NEW w \in {"flight", "boot"}, NEW x,
           x \in RefreshUpTo(issued'), NowRefresh(t, w, x), jar' \in 0..issued',
           strays' \subseteq 0..issued', UNCHANGED call
    PROVE  /\ SessionTypes'
           /\ tab'[t].token = tab[t].token /\ tab'[t].inApp = tab[t].inApp
           /\ w = "flight" => tab'[t].flight = x /\ tab'[t].boot = tab[t].boot
           /\ w = "boot" => tab'[t].boot = x /\ tab'[t].flight = tab[t].flight
<1>1. /\ tab \in [Tab -> TabUpTo(issued')] /\ call \in [Call -> CallUpTo(issued')]
      /\ issued' \in Nat
  BY TypesGrow
<1> DEFINE n == issued'
<1>2. n \in Nat /\ tab \in [Tab -> TabUpTo(n)] /\ x \in RefreshUpTo(n)
  BY <1>1
<1> HIDE DEF n
<1>3. /\ tab' \in [Tab -> TabUpTo(n)]
      /\ tab'[t].token = tab[t].token /\ tab'[t].inApp = tab[t].inApp
      /\ w = "flight" => tab'[t].flight = x /\ tab'[t].boot = tab[t].boot
      /\ w = "boot" => tab'[t].boot = x /\ tab'[t].flight = tab[t].flight
  BY <1>2, RefreshMoves
<1>4. tab' \in [Tab -> TabUpTo(issued')]
  BY <1>3 DEF n
<1>5. call' \in [Call -> CallUpTo(issued')]
  BY <1>1
<1>6. SessionTypes'
  BY <1>4, <1>5, TypesKept
<1>7. QED BY <1>3, <1>6

LEMMA RefreshIs ==
    ASSUME SessionTypes, NEW t \in Tab, NEW w \in {"flight", "boot"}
    PROVE  /\ tab[t][w] \in RefreshUpTo(issued) /\ issued \in Nat
           /\ w = "flight" => tab[t][w] = tab[t].flight
           /\ w = "boot" => tab[t][w] = tab[t].boot
<1>1. tab[t] \in TabUpTo(issued) /\ issued \in Nat
  BY DEF SessionTypes
<1>2. CASE w = "flight"
  BY <1>1, <1>2 DEF TabUpTo
<1>3. CASE w = "boot"
  BY <1>1, <1>3 DEF TabUpTo
<1>4. QED BY <1>2, <1>3

LEMMA ServesTypes ==
    ASSUME SessionTypes, NEW t \in Tab, NEW w \in {"flight", "boot"}, S!Serves(t, w)
    PROVE  /\ SessionTypes' /\ ApiKeeps /\ UNCHANGED <<jar, call>>
           /\ tab[t][w].st = "out"
           /\ tab'[t].token = tab[t].token /\ tab'[t].inApp = tab[t].inApp
           /\ \E got : /\ S!Exchange(tab[t][w].token, got)
                       /\ w = "flight" => /\ tab'[t].flight = [st |-> "back", token |-> got]
                                          /\ tab'[t].boot = tab[t].boot
                       /\ w = "boot" => /\ tab'[t].boot = [st |-> "back", token |-> got]
                                        /\ tab'[t].flight = tab[t].flight
<1>1. PICK got \in S!Token :
        /\ S!Exchange(tab[t][w].token, got)
        /\ tab' = [tab EXCEPT ![t][w] = [st |-> "back", token |-> got]]
  BY DEF S!Serves
<1> DEFINE x == [st |-> "back", token |-> got]
<1>2. ApiKeeps /\ got \in 0..issued'
  BY <1>1, ExchangeKeeps
<1>3. x \in RefreshUpTo(issued')
  BY <1>2 DEF RefreshUpTo
<1>4. NowRefresh(t, w, x)
  BY <1>1 DEF NowRefresh
<1> HIDE DEF x
<1>5. UNCHANGED <<jar, call, strays>> /\ tab[t][w].st = "out"
  BY DEF S!Serves
<1>6. jar' \in 0..issued' /\ strays' \subseteq 0..issued'
  BY <1>2, <1>5, TypesGrow
<1>7. /\ SessionTypes'
      /\ tab'[t].token = tab[t].token /\ tab'[t].inApp = tab[t].inApp
      /\ w = "flight" => tab'[t].flight = x /\ tab'[t].boot = tab[t].boot
      /\ w = "boot" => tab'[t].boot = x /\ tab'[t].flight = tab[t].flight
  BY <1>2, <1>3, <1>4, <1>5, <1>6, RefreshTypes
<1>8. QED BY <1>1, <1>2, <1>5, <1>7 DEF x

LEMMA CookieArrivesTypes ==
    ASSUME SessionTypes, NEW t \in Tab, NEW w \in {"flight", "boot"}, S!CookieArrives(t, w)
    PROVE  /\ SessionTypes' /\ UNCHANGED <<S!api, call>>
           /\ tab[t][w].st = "back"
           /\ jar' = IF tab[t][w].token # 0 THEN tab[t][w].token ELSE jar
           /\ tab'[t].token = tab[t].token /\ tab'[t].inApp = tab[t].inApp
           /\ w = "flight" => /\ tab'[t].flight = [st |-> "set", token |-> tab[t].flight.token]
                              /\ tab'[t].boot = tab[t].boot
           /\ w = "boot" => /\ tab'[t].boot = [st |-> "set", token |-> tab[t].boot.token]
                            /\ tab'[t].flight = tab[t].flight
<1> DEFINE n == tab[t][w].token
           x == [st |-> "set", token |-> n]
<1>1. /\ tab[t][w].st = "back" /\ UNCHANGED <<S!api, call, strays>>
      /\ jar' = IF n # 0 THEN n ELSE jar
      /\ tab' = [tab EXCEPT ![t][w].st = "set"]
  BY DEF S!CookieArrives
<1>2. tab[t][w] \in RefreshUpTo(issued) /\ issued \in Nat
  BY RefreshIs
<1>3. n \in 0..issued /\ x \in RefreshUpTo(issued) /\ [tab[t][w] EXCEPT !.st = "set"] = x
  BY <1>2 DEF RefreshUpTo
<1> HIDE DEF x
<1>4. NowRefresh(t, w, x)
  <2>1. tab' = [tab EXCEPT ![t][w] = [tab[t][w] EXCEPT !.st = "set"]]
    <3>1. tab[t] \in TabUpTo(issued)
      BY DEF SessionTypes
    <3>2. QED BY <1>1, <3>1 DEF SessionTypes, TabUpTo
  <2>2. QED BY <1>3, <2>1 DEF NowRefresh
<1>5. ApiKeeps /\ issued' = issued
  BY <1>1, ApiSame DEF S!api
<1>6. jar' \in 0..issued' /\ strays' \subseteq 0..issued'
  BY <1>1, <1>3, <1>5 DEF SessionTypes
<1>7. /\ SessionTypes'
      /\ tab'[t].token = tab[t].token /\ tab'[t].inApp = tab[t].inApp
      /\ w = "flight" => tab'[t].flight = x /\ tab'[t].boot = tab[t].boot
      /\ w = "boot" => tab'[t].boot = x /\ tab'[t].flight = tab[t].flight
  BY <1>1, <1>3, <1>4, <1>5, <1>6, RefreshTypes
<1>8. (w = "flight" => n = tab[t].flight.token) /\ (w = "boot" => n = tab[t].boot.token)
  BY RefreshIs
<1>9. QED BY <1>1, <1>7, <1>8 DEF x

LEMMA RefreshLostTypes ==
    ASSUME SessionTypes, NEW t \in Tab, NEW w \in {"flight", "boot"}, S!RefreshLost(t, w)
    PROVE  SessionTypes'
<1> DEFINE x == [st |-> "set", token |-> 0]
<1>1. /\ UNCHANGED <<jar, S!api, call>> /\ NowRefresh(t, w, x)
      /\ strays' = strays \cup S!GivenUp(tab[t][w])
  BY DEF S!RefreshLost, NowRefresh
<1>2. ApiKeeps /\ issued \in Nat /\ issued' = issued
  BY <1>1, ApiSame, TypesGrow DEF S!api
<1>3. x \in RefreshUpTo(issued') /\ jar' \in 0..issued'
  BY <1>1, <1>2 DEF RefreshUpTo, SessionTypes
<1> HIDE DEF x
<1>4. S!GivenUp(tab[t][w]) \subseteq 0..issued
  BY RefreshIs, RefreshesGivenUp
<1>5. strays' \subseteq 0..issued'
  BY <1>1, <1>2, <1>4 DEF SessionTypes
<1>6. QED BY <1>1, <1>2, <1>3, <1>5, RefreshTypes

LEMMA BootSentTypes ==
    ASSUME SessionTypes, NEW t \in Tab, S!BootSent(t)
    PROVE  /\ SessionTypes' /\ UNCHANGED <<jar, S!api, call>>
           /\ tab[t].boot.st = "due"
           /\ tab'[t].token = tab[t].token /\ tab'[t].flight = tab[t].flight
           /\ tab'[t].boot = [st |-> "out", token |-> jar]
<1> DEFINE x == [st |-> "out", token |-> jar]
<1>1. /\ tab[t].boot.st = "due" /\ UNCHANGED <<jar, S!api, call, strays>>
      /\ tab' = [tab EXCEPT ![t].boot = x]
  BY DEF S!BootSent
<1>2. ApiKeeps /\ issued \in Nat /\ issued' = issued
  BY <1>1, ApiSame, TypesGrow DEF S!api
<1>3. x \in RefreshUpTo(issued') /\ jar' \in 0..issued' /\ strays' \subseteq 0..issued'
  BY <1>1, <1>2 DEF RefreshUpTo, SessionTypes
<1> HIDE DEF x
<1>4. NowRefresh(t, "boot", x)
  BY <1>1 DEF NowRefresh
<1>5. /\ SessionTypes' /\ tab'[t].token = tab[t].token
      /\ tab'[t].boot = x /\ tab'[t].flight = tab[t].flight
  BY <1>1, <1>2, <1>3, <1>4, RefreshTypes
<1>6. QED BY <1>1, <1>5 DEF x

LEMMA BootDoneTypes ==
    ASSUME SessionTypes, NEW t \in Tab, S!BootDone(t)
    PROVE  /\ SessionTypes' /\ UNCHANGED <<jar, S!api, call>>
           /\ tab[t].boot.st = "set"
           /\ tab'[t].token = IF tab[t].boot.token # 0 THEN tab[t].boot.token ELSE tab[t].token
           /\ tab'[t].flight = tab[t].flight /\ tab'[t].boot.st = "none"
<1> DEFINE n == tab[t].boot.token
           m == IF n # 0 THEN n ELSE tab[t].token
           y == [tab[t] EXCEPT !.boot = S!NoRefresh, !.token = m]
<1>1. /\ tab[t].boot.st = "set" /\ UNCHANGED <<jar, S!api, call, strays>>
      /\ NowTab(t, y)
  BY DEF S!BootDone, NowTab, SessionTypes
<1>2. ApiKeeps /\ issued \in Nat /\ issued' = issued
  BY <1>1, ApiSame, TypesGrow DEF S!api
<1>3. m \in 0..issued
  BY DEF SessionTypes, TabUpTo, RefreshUpTo
<1> HIDE DEF m
<1>4. /\ y \in TabUpTo(issued) /\ y.token = m /\ y.flight = tab[t].flight
      /\ y.boot.st = "none"
  BY <1>2, <1>3, NothingSent DEF SessionTypes, TabUpTo
<1> HIDE DEF y
<1>5. tab' \in [Tab -> TabUpTo(issued)] /\ tab'[t] = y
  BY <1>1, <1>2, <1>4, TabMoves DEF SessionTypes
<1>6. SessionTypes'
  BY <1>1, <1>2, <1>5, TypesKept DEF SessionTypes
<1>7. QED BY <1>1, <1>4, <1>5, <1>6 DEF m

LEMMA FlightDoneTypes ==
    ASSUME SessionTypes, NEW t \in Tab, S!FlightDone(t)
    PROVE  LET n == tab[t].flight.token IN
           /\ SessionTypes' /\ UNCHANGED <<jar, S!api>>
           /\ tab[t].flight.st = "set"
           /\ tab'[t].token = n /\ tab'[t].flight.st = "none"
           /\ tab'[t].boot = S!Boot(t, n) /\ tab'[t].inApp = tab[t].inApp
           /\ \A c \in Call : call[c].tab # t \/ call[c].pc # "waiting" => call'[c] = call[c]
           /\ \A c \in Call :
                call[c].tab = t /\ call[c].pc = "waiting" =>
                   /\ n = 0 => call'[c].pc = "failed"
                   /\ n # 0 => /\ call'[c].pc = "sent" /\ call'[c].tab = t
                               /\ call'[c].kind = call[c].kind
                               /\ call'[c].token = n /\ call'[c].retried
<1> DEFINE n == tab[t].flight.token
           failed == [S!NoCall EXCEPT !.pc = "failed"]
           again(c) == [call[c] EXCEPT !.pc = "sent", !.token = n, !.retried = TRUE]
<1>1. /\ UNCHANGED <<jar, S!api>> /\ tab[t].flight.st = "set"
      /\ S!SetToken(t, n, S!NoRefresh)
      /\ call' = [c \in Call |->
                    IF c \notin S!CallsOf(t) \/ call[c].pc # "waiting" THEN call[c]
                    ELSE IF n = 0 THEN failed ELSE again(c)]
  BY DEF S!FlightDone
<1>2. ApiKeeps /\ issued \in Nat /\ issued' = issued
  BY <1>1, ApiSame, TypesGrow DEF S!api
<1>3. n \in 0..issued /\ S!NoRefresh \in RefreshUpTo(issued) /\ S!NoRefresh.st = "none"
  BY <1>2, NothingSent DEF SessionTypes, TabUpTo, RefreshUpTo
<1>4. failed \in CallUpTo(issued) /\ failed.pc = "failed"
  BY <1>2, NothingSent DEF CallUpTo
<1> HIDE DEF n, failed
<1>5. \A c \in Call : /\ again(c) \in CallUpTo(issued)
                      /\ again(c).pc = "sent" /\ again(c).tab = call[c].tab
                      /\ again(c).kind = call[c].kind
                      /\ again(c).token = n /\ again(c).retried
  BY <1>3 DEF SessionTypes, CallUpTo
<1> HIDE DEF again
<1>6. /\ tab' \in [Tab -> TabUpTo(issued)] /\ strays' \subseteq 0..issued
      /\ tab'[t].token = n /\ tab'[t].flight = S!NoRefresh
      /\ tab'[t].boot = S!Boot(t, n) /\ tab'[t].inApp = tab[t].inApp
  BY <1>1, <1>2, <1>3, SetTokenMoves DEF SessionTypes
<1>7. \A c \in Call : c \in S!CallsOf(t) /\ call[c].pc = "waiting"
                      <=> call[c].tab = t /\ call[c].pc = "waiting"
  BY DEF S!CallsOf, S!Over
<1>8. \A c \in Call :
        /\ call[c].tab # t \/ call[c].pc # "waiting" => call'[c] = call[c]
        /\ call[c].tab = t /\ call[c].pc = "waiting" =>
              call'[c] = IF n = 0 THEN failed ELSE again(c)
  BY <1>1, <1>7
<1>9. call' \in [Call -> CallUpTo(issued)]
  <2>1. \A c \in Call : call'[c] \in CallUpTo(issued)
    BY <1>4, <1>5, <1>8 DEF SessionTypes
  <2>2. call' = [c \in Call |-> call'[c]]
    BY <1>1
  <2>3. QED BY <2>1, <2>2
<1>10. SessionTypes'
  BY <1>1, <1>2, <1>6, <1>9, TypesKept DEF SessionTypes
<1>11. QED BY <1>1, <1>3, <1>4, <1>5, <1>6, <1>8, <1>10 DEF n

LEMMA LoadTypes ==
    ASSUME SessionTypes, NEW t \in Tab, NEW inApp \in BOOLEAN, S!Load(t, inApp)
    PROVE  /\ SessionTypes' /\ UNCHANGED <<jar, S!api>>
           /\ tab'[t].token = 0 /\ tab'[t].flight.st = "none"
           /\ tab'[t].boot.st \in {"none", "due"}
           /\ S!CallsOf(t) = {} => call' = call
<1> DEFINE b == [st |-> IF inApp THEN "due" ELSE "none", token |-> 0]
           y == [inApp |-> inApp, token |-> 0, flight |-> S!NoRefresh, boot |-> b]
<1>1. /\ NowTab(t, y) /\ UNCHANGED <<jar, S!api>>
      /\ call' = [c \in Call |-> IF c \in S!CallsOf(t) THEN S!NoCall ELSE call[c]]
      /\ strays' = strays \cup S!GivenUp(tab[t].flight) \cup S!GivenUp(tab[t].boot)
  BY DEF S!Load, NowTab
<1>2. ApiKeeps /\ issued \in Nat /\ issued' = issued
  BY <1>1, ApiSame, TypesGrow DEF S!api
<1>3. b \in RefreshUpTo(issued) /\ b.st \in {"none", "due"}
  BY <1>2 DEF RefreshUpTo
<1> HIDE DEF b
<1>4. /\ y \in TabUpTo(issued) /\ y.token = 0 /\ y.flight.st = "none"
      /\ y.boot.st \in {"none", "due"}
  BY <1>2, <1>3, NothingSent DEF TabUpTo
<1> HIDE DEF y
<1>5. tab' \in [Tab -> TabUpTo(issued)] /\ tab'[t] = y
  BY <1>1, <1>2, <1>4, TabMoves DEF SessionTypes
<1>6. call' \in [Call -> CallUpTo(issued)]
  BY <1>1, <1>2, NothingSent DEF SessionTypes
<1>7. strays' \subseteq 0..issued
  <2>1. tab[t].flight \in RefreshUpTo(issued) /\ tab[t].boot \in RefreshUpTo(issued)
    BY DEF SessionTypes, TabUpTo
  <2>2. S!GivenUp(tab[t].flight) \subseteq 0..issued /\ S!GivenUp(tab[t].boot) \subseteq 0..issued
    BY <1>2, <2>1, RefreshesGivenUp
  <2>3. strays \subseteq 0..issued
    BY DEF SessionTypes
  <2>4. QED BY <1>1, <2>2, <2>3
<1>8. SessionTypes'
  BY <1>1, <1>2, <1>5, <1>6, <1>7, TypesKept DEF SessionTypes
<1>9. S!CallsOf(t) = {} => call' = call
  BY <1>1 DEF SessionTypes
<1>10. QED BY <1>1, <1>4, <1>5, <1>8, <1>9

LEMMA ExpireTypes ==
    ASSUME SessionTypes, NEW n \in good, S!Expire(n)
    PROVE  /\ SessionTypes' /\ good' = good \ {n}
           /\ UNCHANGED <<jar, live, issued, theft, tab, call>>
<1>1. good' = good \ {n} /\ UNCHANGED <<jar, live, issued, theft, tab, call, strays>>
  BY DEF S!Expire
<1>2. theft' \in BOOLEAN
  BY <1>1 DEF SessionTypes
<1>3. good' \subseteq 1..issued'
  BY <1>1 DEF SessionTypes
<1>4. QED BY <1>1, <1>2, <1>3 DEF SessionTypes

LEMMA StrayTypes == ASSUME SessionTypes, S!StrayServed PROVE SessionTypes'
<1>1. PICK sent \in strays, got \in S!Token :
        S!Exchange(sent, got) /\ strays' = strays \ {sent} /\ UNCHANGED <<jar, tab, call>>
  BY DEF S!StrayServed
<1>2. ApiKeeps
  BY <1>1, ExchangeKeeps
<1>3. strays' \subseteq strays
  BY <1>1
<1>4. QED BY <1>1, <1>2, <1>3, TypesGrow, TypesKept

LEMMA CallStepTypes == ASSUME SessionTypes, NEW c \in Call, S!CallStep(c) PROVE SessionTypes'
<1>1. CASE S!Serve(c) BY <1>1, ServeTypes
<1>2. CASE S!ServeVerify(c) BY <1>2, ServeVerifyTypes
<1>3. CASE S!Done(c) BY <1>3, EndTypes DEF S!Done
<1>4. CASE S!VerifyDone(c) BY <1>4, VerifyDoneTypes
<1>5. CASE S!LogoutDone(c) BY <1>5, LogoutDoneTypes
<1>6. CASE S!Denied(c) BY <1>6, DeniedTypes
<1>7. QED BY <1>1, <1>2, <1>3, <1>4, <1>5, <1>6 DEF S!CallStep

LEMMA ProgressTypes == ASSUME SessionTypes, NEW t \in Tab, S!Progress(t) PROVE SessionTypes'
<1>1. ASSUME NEW w \in {"flight", "boot"}, S!Serves(t, w) PROVE SessionTypes'
  BY <1>1, ServesTypes
<1>2. ASSUME NEW w \in {"flight", "boot"}, S!CookieArrives(t, w) PROVE SessionTypes'
  BY <1>2, CookieArrivesTypes
<1>3. CASE S!FlightDone(t) BY <1>3, FlightDoneTypes
<1>4. CASE S!BootSent(t) BY <1>4, BootSentTypes
<1>5. CASE S!BootDone(t) BY <1>5, BootDoneTypes
<1>6. CASE \E c \in S!CallsOf(t) : S!CallStep(c)
  BY <1>6, CallStepTypes DEF S!CallsOf
<1>7. QED BY <1>1, <1>2, <1>3, <1>4, <1>5, <1>6 DEF S!Progress, S!FlightStep, S!BootStep

LEMMA LostTypes == ASSUME SessionTypes, S!Lost PROVE SessionTypes'
<1>1. ASSUME NEW c \in Call, S!CallLost(c) PROVE SessionTypes'
  BY <1>1, EndTypes DEF S!CallLost
<1>2. ASSUME NEW t \in Tab, NEW w \in {"flight", "boot"}, S!RefreshLost(t, w) PROVE SessionTypes'
  BY <1>2, RefreshLostTypes
<1>3. QED BY <1>1, <1>2 DEF S!Lost

LEMMA SessionStep == ASSUME SessionTypes, MCNext PROVE SessionTypes'
<1>0. {t1, t2} \subseteq Tab /\ "call" \in S!Kind /\ "logout" \in S!Kind
  BY SessionAssumption DEF S!Kind
<1>1. CASE Calm
  <2>1. CASE S!FlightStep(t1)
    BY <1>0, <2>1, ProgressTypes DEF S!Progress
  <2>2. ASSUME NEW c \in Call, S!CallStep(c) PROVE SessionTypes'
    BY <2>2, CallStepTypes
  <2>3. ASSUME NEW c \in Call, S!Send(t1, c, "call") PROVE SessionTypes'
    BY <1>0, <2>3, SendTypes
  <2>4. ASSUME NEW n \in good, S!Expire(n) PROVE SessionTypes'
    BY <2>4, ExpireTypes
  <2>5. QED BY <1>1, <2>1, <2>2, <2>3, <2>4 DEF Calm
<1>2. CASE Alone
  <2>1. CASE S!Progress(t1)
    BY <1>0, <2>1, ProgressTypes
  <2>2. ASSUME NEW c \in Call, NEW kind \in S!Kind, S!Send(t1, c, kind) PROVE SessionTypes'
    BY <1>0, <2>2, SendTypes
  <2>3. CASE S!Load(t1, jar # 0)
    <3>1. (jar # 0) \in BOOLEAN
      OBVIOUS
    <3>2. QED BY <1>0, <2>3, <3>1, LoadTypes
  <2>4. ASSUME NEW n \in good, S!Expire(n) PROVE SessionTypes'
    BY <2>4, ExpireTypes
  <2>5. QED BY <1>2, <2>1, <2>2, <2>3, <2>4 DEF Alone
<1>3. CASE Wild
  <2>1. ASSUME NEW t \in Tab, S!Progress(t) PROVE SessionTypes'
    BY <2>1, ProgressTypes
  <2>2. ASSUME NEW inApp \in BOOLEAN, S!Load(t1, inApp) PROVE SessionTypes'
    BY <1>0, <2>2, LoadTypes
  <2>3. ASSUME NEW kind \in {"call", "logout"}, S!Send(t1, c1, kind) PROVE SessionTypes'
    BY <1>0, <2>3, SessionAssumption, SendTypes
  <2>4. CASE S!Send(t2, c2, "call")
    BY <1>0, <2>4, SessionAssumption, SendTypes
  <2>5. ASSUME NEW n \in good, S!Expire(n) PROVE SessionTypes'
    BY <2>5, ExpireTypes
  <2>6. CASE S!Lost BY <2>6, LostTypes
  <2>7. CASE S!StrayServed BY <2>7, StrayTypes
  <2>8. QED BY <1>3, <2>1, <2>2, <2>3, <2>4, <2>5, <2>6, <2>7 DEF Wild
<1>4. CASE UNCHANGED session
  BY <1>4 DEF session, SessionTypes
<1>5. QED BY <1>1, <1>2, <1>3, <1>4 DEF MCNext

LEMMA SessionStart == MCInit => SessionTypes
<1> SUFFICES ASSUME MCInit PROVE SessionTypes
  OBVIOUS
<1>1. PICK n \in {1, MaxToken - 1} : S!InitAt(n)
  BY DEF MCInit, S!Init
<1>2. n \in 1..MaxToken /\ n \in Nat /\ n \in 0..n /\ n \in 1..n
  BY SessionAssumption
<1>3. tab \in [Tab -> TabUpTo(n)] /\ call \in [Call -> CallUpTo(n)]
  BY <1>1, <1>2, NothingSent DEF S!InitAt, TabUpTo
<1>4. issued = n /\ jar = n /\ live = {n} /\ good = {n} /\ theft = FALSE /\ strays = {}
  BY <1>1 DEF S!InitAt
<1>5. theft \in BOOLEAN /\ strays \subseteq 0..issued
  BY <1>4
<1>6. /\ issued \in 0..MaxToken /\ jar \in 0..issued
      /\ live \subseteq 1..issued /\ good \subseteq 1..issued
  BY <1>2, <1>4, SessionAssumption
<1>7. QED BY <1>3, <1>4, <1>5, <1>6 DEF SessionTypes

LEMMA SessionSame == ASSUME SessionTypes, UNCHANGED session PROVE SessionTypes'
  BY DEF session, SessionTypes

\* The types of the session, in every mode: no token is held, answered or left in
\* the jar before the API has issued it.
THEOREM SessionTypeTheorem == MCSpec => []S!TypeOK
<1>1. ASSUME SessionTypes, [MCNext]_all PROVE SessionTypes'
  BY <1>1, SessionStep, SessionSame DEF all
<1>2. QED BY <1>1, SessionStart, SessionTypesOK, PTL DEF MCSpec

\* The types of the cache, and what its pages promise, when it runs beside the
\* session.
LEMMA CacheBeside == MCSpec => []CacheInv
<1>1. MCInit => CacheInv
  <2> SUFFICES ASSUME MCInit PROVE CacheInv
    OBVIOUS
  <2>1. CASE mode = "cache"
    BY <2>1, CacheStart DEF MCInit, Init
  <2>2. CASE mode # "cache"
    BY <2>2, CacheStart, PagesAssumption DEF MCInit
  <2>3. QED BY <2>1, <2>2
<1>2. ASSUME CacheInv, [MCNext]_all PROVE CacheInv'
  <2>1. Next \/ UNCHANGED vars
    BY <1>2 DEF MCNext, all
  <2>2. QED BY <1>2, <2>1, CacheStep
<1>3. QED BY <1>1, <1>2, PTL DEF MCSpec

\* The same of the client as the run checks it.
THEOREM OwnChangeBesideTheorem == MCSpec => []OwnChangeShows
  BY CacheBeside, CacheShows, PTL

-----------------------------------------------------------------------------
(* A storm in one tab.  Every 401 that is still to come costs a refresh at  *)
(* most, and as many tokens are left to be issued.                         *)

\* A call that has not been answered and will be told that its token has run out.
Stale(c) ==
    /\ call[c].pc # "waiting"
    /\ \/ tab[t1].token \notin good
       \/ call[c].pc \in {"sent", "denied"} /\ call[c].token \notin good

Stales == {c \in Call : Stale(c)}

Owing == IF tab[t1].flight.st = "out" THEN 1 ELSE 0

\* The refresh that is under way is the only one, with the only live token.
OneExchange ==
    LET x == tab[t1].flight IN
    /\ tab[t1].boot.st = "none"
    /\ x.st \in {"none", "out", "back", "set"}
    /\ x.st = "back" => live = {x.token}
    /\ x.st # "back" => live = {jar}
    /\ x.st \in {"out", "set"} => x.token = jar
    /\ x.st \in {"back", "set"} => x.token \in good
    /\ x.st = "out" => \E c \in Call : call[c].pc = "waiting"

\* A call is denied once, and sent again with a token that will do.
DeniedOnce(c) ==
    /\ call[c].pc # "failed"
    /\ call[c].pc # "idle" => call[c].tab = t1 /\ call[c].kind = "call"
    /\ call[c].pc = "denied" => ~call[c].retried /\ call[c].token \notin good
    /\ call[c].pc = "sent" /\ call[c].retried => call[c].token \in good

CalmInv ==
    /\ ~theft
    /\ OneExchange
    /\ \A c \in Call : DeniedOnce(c)
    /\ issued + Cardinality(Stales) + Owing <= MaxToken

LEMMA StalesCount ==
    /\ IsFiniteSet(Stales) /\ Cardinality(Stales) \in Nat /\ Cardinality(Call) \in Nat
    /\ \A R \in SUBSET Stales : /\ IsFiniteSet(R) /\ Cardinality(R) \in Nat
                                /\ Cardinality(R) <= Cardinality(Stales)
    /\ \A c \in Stales : Cardinality(Stales \ {c}) = Cardinality(Stales) - 1
    /\ \A c \in Call : \A R \in SUBSET (Call \ {c}) :
          Cardinality(R) \in Nat /\ Cardinality(R) + 1 <= Cardinality(Call)
    /\ \A R \in SUBSET Call : Cardinality(R) \in Nat /\ Cardinality(R) <= Cardinality(Call)
<1>1. IsFiniteSet(Call) /\ Stales \subseteq Call
  BY SessionAssumption DEF Stales
<1>2. IsFiniteSet(Stales) /\ Cardinality(Stales) \in Nat /\ Cardinality(Call) \in Nat
  BY <1>1, FS_Subset, FS_CardinalityType
<1>3. ASSUME NEW R \in SUBSET Stales
      PROVE  IsFiniteSet(R) /\ Cardinality(R) \in Nat /\ Cardinality(R) <= Cardinality(Stales)
  BY <1>2, FS_Subset, FS_CardinalityType
<1>4. ASSUME NEW c \in Stales PROVE Cardinality(Stales \ {c}) = Cardinality(Stales) - 1
  BY <1>2, FS_RemoveElement
<1>5. ASSUME NEW R \in SUBSET Call
      PROVE  Cardinality(R) \in Nat /\ Cardinality(R) <= Cardinality(Call)
  BY <1>1, FS_Subset, FS_CardinalityType
<1>6. ASSUME NEW c \in Call, NEW R \in SUBSET (Call \ {c})
      PROVE  Cardinality(R) \in Nat /\ Cardinality(R) + 1 <= Cardinality(Call)
  <2>1. IsFiniteSet(Call \ {c}) /\ Cardinality(Call \ {c}) = Cardinality(Call) - 1
    BY <1>1, FS_RemoveElement
  <2>2. Cardinality(R) \in Nat /\ Cardinality(R) <= Cardinality(Call \ {c})
    BY <2>1, FS_Subset, FS_CardinalityType
  <2>3. QED BY <1>2, <2>1, <2>2
<1>7. QED BY <1>2, <1>3, <1>4, <1>5, <1>6

\* Nothing is owed more than before.
LEMMA BudgetKept ==
    ASSUME SessionTypes, issued + Cardinality(Stales) + Owing <= MaxToken,
           Stales' \subseteq Stales, issued' \in Nat, issued' + Owing' <= issued + Owing
    PROVE  issued' + Cardinality(Stales') + Owing' <= MaxToken
<1>1. issued \in Nat /\ MaxToken \in Nat /\ Owing \in Nat /\ Owing' \in Nat
  BY SessionAssumption DEF SessionTypes, Owing
<1>2. Cardinality(Stales) \in Nat /\ Cardinality(Stales') \in Nat
      /\ Cardinality(Stales') <= Cardinality(Stales)
  BY StalesCount
<1>3. \A i, j, k, l, o, p, m \in Nat :
        i + k + o <= m /\ l <= k /\ j + p <= i + o => j + l + p <= m
  OBVIOUS
<1>4. QED BY <1>1, <1>2, <1>3

LEMMA CalmServes ==
    ASSUME SessionTypes, CalmInv, S!Serves(t1, "flight") PROVE CalmInv'
<1>0. t1 \in Tab /\ "flight" \in {"flight", "boot"}
  BY SessionAssumption
<1>1. /\ SessionTypes' /\ ApiKeeps /\ UNCHANGED <<jar, call>>
      /\ tab[t1].flight.st = "out" /\ tab'[t1].token = tab[t1].token
  BY <1>0, ServesTypes, RefreshIs
<1>2. PICK got : /\ S!Exchange(tab[t1].flight.token, got)
                 /\ tab'[t1].flight = [st |-> "back", token |-> got]
                 /\ tab'[t1].boot = tab[t1].boot
  BY <1>0, ServesTypes, RefreshIs
<1>3. tab[t1].flight.token = jar /\ live = {jar} /\ live \subseteq 1..issued
      /\ issued \in Nat /\ MaxToken \in Nat
  BY <1>1, SessionAssumption DEF CalmInv, OneExchange, SessionTypes
<1>4. issued < MaxToken
  <2>1. Owing = 1
    BY <1>1 DEF Owing
  <2>2. QED BY <1>3, <2>1, StalesCount DEF CalmInv
<1>5. S!Issue /\ got = issued + 1 /\ live' = (live \ {jar}) \cup {got} /\ theft' = theft
  <2>1. jar \in live /\ jar # 0
    BY <1>3
  <2>2. QED BY <1>2, <1>3, <1>4, <2>1 DEF S!Exchange
<1>6. issued' = issued + 1 /\ good' = good \cup {got} /\ live' = {got}
  BY <1>3, <1>5, IssueKeeps
<1>7. OneExchange'
  BY <1>2, <1>6 DEF CalmInv, OneExchange
<1>8. \A c \in Call : DeniedOnce(c)'
  <2>1. \A c \in Call : call[c].token \in good' <=> call[c].token \in good
    <3>1. \A c \in Call : call[c].token \in 0..issued
      BY DEF SessionTypes, CallUpTo
    <3>2. QED BY <1>1, <1>6, <3>1 DEF ApiKeeps
  <2>2. QED BY <1>1, <2>1 DEF CalmInv, DeniedOnce
<1>9. Stales' \subseteq Stales
  BY <1>1, <1>6 DEF Stales, Stale
<1>10. Owing = 1 /\ Owing' = 0
  BY <1>1, <1>2 DEF Owing
<1>11. issued' + Cardinality(Stales') + Owing' <= MaxToken
  BY <1>3, <1>6, <1>9, <1>10, BudgetKept DEF CalmInv
<1>12. ~theft'
  BY <1>5 DEF CalmInv
<1>13. QED BY <1>7, <1>8, <1>11, <1>12 DEF CalmInv

LEMMA CalmCookieArrives ==
    ASSUME SessionTypes, CalmInv, S!CookieArrives(t1, "flight") PROVE CalmInv'
<1>0. t1 \in Tab /\ "flight" \in {"flight", "boot"}
  BY SessionAssumption
<1>1. /\ UNCHANGED <<S!api, call>> /\ tab[t1].flight.st = "back"
      /\ jar' = IF tab[t1].flight.token # 0 THEN tab[t1].flight.token ELSE jar
      /\ tab'[t1].token = tab[t1].token
      /\ tab'[t1].flight = [st |-> "set", token |-> tab[t1].flight.token]
      /\ tab'[t1].boot = tab[t1].boot
  BY <1>0, CookieArrivesTypes, RefreshIs
<1>2. tab[t1].flight.token \in good /\ live = {tab[t1].flight.token}
  BY <1>1 DEF CalmInv, OneExchange
<1>3. tab[t1].flight.token # 0 /\ issued \in Nat
  BY <1>2 DEF SessionTypes
<1>4. UNCHANGED <<live, good, issued, theft>>
  BY <1>1 DEF S!api
<1>5. OneExchange'
  BY <1>1, <1>2, <1>3, <1>4 DEF CalmInv, OneExchange
<1>6. \A c \in Call : DeniedOnce(c)'
  BY <1>1, <1>4 DEF CalmInv, DeniedOnce
<1>7. Stales' \subseteq Stales /\ Owing' = 0 /\ Owing = 0
  BY <1>1, <1>4 DEF Stales, Stale, Owing
<1>8. issued' + Cardinality(Stales') + Owing' <= MaxToken
  BY <1>3, <1>4, <1>7, BudgetKept DEF CalmInv
<1>9. QED BY <1>4, <1>5, <1>6, <1>8 DEF CalmInv

LEMMA CalmFlightDone ==
    ASSUME SessionTypes, CalmInv, S!FlightDone(t1) PROVE CalmInv'
<1> DEFINE n == tab[t1].flight.token
<1>0. t1 \in Tab
  BY SessionAssumption
<1>1. /\ UNCHANGED <<jar, S!api>> /\ tab[t1].flight.st = "set"
      /\ tab'[t1].token = n /\ tab'[t1].flight.st = "none"
      /\ tab'[t1].boot = S!Boot(t1, n)
      /\ \A c \in Call : call[c].tab # t1 \/ call[c].pc # "waiting" => call'[c] = call[c]
      /\ \A c \in Call :
           call[c].tab = t1 /\ call[c].pc = "waiting" /\ n # 0 =>
                       /\ call'[c].pc = "sent" /\ call'[c].tab = t1
                       /\ call'[c].kind = call[c].kind
                       /\ call'[c].token = n /\ call'[c].retried
  BY <1>0, FlightDoneTypes
<1>2. n \in good /\ n = jar /\ live = {jar} /\ tab[t1].boot.st = "none"
  BY <1>1 DEF CalmInv, OneExchange
<1>3. n # 0 /\ issued \in Nat
  BY <1>2 DEF SessionTypes
<1>4. UNCHANGED <<live, good, issued, theft>>
  BY <1>1 DEF S!api
<1>5. tab'[t1].boot.st = "none"
  BY <1>1, <1>2, <1>3, NothingSent DEF S!Boot
<1> HIDE DEF n
<1>6. OneExchange'
  BY <1>1, <1>2, <1>4, <1>5 DEF OneExchange
<1>7. \A c \in Call : call[c].pc = "waiting" => call[c].tab = t1 /\ call[c].kind = "call"
  BY DEF CalmInv, DeniedOnce
<1>8. \A c \in Call : \/ call[c].pc # "waiting" /\ call'[c] = call[c]
                      \/ /\ call[c].pc = "waiting" /\ call'[c].pc = "sent"
                         /\ call'[c].tab = t1 /\ call'[c].kind = "call"
                         /\ call'[c].token = n /\ call'[c].retried
  BY <1>1, <1>3, <1>7
<1>9. \A c \in Call : DeniedOnce(c)'
  BY <1>2, <1>4, <1>8 DEF CalmInv, DeniedOnce
<1>10. Stales' \subseteq Stales
  BY <1>1, <1>2, <1>4, <1>8 DEF Stales, Stale
<1>11. Owing' = 0 /\ Owing = 0
  BY <1>1 DEF Owing
<1>12. issued' + Cardinality(Stales') + Owing' <= MaxToken
  BY <1>3, <1>4, <1>10, <1>11, BudgetKept DEF CalmInv
<1>13. QED BY <1>4, <1>6, <1>9, <1>12 DEF CalmInv

LEMMA CalmServe == ASSUME SessionTypes, CalmInv, NEW c \in Call, S!Serve(c) PROVE CalmInv'
<1>1. call[c].pc = "sent" /\ call[c].kind = "call" /\ call[c].tab = t1
  BY DEF S!Serve, CalmInv, DeniedOnce
<1>2. /\ call'[c].pc = IF call[c].token \in good THEN "ok" ELSE "denied"
      /\ call'[c].tab = call[c].tab /\ call'[c].kind = call[c].kind
      /\ call'[c].token = call[c].token /\ call'[c].retried = call[c].retried
      /\ \A d \in Call \ {c} : call'[d] = call[d]
      /\ UNCHANGED <<jar, tab, S!api>>
  BY <1>1, ServeTypes
<1>3. UNCHANGED <<live, good, issued, theft>> /\ issued \in Nat
  BY <1>2 DEF S!api, SessionTypes
<1>4. DeniedOnce(c)'
  BY <1>1, <1>2, <1>3 DEF CalmInv, DeniedOnce
<1>5. \A d \in Call : DeniedOnce(d)'
  BY <1>2, <1>3, <1>4 DEF CalmInv, DeniedOnce
<1>6. \A d \in Call : call[d].pc = "waiting" => call'[d].pc = "waiting"
  BY <1>1, <1>2
<1>7. OneExchange'
  BY <1>2, <1>3, <1>6 DEF CalmInv, OneExchange
<1>8. Stales' \subseteq Stales
  BY <1>1, <1>2, <1>3 DEF Stales, Stale
<1>9. Owing' = Owing /\ Owing \in Nat
  BY <1>2 DEF Owing
<1>10. issued' + Cardinality(Stales') + Owing' <= MaxToken
  BY <1>3, <1>8, <1>9, BudgetKept DEF CalmInv
<1>11. QED BY <1>3, <1>5, <1>7, <1>10 DEF CalmInv

LEMMA CalmDone == ASSUME SessionTypes, CalmInv, NEW c \in Call, S!Done(c) PROVE CalmInv'
<1>1. call[c].pc = "ok" /\ S!End(c, "idle") /\ UNCHANGED <<jar, S!api, tab, strays>>
  BY DEF S!Done
<1>2. /\ call'[c].pc = "idle" /\ ~call'[c].retried
      /\ \A d \in Call \ {c} : call'[d] = call[d]
  BY <1>1, EndTypes
<1>3. UNCHANGED <<live, good, issued, theft>> /\ issued \in Nat
  BY <1>1 DEF S!api, SessionTypes
<1>4. \A d \in Call : DeniedOnce(d)'
  BY <1>2, <1>3 DEF CalmInv, DeniedOnce
<1>5. \A d \in Call : call[d].pc = "waiting" => call'[d].pc = "waiting"
  BY <1>1, <1>2
<1>6. OneExchange'
  BY <1>1, <1>3, <1>5 DEF CalmInv, OneExchange
<1>7. Stales' \subseteq Stales
  BY <1>1, <1>2, <1>3 DEF Stales, Stale
<1>8. Owing' = Owing /\ Owing \in Nat
  BY <1>1 DEF Owing
<1>9. issued' + Cardinality(Stales') + Owing' <= MaxToken
  BY <1>3, <1>7, <1>8, BudgetKept DEF CalmInv
<1>10. QED BY <1>3, <1>4, <1>6, <1>9 DEF CalmInv

\* The refresh that is sent now is paid for by the call that will not ask for
\* another.
LEMMA CalmDenied == ASSUME SessionTypes, CalmInv, NEW c \in Call, S!Denied(c) PROVE CalmInv'
<1>1. call[c].pc = "denied"
  BY DEF S!Denied
<1>2. ~call[c].retried /\ call[c].tab = t1 /\ call[c].kind = "call" /\ c \in Stales
  BY <1>1 DEF CalmInv, DeniedOnce, Stales, Stale
<1>3. /\ UNCHANGED <<jar, S!api>>
      /\ tab'[t1].token = tab[t1].token /\ tab'[t1].boot = tab[t1].boot
      /\ \A d \in Call \ {c} : call'[d] = call[d]
      /\ call'[c].pc = "waiting" /\ call'[c].tab = t1 /\ call'[c].kind = "call"
      /\ tab'[t1].flight = IF tab[t1].flight.st # "none" THEN tab[t1].flight
                           ELSE [st |-> "out", token |-> jar]
  BY <1>2, DeniedTypes
<1>4. UNCHANGED <<live, good, issued, theft>> /\ issued \in Nat
  BY <1>3 DEF S!api, SessionTypes
<1>5. \A d \in Call : DeniedOnce(d)'
  BY <1>3, <1>4 DEF CalmInv, DeniedOnce
<1>6. OneExchange'
  <2>1. CASE tab[t1].flight.st # "none"
    <3>1. tab'[t1].flight = tab[t1].flight
      BY <1>3, <2>1
    <3>2. \A d \in Call : call[d].pc = "waiting" => call'[d].pc = "waiting"
      BY <1>3
    <3>3. QED BY <1>3, <1>4, <3>1, <3>2 DEF CalmInv, OneExchange
  <2>2. CASE tab[t1].flight.st = "none"
    <3>1. tab'[t1].flight = [st |-> "out", token |-> jar] /\ live = {jar}
      BY <1>3, <2>2 DEF CalmInv, OneExchange
    <3>2. QED BY <1>3, <1>4, <3>1 DEF CalmInv, OneExchange
  <2>3. QED BY <2>1, <2>2
<1>7. Stales' \subseteq Stales \ {c}
  BY <1>3, <1>4 DEF Stales, Stale
<1>8. Owing \in Nat /\ Owing' <= Owing + 1 /\ Owing' \in Nat
  BY DEF Owing
<1>9. issued' + Cardinality(Stales') + Owing' <= MaxToken
  <2> DEFINE k == Cardinality(Stales)
             l == Cardinality(Stales')
  <2>1. l <= k - 1 /\ k \in Nat /\ l \in Nat
    <3>1. IsFiniteSet(Stales \ {c}) /\ Cardinality(Stales \ {c}) = k - 1
      BY <1>2, StalesCount
    <3>2. l <= Cardinality(Stales \ {c}) /\ l \in Nat /\ k \in Nat
      BY <1>7, <3>1, StalesCount, FS_Subset, FS_CardinalityType
    <3>3. QED BY <3>1, <3>2
  <2>2. issued + k + Owing <= MaxToken
    BY DEF CalmInv
  <2> HIDE DEF k, l
  <2>3. \A i, o, p, m \in Nat : i + k + o <= m /\ p <= o + 1 => i + l + p <= m
    BY <2>1
  <2>4. issued + l + Owing' <= MaxToken
    BY <1>4, <1>8, <2>2, <2>3, SessionAssumption
  <2>5. QED BY <1>4, <2>4 DEF l
<1>10. QED BY <1>4, <1>5, <1>6, <1>9 DEF CalmInv

LEMMA CalmSend ==
    ASSUME SessionTypes, CalmInv, NEW c \in Call, S!Send(t1, c, "call") PROVE CalmInv'
<1>1. t1 \in Tab /\ "call" \in S!Kind
  BY SessionAssumption DEF S!Kind
<1>2. call[c].pc = "idle"
  BY DEF S!Send, S!Over, CalmInv, DeniedOnce
<1>3. /\ call'[c].pc = "sent" /\ call'[c].tab = t1 /\ call'[c].kind = "call"
      /\ call'[c].token = tab[t1].token /\ ~call'[c].retried
      /\ \A d \in Call \ {c} : call'[d] = call[d]
      /\ UNCHANGED <<jar, S!api, tab>>
  BY <1>1, SendTypes
<1>4. UNCHANGED <<live, good, issued, theft>> /\ issued \in Nat
  BY <1>3 DEF S!api, SessionTypes
<1>5. \A d \in Call : DeniedOnce(d)'
  BY <1>3, <1>4 DEF CalmInv, DeniedOnce
<1>6. \A d \in Call : call[d].pc = "waiting" => call'[d].pc = "waiting"
  BY <1>2, <1>3
<1>7. OneExchange'
  BY <1>3, <1>4, <1>6 DEF CalmInv, OneExchange
<1>8. Stales' \subseteq Stales
  BY <1>2, <1>3, <1>4 DEF Stales, Stale
<1>9. Owing' = Owing /\ Owing \in Nat
  BY <1>3 DEF Owing
<1>10. issued' + Cardinality(Stales') + Owing' <= MaxToken
  BY <1>4, <1>8, <1>9, BudgetKept DEF CalmInv
<1>11. QED BY <1>4, <1>5, <1>7, <1>10 DEF CalmInv

\* A token runs out only where one for each call is left.
LEMMA CalmExpire ==
    ASSUME SessionTypes, CalmInv, NEW n \in good, S!Expire(n),
           issued + Cardinality(Call) <= MaxToken
    PROVE  CalmInv'
<1>1. good' = good \ {n} /\ UNCHANGED <<jar, live, issued, theft, tab, call>>
      /\ issued \in Nat
  BY ExpireTypes DEF SessionTypes
<1>2. tab[t1].flight.token # n \/ tab[t1].flight.st \in {"none", "out"}
  BY SessionAssumption DEF S!Expire
<1>3. \A c \in Call : call[c].retried => call[c].token # n \/ S!Over(c)
  BY DEF S!Expire
<1>4. \A c \in Call : DeniedOnce(c)'
  BY <1>1, <1>3 DEF CalmInv, DeniedOnce, S!Over
<1>5. OneExchange'
  BY <1>1, <1>2 DEF CalmInv, OneExchange
<1>6. issued' + Cardinality(Stales') + Owing' <= MaxToken
  <2>1. CASE tab[t1].flight.st = "out"
    <3>1. PICK c \in Call : call[c].pc = "waiting"
      BY <2>1 DEF CalmInv, OneExchange
    <3>2. Stales' \subseteq Call \ {c}
      BY <1>1, <3>1 DEF Stales, Stale
    <3>3. Cardinality(Stales') \in Nat /\ Cardinality(Stales') + 1 <= Cardinality(Call)
      BY <3>2, StalesCount
    <3>4. Owing' = 1
      BY <1>1, <2>1 DEF Owing
    <3>5. QED BY <1>1, <3>3, <3>4, StalesCount, SessionAssumption
  <2>2. CASE tab[t1].flight.st # "out"
    <3>1. Stales' \subseteq Call
      BY DEF Stales
    <3>2. Cardinality(Stales') \in Nat /\ Cardinality(Stales') <= Cardinality(Call)
      BY <3>1, StalesCount
    <3>3. Owing' = 0
      BY <1>1, <2>2 DEF Owing
    <3>4. QED BY <1>1, <3>2, <3>3, StalesCount, SessionAssumption
  <2>3. QED BY <2>1, <2>2
<1>7. QED BY <1>1, <1>4, <1>5, <1>6 DEF CalmInv

LEMMA CalmStep == ASSUME SessionTypes, CalmInv, Calm PROVE CalmInv'
<1>1. ASSUME NEW c \in Call, S!CallStep(c) PROVE CalmInv'
  <2>1. CASE S!Serve(c) BY <2>1, CalmServe
  <2>2. CASE S!Done(c) BY <2>2, CalmDone
  <2>3. CASE S!Denied(c) BY <2>3, CalmDenied
  <2>4. ~S!ServeVerify(c) /\ ~S!VerifyDone(c) /\ ~S!LogoutDone(c)
    BY DEF CalmInv, DeniedOnce, S!ServeVerify, S!VerifyDone, S!LogoutDone
  <2>5. QED BY <1>1, <2>1, <2>2, <2>3, <2>4 DEF S!CallStep
<1>2. CASE S!FlightStep(t1)
  BY <1>2, CalmServes, CalmCookieArrives, CalmFlightDone DEF S!FlightStep
<1>3. ASSUME NEW c \in Call, S!Send(t1, c, "call") PROVE CalmInv'
  BY <1>3, CalmSend
<1>4. ASSUME NEW n \in good, S!Expire(n), issued + Cardinality(Call) <= MaxToken
      PROVE  CalmInv'
  BY <1>4, CalmExpire
<1>5. QED BY <1>1, <1>2, <1>3, <1>4 DEF Calm

LEMMA CalmStart == ASSUME S!Init PROVE CalmInv
<1>1. /\ jar = 1 /\ live = {1} /\ good = {1} /\ issued = 1 /\ theft = FALSE
      /\ tab = [t \in Tab |-> [inApp |-> TRUE, token |-> 1,
                               flight |-> S!NoRefresh, boot |-> S!NoRefresh]]
      /\ call = [c \in Call |-> S!NoCall]
  BY DEF S!Init, S!InitAt
<1>2. /\ tab[t1].token = 1 /\ tab[t1].flight.st = "none" /\ tab[t1].boot.st = "none"
  BY <1>1, NothingSent, SessionAssumption
<1>3. \A c \in Call : call[c].pc = "idle"
  BY <1>1, NothingSent
<1>4. Stales = {} /\ Owing = 0
  BY <1>1, <1>2, <1>3 DEF Stales, Stale, Owing
<1>5. Cardinality(Stales) = 0
  BY <1>4, FS_EmptySet
<1>6. issued + Cardinality(Stales) + Owing <= MaxToken
  BY <1>1, <1>4, <1>5, SessionAssumption
<1>7. OneExchange /\ \A c \in Call : DeniedOnce(c)
  BY <1>1, <1>2, <1>3 DEF OneExchange, DeniedOnce
<1>8. QED BY <1>1, <1>6, <1>7 DEF CalmInv

\* singleFlightRefresh and apiFetch: in a tab whose page is loaded, tokens that run
\* out end no session and fail no call, for any number of calls under way.
THEOREM StormTheorem == MCSpec => []CalmStormIsHarmless
<1> DEFINE Inv == SessionTypes /\ (mode = "calm" => CalmInv)
<1>1. MCInit => Inv
  BY SessionStart, CalmStart DEF MCInit
<1>2. ASSUME Inv, [MCNext]_all PROVE Inv'
  <2>1. SessionTypes'
    BY <1>2, SessionStep, SessionSame DEF all
  <2>2. ASSUME mode' = "calm" PROVE CalmInv'
    <3>1. mode = "calm" /\ CalmInv /\ (Calm \/ UNCHANGED session)
      BY <1>2, <2>2 DEF MCNext, all
    <3>2. CASE Calm
      BY <1>2, <3>1, <3>2, CalmStep
    <3>3. CASE UNCHANGED session
      BY <3>1, <3>3 DEF session, CalmInv, OneExchange, DeniedOnce, Stales, Stale, Owing
    <3>4. QED BY <3>1, <3>2, <3>3
  <2>3. QED BY <2>1, <2>2
<1>3. Inv => CalmStormIsHarmless
  BY DEF CalmInv, DeniedOnce, CalmStormIsHarmless, S!StormIsHarmless
<1> HIDE DEF Inv
<1>4. QED BY <1>1, <1>2, <1>3, PTL DEF MCSpec

-----------------------------------------------------------------------------
(* One thing at a time in one tab: what a logout leaves.                   *)

\* The call that is under way, if any, is the only one.
OneCall ==
    /\ \A c \in Call : ~S!Over(c) => call[c].tab = t1
    /\ \A c, d \in Call : ~S!Over(c) /\ ~S!Over(d) => c = d

\* A refresh of apiFetch has a call that waits; one of the page has none, and no
\* token.
OneRefresh ==
    /\ tab[t1].flight.st # "none" => \E c \in Call : call[c].pc = "waiting"
    /\ tab[t1].boot.st # "none" => tab[t1].token = 0 /\ \A c \in Call : S!Over(c)

\* The cookie is the session of the token in the store, as long as that will do.
CookieIsTokens ==
    /\ tab[t1].flight.st = "set" => tab[t1].flight.token \in {0, jar}
    /\ tab[t1].boot.st = "set" => tab[t1].boot.token \in {0, jar}
    /\ tab[t1].flight.st # "set" /\ jar \in live /\ tab[t1].token \in good
         => tab[t1].token = jar

\* A call goes out with the token of the store, and a logout that has been served
\* has revoked what the cookie stands for.
CallIsTokens(c) ==
    /\ call[c].pc = "sent" /\ call[c].kind # "verify" => call[c].token = tab[t1].token
    /\ call[c].pc = "ok" /\ call[c].kind = "logout" => jar \notin live

AloneInv == OneCall /\ OneRefresh /\ CookieIsTokens /\ \A c \in Call : CallIsTokens(c)

\* While a call is under way nothing else is.
LEMMA AloneCall ==
    ASSUME AloneInv, NEW c \in Call, ~S!Over(c)
    PROVE  /\ call[c].tab = t1 /\ tab[t1].boot.st = "none"
           /\ \A d \in Call \ {c} : S!Over(d) /\ call[d].pc \in {"idle", "failed"}
           /\ call[c].pc # "waiting" => tab[t1].flight.st = "none"
  BY DEF AloneInv, OneCall, OneRefresh, S!Over

\* A step that replaces the call under way by c.
LEMMA AloneNext ==
    ASSUME AloneInv, NEW c \in Call, \A d \in Call \ {c} : S!Over(d),
           \A d \in Call \ {c} : call'[d] = call[d], S!Over(c)' \/ call'[c].tab = t1,
           CallIsTokens(c)'
    PROVE  OneCall' /\ \A d \in Call : CallIsTokens(d)'
  BY DEF AloneInv, OneCall, CallIsTokens, S!Over

\* Knowing less, the API breaks nothing.
LEMMA AloneApi ==
    ASSUME SessionTypes, AloneInv, NEW token, token = tab[t1].token,
           \A n \in 0..issued : n \in live' => n \in live,
           \A n \in 0..issued : n \in good' => n \in good
    PROVE  /\ jar \notin live => jar \notin live'
           /\ tab[t1].flight.st # "set" /\ jar \in live' /\ token \in good' => token = jar
           /\ 0 \notin good /\ 0 \notin live
<1>1. jar \in 0..issued /\ token \in 0..issued
  BY SessionAssumption DEF SessionTypes, TabUpTo
<1>2. 0 \notin good /\ 0 \notin live
  BY DEF SessionTypes
<1>3. QED BY <1>1, <1>2 DEF AloneInv, CookieIsTokens

LEMMA AloneServe ==
    ASSUME SessionTypes, AloneInv, NEW c \in Call, S!Serve(c) PROVE AloneInv'
<1>1. call[c].pc = "sent" /\ call[c].kind # "verify" /\ ~S!Over(c)
  BY DEF S!Serve, S!Over
<1>2. /\ call[c].tab = t1 /\ tab[t1].boot.st = "none" /\ tab[t1].flight.st = "none"
      /\ \A d \in Call \ {c} : S!Over(d)
  BY <1>1, AloneCall
<1>3. call[c].token = tab[t1].token
  BY <1>1 DEF AloneInv, CallIsTokens
<1>4. /\ call'[c].pc = IF call[c].token \in good THEN "ok" ELSE "denied"
      /\ call'[c].tab = call[c].tab /\ call'[c].kind = call[c].kind
      /\ call'[c].token = call[c].token
      /\ \A d \in Call \ {c} : call'[d] = call[d]
      /\ live' \subseteq live /\ good' \subseteq good /\ UNCHANGED <<jar, tab>>
      /\ call[c].kind = "logout" /\ call[c].token \in good => call[c].token \notin live'
  BY ServeTypes
<1>5. /\ jar \notin live => jar \notin live'
      /\ jar \in live' /\ tab[t1].token \in good' => tab[t1].token = jar
  BY <1>2, <1>4, AloneApi
<1>6. CallIsTokens(c)'
  <2> SUFFICES ASSUME call'[c].pc = "ok", call'[c].kind = "logout" PROVE jar \notin live'
    BY <1>4 DEF CallIsTokens
  <2>1. tab[t1].token \in good /\ tab[t1].token \notin live'
    BY <1>3, <1>4
  <2>2. jar \in live => jar = tab[t1].token
    BY <1>2, <2>1 DEF AloneInv, CookieIsTokens
  <2>3. QED BY <1>4, <2>1, <2>2
<1>7. OneCall' /\ \A d \in Call : CallIsTokens(d)'
  BY <1>2, <1>4, <1>6, AloneNext
<1>8. OneRefresh' /\ CookieIsTokens'
  BY <1>2, <1>4, <1>5 DEF OneRefresh, CookieIsTokens
<1>9. QED BY <1>7, <1>8 DEF AloneInv

LEMMA AloneServeVerify ==
    ASSUME SessionTypes, AloneInv, NEW c \in Call, S!ServeVerify(c) PROVE AloneInv'
<1>1. call[c].pc = "sent" /\ ~S!Over(c)
  BY DEF S!ServeVerify, S!Over
<1>2. /\ call[c].tab = t1 /\ tab[t1].boot.st = "none" /\ tab[t1].flight.st = "none"
      /\ \A d \in Call \ {c} : S!Over(d)
  BY <1>1, AloneCall
<1>3. /\ ApiKeeps /\ call'[c].pc \in {"ok", "denied"} /\ call'[c].kind = "verify"
      /\ call'[c].tab = call[c].tab
      /\ \A d \in Call \ {c} : call'[d] = call[d]
      /\ UNCHANGED <<jar, tab>>
  BY ServeVerifyTypes
<1>4. jar \in live' /\ tab[t1].token \in good' => tab[t1].token = jar
  BY <1>2, <1>3, AloneApi DEF ApiKeeps
<1>5. CallIsTokens(c)'
  BY <1>3 DEF CallIsTokens
<1>6. OneCall' /\ \A d \in Call : CallIsTokens(d)'
  BY <1>2, <1>3, <1>5, AloneNext
<1>7. OneRefresh' /\ CookieIsTokens'
  BY <1>2, <1>3, <1>4 DEF OneRefresh, CookieIsTokens
<1>8. QED BY <1>6, <1>7 DEF AloneInv

LEMMA AloneDone ==
    ASSUME SessionTypes, AloneInv, NEW c \in Call, S!Done(c) PROVE AloneInv'
<1>1. call[c].pc = "ok" /\ ~S!Over(c) /\ S!End(c, "idle")
      /\ UNCHANGED <<jar, S!api, tab, strays>>
  BY DEF S!Done, S!Over
<1>2. /\ tab[t1].boot.st = "none" /\ tab[t1].flight.st = "none"
      /\ \A d \in Call \ {c} : S!Over(d)
  BY <1>1, AloneCall
<1>3. call'[c].pc = "idle" /\ \A d \in Call \ {c} : call'[d] = call[d]
  BY <1>1, EndTypes
<1>4. S!Over(c)' /\ CallIsTokens(c)'
  BY <1>3 DEF S!Over, CallIsTokens
<1>5. OneCall' /\ \A d \in Call : CallIsTokens(d)'
  BY <1>2, <1>3, <1>4, AloneNext
<1>6. OneRefresh' /\ CookieIsTokens'
  BY <1>1, <1>2 DEF OneRefresh, CookieIsTokens, AloneInv, S!api
<1>7. QED BY <1>5, <1>6 DEF AloneInv

LEMMA AloneVerifyDone ==
    ASSUME SessionTypes, AloneInv, NEW c \in Call, S!VerifyDone(c) PROVE AloneInv'
<1>1. call[c].pc = "ok" /\ ~S!Over(c)
  BY DEF S!VerifyDone, S!Over
<1>2. /\ call[c].tab = t1 /\ tab[t1].boot.st = "none" /\ tab[t1].flight.st = "none"
      /\ \A d \in Call \ {c} : S!Over(d)
  BY <1>1, AloneCall
<1>3. /\ jar' = call[c].token /\ tab'[t1].token = call[c].token
      /\ tab'[t1].flight = tab[t1].flight /\ tab'[t1].boot = tab[t1].boot
      /\ call'[c].pc = "idle" /\ \A d \in Call \ {c} : call'[d] = call[d]
  BY <1>2, VerifyDoneTypes
<1>4. S!Over(c)' /\ CallIsTokens(c)'
  BY <1>3 DEF S!Over, CallIsTokens
<1>5. OneCall' /\ \A d \in Call : CallIsTokens(d)'
  BY <1>2, <1>3, <1>4, AloneNext
<1>6. OneRefresh' /\ CookieIsTokens'
  BY <1>2, <1>3 DEF OneRefresh, CookieIsTokens
<1>7. QED BY <1>5, <1>6 DEF AloneInv

LEMMA AloneLogoutDone ==
    ASSUME SessionTypes, AloneInv, NEW c \in Call, S!LogoutDone(c)
    PROVE  AloneInv' /\ jar' = 0 /\ tab'[t1].token = 0 /\ jar \notin live'
<1>1. call[c].pc = "ok" /\ call[c].kind = "logout" /\ ~S!Over(c)
  BY DEF S!LogoutDone, S!Over
<1>2. /\ call[c].tab = t1 /\ tab[t1].boot.st = "none" /\ tab[t1].flight.st = "none"
      /\ \A d \in Call \ {c} : S!Over(d)
  BY <1>1, AloneCall
<1>3. /\ UNCHANGED S!api /\ jar' = 0 /\ tab'[t1].token = 0
      /\ tab'[t1].flight = tab[t1].flight /\ tab'[t1].boot.st \in {"none", "due"}
      /\ call'[c].pc = "idle" /\ \A d \in Call \ {c} : call'[d] = call[d]
  BY <1>2, LogoutDoneTypes
<1>4. jar \notin live /\ live' = live
  BY <1>1, <1>3 DEF AloneInv, CallIsTokens, S!api
<1>5. S!Over(c)' /\ CallIsTokens(c)'
  BY <1>3 DEF S!Over, CallIsTokens
<1>6. OneCall' /\ \A d \in Call : CallIsTokens(d)'
  BY <1>2, <1>3, <1>5, AloneNext
<1>7. \A d \in Call : S!Over(d)'
  BY <1>2, <1>3, <1>5 DEF S!Over
<1>8. OneRefresh' /\ CookieIsTokens'
  BY <1>2, <1>3, <1>7 DEF OneRefresh, CookieIsTokens
<1>9. QED BY <1>3, <1>4, <1>6, <1>8 DEF AloneInv

LEMMA AloneDenied ==
    ASSUME SessionTypes, AloneInv, NEW c \in Call, S!Denied(c) PROVE AloneInv'
<1>1. call[c].pc = "denied" /\ ~S!Over(c)
  BY DEF S!Denied, S!Over
<1>2. /\ call[c].tab = t1 /\ tab[t1].boot.st = "none" /\ tab[t1].flight.st = "none"
      /\ \A d \in Call \ {c} : S!Over(d)
  BY <1>1, AloneCall
<1>3. UNCHANGED <<jar, S!api>> /\ \A d \in Call \ {c} : call'[d] = call[d]
  BY DeniedTypes
<1>4. UNCHANGED <<live, good>>
  BY <1>3 DEF S!api
<1>5. CASE call[c].retried
  <2>1. call'[c].pc = "failed" /\ tab' = tab
    BY <1>5, DeniedTypes
  <2>2. S!Over(c)' /\ CallIsTokens(c)'
    BY <2>1 DEF S!Over, CallIsTokens
  <2>3. OneCall' /\ \A d \in Call : CallIsTokens(d)'
    BY <1>2, <1>3, <2>2, AloneNext
  <2>4. OneRefresh' /\ CookieIsTokens'
    BY <1>2, <1>3, <1>4, <2>1 DEF OneRefresh, CookieIsTokens, AloneInv
  <2>5. QED BY <2>3, <2>4 DEF AloneInv
<1>6. CASE ~call[c].retried
  <2>1. /\ call'[c].pc = "waiting" /\ call'[c].tab = t1
        /\ tab'[t1].token = tab[t1].token /\ tab'[t1].boot = tab[t1].boot
        /\ tab'[t1].flight = [st |-> "out", token |-> jar]
    BY <1>2, <1>6, DeniedTypes
  <2>2. CallIsTokens(c)'
    BY <2>1 DEF CallIsTokens
  <2>3. OneCall' /\ \A d \in Call : CallIsTokens(d)'
    BY <1>2, <1>3, <2>1, <2>2, AloneNext
  <2>4. OneRefresh' /\ CookieIsTokens'
    BY <1>2, <1>3, <1>4, <2>1 DEF OneRefresh, CookieIsTokens, AloneInv
  <2>5. QED BY <2>3, <2>4 DEF AloneInv
<1>7. QED BY <1>5, <1>6

\* With no call under way there is no refresh of apiFetch.
LEMMA AloneIdle ==
    ASSUME AloneInv, \A c \in Call : S!Over(c)
    PROVE  /\ tab[t1].flight.st = "none"
           /\ \A c \in Call : call[c].pc \notin {"sent", "ok", "denied", "waiting"}
  BY DEF AloneInv, OneRefresh, S!Over

\* A step that leaves the calls as they are, none of which has been sent or
\* answered.
LEMMA AloneStill ==
    ASSUME AloneInv, UNCHANGED call, \A c \in Call : call[c].pc \notin {"sent", "ok"}
    PROVE  OneCall' /\ \A c \in Call : CallIsTokens(c)'
  BY DEF AloneInv, OneCall, CallIsTokens, S!Over

\* With a refresh of apiFetch under way, there is one call, which waits for it.
LEMMA AloneFlight ==
    ASSUME AloneInv, tab[t1].flight.st # "none"
    PROVE  /\ tab[t1].boot.st = "none"
           /\ \A c \in Call : call[c].pc \notin {"sent", "ok", "denied"}
           /\ \E c \in Call : /\ call[c].pc = "waiting" /\ call[c].tab = t1
                              /\ \A d \in Call \ {c} : S!Over(d)
<1>1. PICK c \in Call : call[c].pc = "waiting"
  BY DEF AloneInv, OneRefresh
<1>2. ~S!Over(c)
  BY <1>1 DEF S!Over
<1>3. /\ call[c].tab = t1 /\ tab[t1].boot.st = "none"
      /\ \A d \in Call \ {c} : S!Over(d) /\ call[d].pc \in {"idle", "failed"}
  BY <1>2, AloneCall
<1>4. QED BY <1>1, <1>3

\* With a refresh of the page under way, there is no call and no token.
LEMMA AloneBoot ==
    ASSUME AloneInv, tab[t1].boot.st # "none"
    PROVE  /\ tab[t1].token = 0 /\ tab[t1].flight.st = "none"
           /\ \A c \in Call : S!Over(c)
           /\ \A c \in Call : call[c].pc \notin {"sent", "ok", "denied", "waiting"}
<1>1. tab[t1].token = 0 /\ \A c \in Call : S!Over(c)
  BY DEF AloneInv, OneRefresh
<1>2. QED BY <1>1, AloneIdle

LEMMA AloneFlightServes ==
    ASSUME SessionTypes, AloneInv, S!Serves(t1, "flight") PROVE AloneInv'
<1>0. t1 \in Tab /\ "flight" \in {"flight", "boot"}
  BY SessionAssumption
<1>1. /\ ApiKeeps /\ UNCHANGED <<jar, call>> /\ tab'[t1].token = tab[t1].token
      /\ tab[t1].flight.st = "out" /\ tab'[t1].flight.st = "back"
      /\ tab'[t1].boot = tab[t1].boot
  <2>1. /\ ApiKeeps /\ UNCHANGED <<jar, call>> /\ tab'[t1].token = tab[t1].token
        /\ tab[t1].flight.st = "out"
    BY <1>0, ServesTypes, RefreshIs
  <2>2. PICK got : /\ tab'[t1].flight = [st |-> "back", token |-> got]
                   /\ tab'[t1].boot = tab[t1].boot
    BY <1>0, ServesTypes, RefreshIs
  <2>3. QED BY <2>1, <2>2
<1>2. /\ tab[t1].boot.st = "none" /\ \A c \in Call : call[c].pc \notin {"sent", "ok"}
      /\ \E c \in Call : call[c].pc = "waiting"
  BY <1>1, AloneFlight
<1>3. jar \in live' /\ tab[t1].token \in good' => tab[t1].token = jar
  BY <1>1, AloneApi DEF ApiKeeps
<1>4. OneCall' /\ \A c \in Call : CallIsTokens(c)'
  BY <1>1, <1>2, AloneStill
<1>5. OneRefresh' /\ CookieIsTokens'
  BY <1>1, <1>2, <1>3 DEF OneRefresh, CookieIsTokens
<1>6. QED BY <1>4, <1>5 DEF AloneInv

LEMMA AloneBootServes ==
    ASSUME SessionTypes, AloneInv, S!Serves(t1, "boot") PROVE AloneInv'
<1>0. t1 \in Tab /\ "boot" \in {"flight", "boot"}
  BY SessionAssumption
<1>1. /\ ApiKeeps /\ UNCHANGED <<jar, call>> /\ tab'[t1].token = tab[t1].token
      /\ tab[t1].boot.st = "out" /\ tab'[t1].boot.st = "back"
      /\ tab'[t1].flight = tab[t1].flight
  <2>1. /\ ApiKeeps /\ UNCHANGED <<jar, call>> /\ tab'[t1].token = tab[t1].token
        /\ tab[t1].boot.st = "out"
    BY <1>0, ServesTypes, RefreshIs
  <2>2. PICK got : /\ tab'[t1].boot = [st |-> "back", token |-> got]
                   /\ tab'[t1].flight = tab[t1].flight
    BY <1>0, ServesTypes, RefreshIs
  <2>3. QED BY <2>1, <2>2
<1>2. /\ tab[t1].flight.st = "none" /\ tab[t1].token = 0 /\ \A c \in Call : S!Over(c)
      /\ \A c \in Call : call[c].pc \notin {"sent", "ok"}
  BY <1>1, AloneBoot
<1>3. jar \in live' /\ tab[t1].token \in good' => tab[t1].token = jar
  BY <1>1, <1>2, AloneApi DEF ApiKeeps
<1>4. OneCall' /\ \A c \in Call : CallIsTokens(c)'
  BY <1>1, <1>2, AloneStill
<1>5. OneRefresh' /\ CookieIsTokens'
  BY <1>1, <1>2, <1>3 DEF OneRefresh, CookieIsTokens, S!Over
<1>6. QED BY <1>4, <1>5 DEF AloneInv

LEMMA AloneFlightCookie ==
    ASSUME SessionTypes, AloneInv, S!CookieArrives(t1, "flight") PROVE AloneInv'
<1>0. t1 \in Tab /\ "flight" \in {"flight", "boot"}
  BY SessionAssumption
<1>1. /\ UNCHANGED <<S!api, call>> /\ tab[t1].flight.st = "back"
      /\ jar' = IF tab[t1].flight.token # 0 THEN tab[t1].flight.token ELSE jar
      /\ tab'[t1].token = tab[t1].token
      /\ tab'[t1].flight = [st |-> "set", token |-> tab[t1].flight.token]
      /\ tab'[t1].boot = tab[t1].boot
  BY <1>0, CookieArrivesTypes, RefreshIs
<1>2. /\ tab[t1].boot.st = "none" /\ \A c \in Call : call[c].pc \notin {"sent", "ok"}
      /\ \E c \in Call : call[c].pc = "waiting"
  BY <1>1, AloneFlight
<1>3. OneCall' /\ \A c \in Call : CallIsTokens(c)'
  BY <1>1, <1>2, AloneStill
<1>4. OneRefresh' /\ CookieIsTokens'
  BY <1>1, <1>2 DEF OneRefresh, CookieIsTokens
<1>5. QED BY <1>3, <1>4 DEF AloneInv

LEMMA AloneBootCookie ==
    ASSUME SessionTypes, AloneInv, S!CookieArrives(t1, "boot") PROVE AloneInv'
<1>0. t1 \in Tab /\ "boot" \in {"flight", "boot"}
  BY SessionAssumption
<1>1. /\ UNCHANGED <<S!api, call>> /\ tab[t1].boot.st = "back"
      /\ jar' = IF tab[t1].boot.token # 0 THEN tab[t1].boot.token ELSE jar
      /\ tab'[t1].token = tab[t1].token
      /\ tab'[t1].boot = [st |-> "set", token |-> tab[t1].boot.token]
      /\ tab'[t1].flight = tab[t1].flight
  BY <1>0, CookieArrivesTypes, RefreshIs
<1>2. /\ tab[t1].flight.st = "none" /\ tab[t1].token = 0 /\ \A c \in Call : S!Over(c)
      /\ \A c \in Call : call[c].pc \notin {"sent", "ok"}
  BY <1>1, AloneBoot
<1>3. OneCall' /\ \A c \in Call : CallIsTokens(c)'
  BY <1>1, <1>2, AloneStill
<1>4. 0 \notin good'
  BY <1>1 DEF S!api, SessionTypes
<1>5. OneRefresh' /\ CookieIsTokens'
  BY <1>1, <1>2, <1>4 DEF OneRefresh, CookieIsTokens, S!Over
<1>6. QED BY <1>3, <1>5 DEF AloneInv

LEMMA AloneFlightDone ==
    ASSUME SessionTypes, AloneInv, S!FlightDone(t1) PROVE AloneInv'
<1> DEFINE n == tab[t1].flight.token
<1>0. t1 \in Tab
  BY SessionAssumption
<1>1. /\ UNCHANGED <<jar, S!api>> /\ tab[t1].flight.st = "set"
      /\ tab'[t1].token = n /\ tab'[t1].flight.st = "none"
      /\ tab'[t1].boot = S!Boot(t1, n)
      /\ \A c \in Call : call[c].tab # t1 \/ call[c].pc # "waiting" => call'[c] = call[c]
      /\ \A c \in Call :
           call[c].tab = t1 /\ call[c].pc = "waiting" =>
              /\ n = 0 => call'[c].pc = "failed"
              /\ n # 0 => /\ call'[c].pc = "sent" /\ call'[c].tab = t1 /\ call'[c].token = n
  BY <1>0, FlightDoneTypes
<1>2. PICK c \in Call : /\ call[c].pc = "waiting" /\ call[c].tab = t1
                        /\ \A d \in Call \ {c} : S!Over(d)
  BY <1>1, AloneFlight
<1>3. tab[t1].boot.st = "none" /\ n \in {0, jar}
  BY <1>1, AloneFlight DEF AloneInv, CookieIsTokens
<1>4. 0 \notin good'
  BY <1>1 DEF S!api, SessionTypes
<1>5. \A d \in Call \ {c} : call'[d] = call[d]
  BY <1>1, <1>2 DEF S!Over
<1>6. tab'[t1].boot.st \in {"none", "due"} /\ (n # 0 => tab'[t1].boot.st = "none")
  BY <1>1, <1>3, NothingSent DEF S!Boot
<1> HIDE DEF n
<1>7. CASE n = 0
  <2>1. S!Over(c)' /\ CallIsTokens(c)'
    BY <1>1, <1>2, <1>7 DEF S!Over, CallIsTokens
  <2>2. OneCall' /\ \A d \in Call : CallIsTokens(d)'
    BY <1>2, <1>5, <2>1, AloneNext
  <2>3. \A d \in Call : S!Over(d)'
    BY <1>2, <1>5, <2>1 DEF S!Over
  <2>4. OneRefresh' /\ CookieIsTokens'
    BY <1>1, <1>4, <1>6, <1>7, <2>3 DEF OneRefresh, CookieIsTokens
  <2>5. QED BY <2>2, <2>4 DEF AloneInv
<1>8. CASE n # 0
  <2>1. call'[c].tab = t1 /\ CallIsTokens(c)'
    BY <1>1, <1>2, <1>8 DEF CallIsTokens
  <2>2. OneCall' /\ \A d \in Call : CallIsTokens(d)'
    BY <1>2, <1>5, <2>1, AloneNext
  <2>3. OneRefresh' /\ CookieIsTokens'
    BY <1>1, <1>3, <1>6, <1>8 DEF OneRefresh, CookieIsTokens
  <2>4. QED BY <2>2, <2>3 DEF AloneInv
<1>9. QED BY <1>7, <1>8

LEMMA AloneBootSent ==
    ASSUME SessionTypes, AloneInv, S!BootSent(t1) PROVE AloneInv'
<1>1. /\ UNCHANGED <<jar, S!api, call>> /\ tab[t1].boot.st = "due"
      /\ tab'[t1].token = tab[t1].token /\ tab'[t1].flight = tab[t1].flight
      /\ tab'[t1].boot = [st |-> "out", token |-> jar]
  BY SessionAssumption, BootSentTypes
<1>2. /\ tab[t1].flight.st = "none" /\ tab[t1].token = 0 /\ \A c \in Call : S!Over(c)
      /\ \A c \in Call : call[c].pc \notin {"sent", "ok"}
  BY <1>1, AloneBoot
<1>3. OneCall' /\ \A c \in Call : CallIsTokens(c)'
  BY <1>1, <1>2, AloneStill
<1>4. 0 \notin good'
  BY <1>1 DEF S!api, SessionTypes
<1>5. OneRefresh' /\ CookieIsTokens'
  BY <1>1, <1>2, <1>4 DEF OneRefresh, CookieIsTokens, S!Over
<1>6. QED BY <1>3, <1>5 DEF AloneInv

LEMMA AloneBootDone ==
    ASSUME SessionTypes, AloneInv, S!BootDone(t1) PROVE AloneInv'
<1>1. /\ UNCHANGED <<jar, S!api, call>> /\ tab[t1].boot.st = "set"
      /\ tab'[t1].token = IF tab[t1].boot.token # 0 THEN tab[t1].boot.token
                          ELSE tab[t1].token
      /\ tab'[t1].flight = tab[t1].flight /\ tab'[t1].boot.st = "none"
  BY SessionAssumption, BootDoneTypes
<1>2. /\ tab[t1].flight.st = "none" /\ tab[t1].token = 0
      /\ \A c \in Call : call[c].pc \notin {"sent", "ok"}
  BY <1>1, AloneBoot
<1>3. OneCall' /\ \A c \in Call : CallIsTokens(c)'
  BY <1>1, <1>2, AloneStill
<1>4. 0 \notin good'
  BY <1>1 DEF S!api, SessionTypes
<1>5. tab'[t1].token \in {0, jar'}
  BY <1>1, <1>2 DEF AloneInv, CookieIsTokens
<1>6. OneRefresh' /\ CookieIsTokens'
  BY <1>1, <1>2, <1>4, <1>5 DEF OneRefresh, CookieIsTokens
<1>7. QED BY <1>3, <1>6 DEF AloneInv

\* Nothing is under way.
LEMMA AloneQuiet ==
    ASSUME AloneInv, Quiet
    PROVE  /\ tab[t1].boot.st = "none" /\ tab[t1].flight.st = "none"
           /\ \A c \in Call : S!Over(c)
           /\ \A c \in Call : call[c].pc \notin {"sent", "ok", "denied", "waiting"}
<1>1. \A c \in Call : S!Over(c)
  BY DEF Quiet, S!CallsOf, AloneInv, OneCall
<1>2. QED BY <1>1, AloneIdle DEF Quiet

LEMMA AloneSend ==
    ASSUME SessionTypes, AloneInv, Quiet, NEW c \in Call, NEW kind \in S!Kind,
           S!Send(t1, c, kind)
    PROVE  AloneInv'
<1>1. /\ call'[c].pc = "sent" /\ call'[c].tab = t1 /\ call'[c].token = tab[t1].token
      /\ \A d \in Call \ {c} : call'[d] = call[d]
      /\ UNCHANGED <<jar, S!api, tab>>
  BY SessionAssumption, SendTypes
<1>2. /\ tab[t1].boot.st = "none" /\ tab[t1].flight.st = "none"
      /\ \A d \in Call \ {c} : S!Over(d)
  BY AloneQuiet
<1>3. CallIsTokens(c)'
  BY <1>1 DEF CallIsTokens
<1>4. OneCall' /\ \A d \in Call : CallIsTokens(d)'
  BY <1>1, <1>2, <1>3, AloneNext
<1>5. OneRefresh' /\ CookieIsTokens'
  BY <1>1, <1>2 DEF OneRefresh, CookieIsTokens, AloneInv, S!api
<1>6. QED BY <1>4, <1>5 DEF AloneInv

LEMMA AloneLoad ==
    ASSUME SessionTypes, AloneInv, Quiet, S!Load(t1, jar # 0) PROVE AloneInv'
<1>0. t1 \in Tab /\ (jar # 0) \in BOOLEAN /\ S!CallsOf(t1) = {}
  BY SessionAssumption DEF Quiet
<1>1. /\ UNCHANGED <<jar, S!api, call>>
      /\ tab'[t1].token = 0 /\ tab'[t1].flight.st = "none"
      /\ tab'[t1].boot.st \in {"none", "due"}
  BY <1>0, LoadTypes
<1>2. /\ \A c \in Call : S!Over(c)
      /\ \A c \in Call : call[c].pc \notin {"sent", "ok"}
  BY AloneQuiet
<1>3. OneCall' /\ \A c \in Call : CallIsTokens(c)'
  BY <1>1, <1>2, AloneStill
<1>4. 0 \notin good'
  BY <1>1 DEF S!api, SessionTypes
<1>5. OneRefresh' /\ CookieIsTokens'
  BY <1>1, <1>2, <1>4 DEF OneRefresh, CookieIsTokens, S!Over
<1>6. QED BY <1>3, <1>5 DEF AloneInv

LEMMA AloneExpire ==
    ASSUME SessionTypes, AloneInv, NEW n \in good, S!Expire(n) PROVE AloneInv'
<1>1. good' \subseteq good /\ UNCHANGED <<jar, live, tab, call>>
  BY ExpireTypes
<1>2. OneCall' /\ OneRefresh' /\ CookieIsTokens'
  BY <1>1 DEF AloneInv, OneCall, OneRefresh, CookieIsTokens, S!Over
<1>3. \A c \in Call : CallIsTokens(c)'
  BY <1>1 DEF AloneInv, CallIsTokens
<1>4. QED BY <1>2, <1>3 DEF AloneInv

LEMMA AloneStep == ASSUME SessionTypes, AloneInv, Alone PROVE AloneInv'
<1>1. ASSUME NEW c \in Call, S!CallStep(c) PROVE AloneInv'
  <2>1. CASE S!Serve(c) BY <2>1, AloneServe
  <2>2. CASE S!ServeVerify(c) BY <2>2, AloneServeVerify
  <2>3. CASE S!Done(c) BY <2>3, AloneDone
  <2>4. CASE S!VerifyDone(c) BY <2>4, AloneVerifyDone
  <2>5. CASE S!LogoutDone(c) BY <2>5, AloneLogoutDone
  <2>6. CASE S!Denied(c) BY <2>6, AloneDenied
  <2>7. QED BY <1>1, <2>1, <2>2, <2>3, <2>4, <2>5, <2>6 DEF S!CallStep
<1>2. CASE S!FlightStep(t1)
  BY <1>2, AloneFlightServes, AloneFlightCookie, AloneFlightDone DEF S!FlightStep
<1>3. CASE S!BootStep(t1)
  BY <1>3, AloneBootSent, AloneBootServes, AloneBootCookie, AloneBootDone DEF S!BootStep
<1>4. CASE S!Progress(t1)
  BY <1>1, <1>2, <1>3, <1>4 DEF S!Progress, S!CallsOf
<1>5. ASSUME Quiet, NEW c \in Call, NEW kind \in S!Kind, S!Send(t1, c, kind) PROVE AloneInv'
  BY <1>5, AloneSend
<1>6. ASSUME NEW n \in good, S!Expire(n) PROVE AloneInv'
  BY <1>6, AloneExpire
<1>7. QED BY <1>4, <1>5, <1>6, AloneLoad DEF Alone

LEMMA AloneStart == ASSUME S!Init PROVE AloneInv
<1>1. /\ jar = 1 /\ live = {1} /\ good = {1}
      /\ tab = [t \in Tab |-> [inApp |-> TRUE, token |-> 1,
                               flight |-> S!NoRefresh, boot |-> S!NoRefresh]]
      /\ call = [c \in Call |-> S!NoCall]
  BY DEF S!Init, S!InitAt
<1>2. tab[t1].token = 1 /\ tab[t1].flight.st = "none" /\ tab[t1].boot.st = "none"
  BY <1>1, NothingSent, SessionAssumption
<1>3. \A c \in Call : call[c].pc = "idle"
  BY <1>1, NothingSent
<1>4. QED BY <1>1, <1>2, <1>3
          DEF AloneInv, OneCall, OneRefresh, CookieIsTokens, CallIsTokens, S!Over

\* A logout that has been answered is ended by useLogout and by nothing else.
LEMMA OnlyLogoutEnds ==
    ASSUME SessionTypes, AloneInv, Alone, NEW c \in Call,
           call[c].kind = "logout", call[c].pc = "ok", call'[c].pc = "idle"
    PROVE  S!LogoutDone(c)
<1>1. ~S!Over(c) /\ t1 \in Tab
  BY SessionAssumption DEF S!Over
<1>2. /\ call[c].tab = t1 /\ tab[t1].boot.st = "none" /\ tab[t1].flight.st = "none"
      /\ \A d \in Call \ {c} : S!Over(d)
  BY <1>1, AloneCall
<1>3. ~Quiet
  BY <1>1, <1>2 DEF Quiet, S!CallsOf
<1>4. ASSUME NEW w \in {"flight", "boot"} PROVE ~S!Serves(t1, w) /\ ~S!CookieArrives(t1, w)
  <2>1. tab[t1][w].st = "none"
    BY <1>1, <1>2, RefreshIs
  <2>2. QED BY <2>1 DEF S!Serves, S!CookieArrives
<1>5. ~S!FlightDone(t1) /\ ~S!BootSent(t1) /\ ~S!BootDone(t1)
  BY <1>2 DEF S!FlightDone, S!BootSent, S!BootDone
<1>6. ~S!FlightStep(t1) /\ ~S!BootStep(t1)
  BY <1>4, <1>5 DEF S!FlightStep, S!BootStep
<1>7. ASSUME NEW n \in good PROVE ~S!Expire(n)
  BY DEF S!Expire
<1>8. S!Progress(t1)
  BY <1>3, <1>7 DEF Alone
<1>9. PICK d \in S!CallsOf(t1) : S!CallStep(d)
  BY <1>6, <1>8 DEF S!Progress
<1>10. S!CallStep(c)
  BY <1>2, <1>9 DEF S!CallsOf
<1>11. ~S!Serve(c) /\ ~S!ServeVerify(c) /\ ~S!Done(c) /\ ~S!VerifyDone(c) /\ ~S!Denied(c)
  BY DEF S!Serve, S!ServeVerify, S!Done, S!VerifyDone, S!Denied
<1>12. QED BY <1>10, <1>11 DEF S!CallStep

\* logout and useLogout, for a user who does one thing at a time, whatever token
\* has run out and whatever has been refreshed or signed in before.
THEOREM LogoutTheorem == MCSpec => AloneLogoutEnds
<1> DEFINE Inv == SessionTypes /\ (mode = "alone" => AloneInv)
           Ends == \A c \in Call :
                     mode = "alone" /\ call[c].kind = "logout" /\ call[c].pc = "ok"
                        /\ call'[c].pc = "idle"
                       => \A cookie \in {jar} : S!SignedOut(t1, cookie)'
<1>1. MCInit => Inv
  BY SessionStart, AloneStart DEF MCInit
<1>2. ASSUME Inv, [MCNext]_all PROVE Inv'
  <2>1. SessionTypes'
    BY <1>2, SessionStep, SessionSame DEF all
  <2>2. ASSUME mode' = "alone" PROVE AloneInv'
    <3>1. mode = "alone" /\ AloneInv /\ (Alone \/ UNCHANGED session)
      BY <1>2, <2>2 DEF MCNext, all
    <3>2. CASE Alone
      BY <1>2, <3>1, <3>2, AloneStep
    <3>3. CASE UNCHANGED session
      BY <3>1, <3>3 DEF session, AloneInv, OneCall, OneRefresh, CookieIsTokens, CallIsTokens,
                        S!Over
    <3>4. QED BY <3>1, <3>2, <3>3
  <2>3. QED BY <2>1, <2>2
<1>3. ASSUME Inv, MCNext PROVE Ends
  <2> SUFFICES ASSUME NEW c \in Call, mode = "alone", call[c].kind = "logout",
                      call[c].pc = "ok", call'[c].pc = "idle"
               PROVE  \A cookie \in {jar} : S!SignedOut(t1, cookie)'
    OBVIOUS
  <2>1. Alone /\ SessionTypes /\ AloneInv
    BY <1>3 DEF MCNext
  <2>2. S!LogoutDone(c)
    BY <2>1, OnlyLogoutEnds
  <2>3. jar' = 0 /\ tab'[t1].token = 0 /\ jar \notin live'
    BY <2>1, <2>2, AloneLogoutDone
  <2>4. QED BY <2>3 DEF S!SignedOut
<1>4. ASSUME Inv, [MCNext]_all PROVE [Ends]_all
  BY <1>3, <1>4
<1> HIDE DEF Inv
<1>5. MCSpec => [][Ends]_all
  BY <1>1, <1>2, <1>4, PTL DEF MCSpec
<1>6. QED BY <1>5 DEF AloneLogoutEnds

=============================================================================
