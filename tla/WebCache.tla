------------------------------ MODULE WebCache -------------------------------
(***************************************************************************)
(* The query cache of the web client.  One query of the pages is looked at *)
(* at a time, with everything that can be done to what it shows: pages are *)
(* entered and left, answers arrive late, not at all or after the change   *)
(* that they lack, and controls of several pages are used meanwhile.       *)
(*                                                                         *)
(* The client of app/providers.tsx: an answer is fresh for staleTime, a    *)
(* failed request is repeated once, nothing is fetched on focus; a page    *)
(* that is left does not abort its requests.                               *)
(***************************************************************************)
EXTENDS Naturals, WebPages, TLC

CONSTANT Change     \* bound: the controls used in a behaviour

VARIABLES
    focus,      \* the query that is looked at
    screen,     \* the page that is open
    entry,    \* what react-query keeps for the query
    change    \* change[n] : the n-th use of a control

vars == <<focus, screen, entry, change>>

Page == WorkspacePage @@ OwnPage
PageName == DOMAIN Page
Query == UNION {Page[p].queries : p \in PageName}
Key == {q.key : q \in Query}

\* @@ makes a table of a function: each value is computed once.
Table(f) == f @@ << >>

ReadsOf == Table([k \in Key |-> UNION {q.route.reads : q \in {x \in Query : x.key = k}}])

Shows == Table([p \in PageName |-> {q.key : q \in Page[p].queries}])

\* Rendered by the layouts, which stay when one of their pages is left for another.
Around == {CurrentOrg.key, OneWorkspace.key}

\* What the controls of page x[2] are to query x[1]: whether they change what it
\* reads, invalidate it, leave the page, and are not there before its answer.
\* Those that are nothing to it are left out.
Uses == Table([x \in Key \X PageName |->
          {u \in {[touches     |-> c.route.writes \cap ReadsOf[x[1]] # {},
                   invalidates |-> Invalidates(c, x[1]),
                   leaves      |-> c.route = Campaigns.delete,
                   after       |-> x[1] \in c.after] : c \in Page[x[2]].controls} :
            u.touches \/ u.invalidates}])

\* Pages that show a query or not, and have the same uses for it, are one page.
Alike == Table([x \in Key \X PageName |->
           CHOOSE p \in PageName : /\ x[1] \in Shows[p] <=> x[1] \in Shows[x[2]]
                                   /\ Uses[<<x[1], p>>] = Uses[x]])
PagesOf == Table([k \in Key |-> {Alike[<<k, p>>] : p \in PageName}])

\* What TLC finds out of these tables, which are all there is: above all, on a page
\* that shows a query, whatever changes what it reads invalidates it or leaves.
ASSUME PagesAssumption ==
    /\ CurrentOrg.key \in Key
    /\ \A k \in Key :
        /\ \A p \in {"campaigns", "dashboard"} : Alike[<<k, p>>] \in PagesOf[k]
        /\ \A p \in PagesOf[k] : \A u \in Uses[<<k, p>>] :
            /\ u \in [touches : BOOLEAN, invalidates : BOOLEAN,
                      leaves : BOOLEAN, after : BOOLEAN]
            /\ k \in Shows[p] /\ u.touches => u.invalidates \/ u.leaves

Stage == {"unused", "sent", "written", "told", "over"}
Unused == [pc |-> "unused", here |-> FALSE, touches |-> FALSE,
           invalidates |-> FALSE, leaves |-> FALSE]

TypeOK ==
    /\ focus \in Key /\ screen \in PagesOf[focus]
    /\ entry \in [has : BOOLEAN, invalid : BOOLEAN, failed : BOOLEAN, mounted : BOOLEAN,
                  net : {"idle", "out", "back"}, repeated : BOOLEAN,
                  lacks : SUBSET Change, misses : SUBSET Change]
    /\ change \in [Change -> [pc : Stage, here : BOOLEAN, touches : BOOLEAN,
                              invalidates : BOOLEAN, leaves : BOOLEAN]]

\* lacks: the changes that the data shown do not have; misses: those that the
\* answer under way does not.
Nothing == [has |-> FALSE, invalid |-> FALSE, failed |-> FALSE, mounted |-> FALSE,
            net |-> "idle", repeated |-> FALSE, lacks |-> {}, misses |-> {}]

InitAt(k, p) ==
    /\ focus = k /\ screen = p
    /\ entry = Nothing
    /\ change = [n \in Change |-> Unused]

Init == \E k \in Key : \E p \in PagesOf[k] : InitAt(k, p)

-----------------------------------------------------------------------------
(* The query.                                                              *)

\* Mutant: a request under way is joined, whatever it was sent for.
FetchedJoins(e, cancelRefetch) ==
    IF e.net # "idle" THEN e
    ELSE [e EXCEPT !.net = "out", !.repeated = FALSE, !.failed = FALSE, !.misses = {}]

\* query.fetch: a request under way is joined, unless there are data and
\* cancelRefetch asks for a new one.
Fetched(e, cancelRefetch) ==
    IF e.net # "idle" /\ ~(e.has /\ cancelRefetch) THEN e
    ELSE [e EXCEPT !.net = "out", !.repeated = FALSE, !.failed = FALSE, !.misses = {}]

\* useQuery of a component is mounted, or enabled: data that are missing,
\* invalidated or older than staleTime are fetched.  So they are for a query on
\* the page when the network is back.
Mount ==
    /\ focus \in Shows[screen]
    /\ \E old \in BOOLEAN :
        LET e == [entry EXCEPT !.mounted = TRUE] IN
        entry' = IF old \/ ~e.has \/ e.invalid THEN Fetched(e, FALSE) ELSE e
    /\ UNCHANGED <<focus, screen, change>>

\* The answer contains whatever has been written by now.
Read ==
    /\ entry.net = "out"
    /\ entry' = [entry EXCEPT !.net = "back", !.misses = {}]
    /\ UNCHANGED <<focus, screen, change>>

Answered ==
    /\ entry.net = "back"
    /\ entry' = [entry EXCEPT !.net = "idle", !.has = TRUE, !.invalid = FALSE,
                              !.lacks = entry.misses, !.misses = {}]
    /\ UNCHANGED <<focus, screen, change>>

\* An error, or no answer: retry is 1, but nobody retries for a page that has
\* been left.
Failed ==
    /\ entry.net # "idle"
    /\ entry' = IF entry.mounted /\ ~entry.repeated
                THEN [entry EXCEPT !.net = "out", !.repeated = TRUE, !.misses = {}]
                ELSE [entry EXCEPT !.net = "idle", !.failed = TRUE, !.misses = {}]
    /\ UNCHANGED <<focus, screen, change>>

\* gcTime after the last page that showed it has been left.
Collect ==
    /\ ~entry.mounted /\ entry.net = "idle"
    /\ entry' = Nothing
    /\ UNCHANGED <<focus, screen, change>>

-----------------------------------------------------------------------------
(* Pages.                                                                  *)

\* A link leads to another page: what was used here belongs to a visit of before.
Leave(p, e, used) ==
    /\ screen' = p
    /\ entry' = [e EXCEPT !.mounted = @ /\ focus \in Around /\ focus \in Shows[p]]
    /\ change' = [n \in Change |-> [used[n] EXCEPT !.here = FALSE]]

Navigate(p) ==
    /\ Leave(p, entry, change)
    /\ UNCHANGED focus

-----------------------------------------------------------------------------
(* Controls: useMutation.                                                  *)

\* A button is disabled while its mutation is pending.
Use(n, u) ==
    /\ change[n].pc = "unused" /\ \A m \in Change : m < n => change[m].pc # "unused"
    /\ u.after => entry.has /\ entry.mounted
    /\ \A m \in Change : change[m].here /\ change[m].pc \in {"sent", "written"} =>
        <<change[m].touches, change[m].invalidates, change[m].leaves>>
            # <<u.touches, u.invalidates, u.leaves>>
    /\ change' = [change EXCEPT ![n] = [pc |-> "sent", here |-> TRUE, touches |-> u.touches,
                                        invalidates |-> u.invalidates, leaves |-> u.leaves]]
    /\ UNCHANGED <<focus, screen, entry>>

Written(n) ==
    /\ change[n].pc = "sent"
    /\ change' = [change EXCEPT ![n].pc = "written"]
    /\ entry' = IF ~change[n].touches THEN entry
                ELSE [entry EXCEPT !.lacks = IF entry.has THEN @ \cup {n} ELSE @,
                                   !.misses = IF entry.net = "back" THEN @ \cup {n} ELSE @]
    /\ UNCHANGED <<focus, screen>>

\* A change of which the user has been promised nothing: it is of no more interest.
Dropped(n) == [change EXCEPT ![n] = [Unused EXCEPT !.pc = "over"]]
Without(n, e) == [e EXCEPT !.lacks = @ \ {n}, !.misses = @ \ {n}]

\* The call fails, or its answer is lost: nothing is told and nothing invalidated.
Refused(n) ==
    /\ change[n].pc \in {"sent", "written"}
    /\ change' = Dropped(n)
    /\ entry' = Without(n, entry)
    /\ UNCHANGED <<focus, screen>>

\* A request under way can be given up for a newer one: not the first load, which
\* is joined, and not one for a page that has been left, which is not begun again.
Cancellable == entry.has /\ (entry.mounted \/ entry.net = "idle")

\* onSuccess: the toast, invalidateQueries, and for a deleted campaign the list.
\* An entry on the page is fetched at once, whatever is under way; a first load
\* cannot be begun again.
Success(n) ==
    LET old == IF Cancellable THEN entry ELSE Without(n, entry)
        e == IF ~change[n].invalidates THEN old
             ELSE LET marked == [old EXCEPT !.invalid = old.has \/ old.net # "idle" \/ @]
                  IN  IF old.mounted THEN Fetched(marked, TRUE) ELSE marked
        now == IF Cancellable THEN [change EXCEPT ![n].pc = "told"] ELSE Dropped(n)
    IN  /\ change[n].pc = "written"
        /\ IF change[n].leaves
           THEN Leave(Alike[<<focus, "campaigns">>], e, now)
           ELSE entry' = e /\ change' = now /\ UNCHANGED screen
        /\ UNCHANGED focus

-----------------------------------------------------------------------------

Next ==
    \/ Mount \/ Read \/ Answered \/ Failed \/ Collect
    \/ \E p \in PagesOf[focus] : Navigate(p)
    \/ \E n \in Change :
        \/ \E u \in Uses[<<focus, screen>>] : Use(n, u)
        \/ Written(n) \/ Refused(n) \/ Success(n)

Spec == Init /\ [][Next]_vars

-----------------------------------------------------------------------------
(* Properties.                                                             *)

\* What a page shows when nothing is under way contains every change whose
\* success has been told on this visit of it, and every one whose control
\* invalidates it, wherever it was used: whatever answer was still on its way,
\* however late, and whoever left the page and came back meanwhile.  Spared are
\* successes that find a request under way that cannot be given up.
OwnChangeShows ==
    entry.mounted /\ entry.net = "idle" /\ ~entry.failed
        => \A n \in entry.lacks :
              ~(change[n].pc = "told" /\ (change[n].here \/ change[n].invalidates))
=============================================================================
