-------------------------------- MODULE MCWeb --------------------------------
(***************************************************************************)
(* The web client: its session and its query cache, which have nothing in  *)
(* common, side by side.  The mode of a behaviour says what is looked at:  *)
(*   calm  one tab, its pages loaded, calls whose token may run out;       *)
(*   alone one tab, everything its user can do, one thing at a time;       *)
(*   wild  two tabs, one cookie, pages loaded and left at any time, and    *)
(*         everything that can be lost or come late;                       *)
(*   cache the queries of the pages.                                       *)
(***************************************************************************)
EXTENDS WebCache, FiniteSets

CONSTANTS Tab, Call, MaxToken, t1, t2, c1, c2

ASSUME SessionAssumption ==
    IsFiniteSet(Call) /\ MaxToken \in Nat \ {0, 1} /\ {t1, t2} \subseteq Tab
    /\ {c1, c2} \subseteq Call

VARIABLES jar, live, good, issued, theft, tab, call, strays, mode

S == INSTANCE WebSession

session == <<jar, live, good, issued, theft, tab, call, strays>>
all == <<session, vars, mode>>

MCInit ==
    /\ mode \in {"calm", "alone", "wild", "cache"}
    /\ IF mode = "wild" THEN S!InitAt(MaxToken - 1) ELSE S!Init
    /\ IF mode = "cache" THEN Init
       ELSE LET k == CurrentOrg.key IN InitAt(k, Alike[<<k, "dashboard">>])

\* Bound: the tokens left suffice for every token that runs out.
Calm ==
    \/ S!FlightStep(t1) \/ \E c \in Call : S!CallStep(c)
    \/ \E c \in Call : S!Send(t1, c, "call")
    \/ issued + Cardinality(Call) <= MaxToken /\ \E n \in good : S!Expire(n)

Quiet == tab[t1].boot.st = "none" /\ S!CallsOf(t1) = {}

Alone ==
    \/ S!Progress(t1)
    \/ Quiet /\ \E c \in Call, kind \in S!Kind : S!Send(t1, c, kind)
    \/ Quiet /\ S!Load(t1, jar # 0)
    \/ \E n \in good : S!Expire(n)

\* Bounds: one call at a time in each tab, one request astray.
Wild ==
    /\ \/ \E t \in Tab : S!Progress(t)
       \/ \E inApp \in BOOLEAN : S!Load(t1, inApp)
       \/ \E kind \in {"call", "logout"} : S!Send(t1, c1, kind)
       \/ S!Send(t2, c2, "call")
       \/ \E n \in good : S!Expire(n)
       \/ S!Lost \/ S!StrayServed
    /\ Cardinality(strays') <= 1

MCNext ==
    /\ UNCHANGED mode
    /\ \/ mode = "calm" /\ Calm /\ UNCHANGED vars
       \/ mode = "alone" /\ Alone /\ UNCHANGED vars
       \/ mode = "wild" /\ Wild /\ UNCHANGED vars
       \/ mode = "cache" /\ Next /\ UNCHANGED session

MCSpec == MCInit /\ [][MCNext]_all /\ S!Fairness

-----------------------------------------------------------------------------
(* Properties.                                                             *)

\* singleFlightRefresh: with one tab whose page has been loaded, tokens that run
\* out while calls are under way end no session and fail no call.
CalmStormIsHarmless == mode = "calm" => S!StormIsHarmless

\* logout and useLogout, for a user who does one thing at a time: afterwards the
\* cookie, the store and the API have nothing left that would sign him in.
AloneLogoutEnds ==
    [][\A c \in Call :
        mode = "alone" /\ call[c].kind = "logout" /\ call[c].pc = "ok" /\ call'[c].pc = "idle"
            => \A cookie \in {jar} : S!SignedOut(t1, cookie)']_all

\* apiFetch and singleFlightRefresh: no call waits for ever.
EveryCallEnds == S!EveryCallEnds
=============================================================================
