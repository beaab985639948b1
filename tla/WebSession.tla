----------------------------- MODULE WebSession ------------------------------
(***************************************************************************)
(* How the web client keeps itself signed in: the access token in the      *)
(* store of a tab, the refresh cookie that all tabs share, apiFetch with   *)
(* its silent refresh and one retry, the refresh that AppShell sends when a *)
(* page has loaded, the sign-in, logout and the gate of the middleware.    *)
(*                                                                         *)
(* Refresh tokens are numbered as the API issues them; the access token     *)
(* issued with one has its number, and 0 stands for null.  What the API does *)
(* with them is in Sessions; here its handlers are single steps.           *)
(***************************************************************************)
EXTENDS Naturals, FiniteSets

CONSTANTS
    Tab,
    Call,       \* calls of apiFetch that can be under way at the same time
    MaxToken    \* bound: refresh tokens issued; the last one expires unused

VARIABLES
    jar,      \* the cookie metaflow_refresh
    live,     \* refresh tokens whose session is not revoked
    good,     \* access tokens that are neither expired nor on the blacklist
    issued,   \* tokens issued so far
    theft,    \* history: a spent token has been presented
    tab,      \* tab[t] : page, store and the two refreshes of tab t
    call,     \* call[c] : the call in slot c
    strays    \* cookies of refreshes that were given up and may yet arrive

api == <<live, good, issued, theft>>
vars == <<jar, live, good, issued, theft, tab, call, strays>>

Token == 0..MaxToken

\* A request to /api/auth/refresh: not there, to be sent by the effect, on its
\* way with the cookie, answered, and answered with the cookie in the jar.
Refreshes == [st : {"none", "due", "out", "back", "set"}, token : Token]
NoRefresh == [st |-> "none", token |-> 0]

Kind == {"call", "verify", "logout"}
NoCall == [pc |-> "idle", tab |-> CHOOSE t \in Tab : TRUE, kind |-> "call",
           token |-> 0, retried |-> FALSE]

TypeOK ==
    /\ jar \in Token /\ issued \in Token
    /\ live \subseteq 1..issued /\ good \subseteq 1..issued
    /\ theft \in BOOLEAN
    /\ tab \in [Tab -> [inApp : BOOLEAN, token : Token, flight : Refreshes, boot : Refreshes]]
    /\ call \in [Call -> [pc : {"idle", "sent", "ok", "denied", "waiting", "failed"},
                          tab : Tab, kind : Kind, token : Token, retried : BOOLEAN]]
    /\ strays \subseteq Token

\* Somebody has signed in, in every tab, and its pages are there; the n-th token
\* has just been issued.
InitAt(n) ==
    /\ jar = n /\ live = {n} /\ good = {n} /\ issued = n /\ theft = FALSE
    /\ tab = [t \in Tab |-> [inApp |-> TRUE, token |-> n,
                             flight |-> NoRefresh, boot |-> NoRefresh]]
    /\ call = [c \in Call |-> NoCall]
    /\ strays = {}

Init == InitAt(1)

Over(c) == call[c].pc \in {"idle", "failed"}
CallsOf(t) == {c \in Call : call[c].tab = t /\ ~Over(c)}

-----------------------------------------------------------------------------
(* The API.                                                                *)

Issue ==
    /\ issued < MaxToken
    /\ issued' = issued + 1
    /\ good' = good \cup {issued + 1}

\* POST /auth/refresh with the cookie `sent`, answered with `got`: null without
\* a cookie; a new pair for a live one; 401 for one that has expired, and for a
\* spent one, upon which every session of the user is revoked.
Exchange(sent, got) ==
    \/ sent = 0 /\ got = 0 /\ UNCHANGED api
    \/ /\ sent \in live
       /\ Issue
       /\ got = issued + 1
       /\ live' = (live \ {sent}) \cup {got}
       /\ UNCHANGED theft
    \/ /\ sent \in live
       /\ issued = MaxToken /\ got = 0
       /\ live' = live \ {sent}
       /\ UNCHANGED <<good, issued, theft>>
    \/ /\ sent \notin live \cup {0}
       /\ got = 0
       /\ live' = {} /\ theft' = TRUE
       /\ UNCHANGED <<good, issued>>

\* Fifteen minutes pass for an access token; no answer is under way that long.
Expire(n) ==
    /\ n \in good
    /\ \A t \in Tab : tab[t].flight.token # n \/ tab[t].flight.st \in {"none", "out"}
    /\ \A c \in Call : call[c].retried => call[c].token # n \/ Over(c)
    /\ good' = good \ {n}
    /\ UNCHANGED <<jar, live, issued, theft, tab, call, strays>>

-----------------------------------------------------------------------------
(* The store of a tab.                                                     *)

\* useAuthBootstrap runs its effect whenever accessToken changes: the refresh of
\* before is aborted, and without a token a new one is due.
Boot(t, token) ==
    IF token = tab[t].token \/ ~tab[t].inApp THEN tab[t].boot
    ELSE IF token = 0 THEN [st |-> "due", token |-> 0] ELSE NoRefresh

\* An aborted request that has been sent may still reach the API.
GivenUp(x) == IF x.st = "out" THEN {x.token} ELSE {}

\* setAccessToken(token) or clear(), and what the effect does about it.
SetToken(t, token, flight) ==
    /\ tab' = [tab EXCEPT ![t].token = token, ![t].flight = flight,
                          ![t].boot = Boot(t, token)]
    /\ strays' = IF Boot(t, token) = tab[t].boot THEN strays
                 ELSE strays \cup GivenUp(tab[t].boot)

-----------------------------------------------------------------------------
(* apiFetch.                                                               *)

\* fetch with the token of the store.
Send(t, c, kind) ==
    /\ Over(c)
    /\ tab[t].inApp <=> kind # "verify"
    /\ call' = [call EXCEPT ![c] = [pc |-> "sent", tab |-> t, kind |-> kind,
                                    token |-> tab[t].token, retried |-> FALSE]]
    /\ UNCHANGED <<jar, api, tab, strays>>

Answer(c, pc) == call' = [call EXCEPT ![c].pc = pc]
End(c, pc) == call' = [call EXCEPT ![c] = [NoCall EXCEPT !.pc = pc]]

\* JwtStrategy.validate, then the handler: logout revokes the session that the
\* token names and puts the token on the blacklist.
Serve(c) ==
    LET n == call[c].token IN
    /\ call[c].pc = "sent" /\ call[c].kind # "verify"
    /\ \/ /\ n \notin good
          /\ Answer(c, "denied")
          /\ UNCHANGED api
       \/ /\ n \in good
          /\ Answer(c, "ok")
          /\ IF call[c].kind = "logout"
             THEN /\ live' = live \ {n} /\ good' = good \ {n}
                  /\ UNCHANGED <<issued, theft>>
             ELSE UNCHANGED api
    /\ UNCHANGED <<jar, tab, strays>>

\* /auth/mfa/verify, the last step of signing in: the code is wrong, or it is
\* right and opens one more session.
ServeVerify(c) ==
    /\ call[c].pc = "sent" /\ call[c].kind = "verify"
    /\ \/ /\ Answer(c, "denied")
          /\ UNCHANGED api
       \/ /\ Issue
          /\ live' = live \cup {issued + 1}
          /\ call' = [call EXCEPT ![c].pc = "ok", ![c].token = issued + 1]
          /\ UNCHANGED theft
    /\ UNCHANGED <<jar, tab, strays>>

Done(c) ==
    /\ call[c].pc = "ok" /\ call[c].kind = "call"
    /\ End(c, "idle")
    /\ UNCHANGED <<jar, api, tab, strays>>

\* The cookie and the token are there; the page that was asked for comes up when
\* the user's data could be fetched, else the form stays.
VerifyDone(c) ==
    LET t == call[c].tab IN
    /\ call[c].pc = "ok" /\ call[c].kind = "verify"
    /\ jar' = call[c].token
    /\ \E inApp \in BOOLEAN : tab' = [tab EXCEPT ![t].token = call[c].token, ![t].inApp = inApp]
    /\ End(c, "idle")
    /\ UNCHANGED <<api, strays>>

\* Mutant: the answer to a logout leaves the cookie.
LogoutKeepsCookie(c) ==
    LET t == call[c].tab IN
    /\ call[c].pc = "ok" /\ call[c].kind = "logout"
    /\ tab' = [tab EXCEPT ![t].token = 0, ![t].inApp = FALSE, ![t].boot = NoRefresh]
    /\ End(c, "idle")
    /\ strays' = strays \cup GivenUp(tab[t].boot)
    /\ UNCHANGED <<jar, api>>

\* useLogout: the store is cleared, upon which the effect may run once more
\* before the page for login comes up.
LogoutDone(c) ==
    LET t == call[c].tab IN
    /\ call[c].pc = "ok" /\ call[c].kind = "logout"
    /\ jar' = 0
    /\ \E boot \in {NoRefresh, [st |-> "due", token |-> 0]} :
        tab' = [tab EXCEPT ![t].token = 0, ![t].inApp = FALSE, ![t].boot = boot]
    /\ strays' = strays \cup GivenUp(tab[t].boot)
    /\ End(c, "idle")
    /\ UNCHANGED api

\* Mutant: every 401 sends a refresh of its own.
DeniedAlone(c) ==
    LET t == call[c].tab IN
    /\ call[c].pc = "denied"
    /\ IF call[c].retried THEN End(c, "failed") /\ UNCHANGED <<tab, strays>>
       ELSE /\ Answer(c, "waiting")
            /\ tab' = [tab EXCEPT ![t].flight = [st |-> "out", token |-> jar]]
            /\ strays' = strays \cup GivenUp(tab[t].flight)
    /\ UNCHANGED <<jar, api>>

\* A 401: the second one is final, the first one waits for singleFlightRefresh,
\* which is sent unless it is under way.
Denied(c) ==
    LET t == call[c].tab IN
    /\ call[c].pc = "denied"
    /\ IF call[c].retried THEN End(c, "failed") /\ UNCHANGED tab
       ELSE /\ Answer(c, "waiting")
            /\ tab' = IF tab[t].flight.st # "none" THEN tab
                      ELSE [tab EXCEPT ![t].flight = [st |-> "out", token |-> jar]]
    /\ UNCHANGED <<jar, api, strays>>

\* The network fails: fetch throws.
CallLost(c) ==
    /\ call[c].pc \in {"sent", "ok", "denied"}
    /\ End(c, "failed")
    /\ UNCHANGED <<jar, api, tab, strays>>

-----------------------------------------------------------------------------
(* Refreshes: w is "flight", that of singleFlightRefresh, or "boot".       *)

Serves(t, w) ==
    /\ tab[t][w].st = "out"
    /\ \E got \in Token :
        /\ Exchange(tab[t][w].token, got)
        /\ tab' = [tab EXCEPT ![t][w] = [st |-> "back", token |-> got]]
    /\ UNCHANGED <<jar, call, strays>>

\* The headers arrive, and with them the cookie; a refused refresh leaves it.
CookieArrives(t, w) ==
    /\ tab[t][w].st = "back"
    /\ jar' = IF tab[t][w].token # 0 THEN tab[t][w].token ELSE jar
    /\ tab' = [tab EXCEPT ![t][w].st = "set"]
    /\ UNCHANGED <<api, call, strays>>

\* The network fails, before or after the API, or in the body of an answer whose
\* cookie is in the jar: null for singleFlightRefresh, nothing for the bootstrap.
RefreshLost(t, w) ==
    /\ tab[t][w].st \in {"out", "back", "set"}
    /\ tab' = [tab EXCEPT ![t][w] = [st |-> "set", token |-> 0]]
    /\ strays' = strays \cup GivenUp(tab[t][w])
    /\ UNCHANGED <<jar, api, call>>

\* Mutant: a refused refresh waits for the refresh that is under way, itself.
FlightNeverFails(t) ==
    LET n == tab[t].flight.token IN
    /\ tab[t].flight.st = "set" /\ n # 0
    /\ SetToken(t, n, NoRefresh)
    /\ call' = [c \in Call |->
                  IF c \in CallsOf(t) /\ call[c].pc = "waiting"
                  THEN [call[c] EXCEPT !.pc = "sent", !.token = n, !.retried = TRUE]
                  ELSE call[c]]
    /\ UNCHANGED <<jar, api>>

\* The calls that wait are sent once more with the new token, or throw the 401
\* that they had; the store is set or cleared.
FlightDone(t) ==
    LET n == tab[t].flight.token IN
    /\ tab[t].flight.st = "set"
    /\ SetToken(t, n, NoRefresh)
    /\ call' = [c \in Call |->
                  IF c \notin CallsOf(t) \/ call[c].pc # "waiting" THEN call[c]
                  ELSE IF n = 0 THEN [NoCall EXCEPT !.pc = "failed"]
                  ELSE [call[c] EXCEPT !.pc = "sent", !.token = n, !.retried = TRUE]]
    /\ UNCHANGED <<jar, api>>

\* useAuthBootstrap goes to the API itself, whatever singleFlightRefresh does.
BootSent(t) ==
    /\ tab[t].boot.st = "due"
    /\ tab' = [tab EXCEPT ![t].boot = [st |-> "out", token |-> jar]]
    /\ UNCHANGED <<jar, api, call, strays>>

\* The token is set.  That aborts the controller of the request, so that the
\* answer of /users/me is dropped.
BootDone(t) ==
    LET n == tab[t].boot.token IN
    /\ tab[t].boot.st = "set"
    /\ tab' = [tab EXCEPT ![t].boot = NoRefresh, ![t].token = IF n # 0 THEN n ELSE @]
    /\ UNCHANGED <<jar, api, call, strays>>

\* A refresh that nobody waits for any more reaches the API.
StrayServed ==
    \E sent \in strays, got \in Token :
        /\ Exchange(sent, got)
        /\ strays' = strays \ {sent}
        /\ UNCHANGED <<jar, tab, call>>

\* A page is loaded from the server: the middleware lets into the app with a
\* cookie, whatever it is worth; nothing of the tab is left.
Load(t, inApp) ==
    /\ inApp => jar # 0
    /\ tab' = [tab EXCEPT ![t] = [inApp |-> inApp, token |-> 0, flight |-> NoRefresh,
                                  boot |-> [st |-> IF inApp THEN "due" ELSE "none",
                                            token |-> 0]]]
    /\ call' = [c \in Call |-> IF c \in CallsOf(t) THEN NoCall ELSE call[c]]
    /\ strays' = strays \cup GivenUp(tab[t].flight) \cup GivenUp(tab[t].boot)
    /\ UNCHANGED <<jar, api>>

-----------------------------------------------------------------------------

\* What the browser and the API do by themselves about a call and a refresh.
CallStep(c) ==
    \/ Serve(c) \/ ServeVerify(c)
    \/ Done(c) \/ VerifyDone(c) \/ LogoutDone(c)
    \/ Denied(c)

FlightStep(t) == Serves(t, "flight") \/ CookieArrives(t, "flight") \/ FlightDone(t)
BootStep(t) == BootSent(t) \/ Serves(t, "boot") \/ CookieArrives(t, "boot") \/ BootDone(t)

Progress(t) == FlightStep(t) \/ BootStep(t) \/ \E c \in CallsOf(t) : CallStep(c)

Lost ==
    \/ \E c \in Call : CallLost(c)
    \/ \E t \in Tab, w \in {"flight", "boot"} : RefreshLost(t, w)

Next ==
    \/ \E t \in Tab :
        \/ Progress(t)
        \/ \E c \in Call, kind \in Kind : Send(t, c, kind)
        \/ \E inApp \in BOOLEAN : Load(t, inApp)
    \/ \E n \in good : Expire(n)
    \/ Lost
    \/ StrayServed

\* fetch comes back with an answer or with an error; what is ready runs.
Fairness ==
    /\ \A c \in Call : WF_vars(CallStep(c))
    /\ \A t \in Tab : WF_vars(FlightStep(t)) /\ WF_vars(BootStep(t))

Spec == Init /\ [][Next]_vars /\ Fairness

-----------------------------------------------------------------------------
(* Properties.                                                             *)

\* "Refresh storm prevention" (client.ts): however many calls find their token
\* expired at once and however late they hear of it, no spent token is presented
\* and each of them goes through.
StormIsHarmless == ~theft /\ \A c \in Call : call[c].pc # "failed"

\* client.ts: if another refresh is already in flight, it is waited for.  The
\* code breaks it when a page loads, because the bootstrap goes around.
OneRefreshPerTab == \A t \in Tab : ~(tab[t].flight.st = "out" /\ tab[t].boot.st = "out")

\* After a logout nothing of the session is left: no cookie, no token in the
\* store, and the API does not exchange what the cookie had been.  (Signing in
\* twice without a logout leaves a session that nobody has a token of.)
SignedOut(t, cookie) == jar = 0 /\ tab[t].token = 0 /\ cookie \notin live

\* apiFetch: every call is answered or throws, whatever is lost; none waits for
\* ever for a refresh that does not come back.
EveryCallEnds == \A c \in Call : ~Over(c) ~> Over(c)
=============================================================================
