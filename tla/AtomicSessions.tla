--------------------------- MODULE AtomicSessions ---------------------------
(***************************************************************************)
(* What SessionService promises: every refresh token has one linear life,  *)
(* and it is exchanged at most once, in one indivisible step, while it is  *)
(* still live.  This module knows nothing of requests, of reads that go    *)
(* stale or of crashes; Sessions shows which deployments implement it.     *)
(***************************************************************************)
CONSTANTS SessionId, User, None

VARIABLES
    state,   \* state[s] : the life of the session row s
    holder,  \* holder[s] : the user the session belongs to, None before it opens
    from     \* from[s] : the session whose token was exchanged for s, or None

avars == <<state, holder, from>>

AInit ==
    /\ state = [s \in SessionId |-> "unused"]
    /\ holder = [s \in SessionId |-> None]
    /\ from = [s \in SessionId |-> None]

\* A login opens a session nobody has used before.
Open(s) ==
    /\ state[s] = "unused"
    /\ state' = [state EXCEPT ![s] = "live"]
    /\ \E u \in User : holder' = [holder EXCEPT ![s] = u]
    /\ UNCHANGED from

\* A live token p is exchanged for the fresh token c of the same user.
Exchange(p, c) ==
    /\ state[p] = "live"
    /\ state[c] = "unused"
    /\ state' = [state EXCEPT ![p] = "revoked", ![c] = "live"]
    /\ holder' = [holder EXCEPT ![c] = holder[p]]
    /\ from' = [from EXCEPT ![c] = p]

\* Live sessions are revoked, whatever the reason.
Close(S) ==
    /\ \A s \in S : state[s] = "live"
    /\ state' = [s \in SessionId |-> IF s \in S THEN "revoked" ELSE state[s]]
    /\ UNCHANGED <<holder, from>>

\* Rows that expired or were revoked long ago are dropped for good.
Forget(S) ==
    /\ \A s \in S : state[s] \in {"live", "revoked"}
    /\ state' = [s \in SessionId |-> IF s \in S THEN "deleted" ELSE state[s]]
    /\ UNCHANGED <<holder, from>>

ANext ==
    \/ \E s \in SessionId : Open(s)
    \/ \E p, c \in SessionId : Exchange(p, c)
    \/ \E S \in SUBSET SessionId : Close(S) \/ Forget(S)

ASpec == AInit /\ [][ANext]_avars
=============================================================================
