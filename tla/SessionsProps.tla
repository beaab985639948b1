---------------------------- MODULE SessionsProps ----------------------------
(***************************************************************************)
(* What should be true of the session table, and what the documentation    *)
(* says of it.                                                             *)
(***************************************************************************)
EXTENDS Sessions

Child(c, p) == p # None /\ lineage[c].parent = p

\* A refresh token that has been exchanged is never live again, and stays so
\* while its successor lives on: the reuse of a rotated token can always be
\* told from its first use (SessionService.rotate).
SpentStaysSpent ==
    \A c, p \in SessionId : Child(c, p) => life[p] \notin {"unused", "live"}

\* The reads of rotate may overlap, so one token may be exchanged more than
\* once; but never twice by the same request slot.  A token yields at most as
\* many sessions as there were requests in flight together.
OneSessionPerPresenter ==
    \A c, d, p \in SessionId :
        Child(c, p) /\ Child(d, p) /\ c # d => lineage[c].by # lineage[d].by

\* session.service.ts says that if the same refresh token is presented twice
\* only one rotation succeeds.
OneRotation ==
    \A c, d, p \in SessionId : Child(c, p) /\ Child(d, p) => c = d

\* A jti is only blacklisted after its session has been revoked: a crash in
\* the middle of a logout never leaves a refresh token that still works behind
\* an access token that does not (AuthService.logout).
BlacklistedIsRevoked == \A s \in blacklisted : life[s] # "live"

\* A session that was revoked never comes back, and a pruned row never
\* returns, whatever the handlers that read it earlier do.
RevocationIsFinal ==
    [][\A s \in SessionId :
        /\ Revoked(s) => life'[s] \in {"revoked", "aged", "deleted"}
        /\ life[s] = "deleted" => life'[s] = "deleted"]_vars

Evicting(u) == \E r \in Request : req[r].pc = "revokeAll" /\ req[r].user = u

\* No session of a family that was ended for the reason why is live, unless
\* the handler that ended it is still at work.
EndsFamilies(why) ==
    \A s \in SessionId :
        /\ life[s] = "live"
        /\ <<lineage[s].root, why>> \in ended
        => Evicting(owner[s])

\* docs/module-02-resume.md: POST /auth/password/reset revokes all sessions,
\* the ones that grew out of them by rotation included.
ResetEndsFamilies == EndsFamilies("reset")

\* The same for a replayed refresh token: no session that the user had then,
\* and none rotated from one, is live afterwards.
TheftEndsFamilies == EndsFamilies("theft")

\* docs/02-auth-user-management.md: logout invalidates access and refresh
\* token; no refresh token of that login works any more.  The code breaks it:
\* the access token may name the session of before the last refresh.
LogoutEndsFamily == EndsFamilies("logout")

\* docs/module-02-resume.md: password change revokes all sessions except the
\* current one: the login it was made from is still live afterwards.  The code
\* breaks it for the same reason.
ChangeKeepsCurrent ==
    [][\A r \in Request, s \in SessionId :
        /\ req[r].pc = "revokeAll" /\ req[r].why = "change"
        /\ req'[r].pc = "idle" /\ life' # life
        /\ life[s] = "live" /\ s \notin expired
        /\ lineage[s].root = lineage[req[r].sess].root
        => life'[s] = "live"]_vars

\* jwt.strategy.ts: logout / password change writes the jti to Redis.  After a
\* password change no access token of a revoked session is accepted.  The code
\* breaks it: only logout writes the jti.
ChangeBlacklists ==
    \A s \in SessionId :
        /\ <<lineage[s].root, "change">> \in ended
        /\ Revoked(s)
        /\ ~Evicting(owner[s])
        => ~Authenticated(s)

\* Every session row is eventually deleted: the table stays bounded and no
\* refreshTokenHash lingers for ever (session-cleanup.service.ts), although
\* revoking a row again restarts its 14 days.
RowsAreReclaimed ==
    \A s \in SessionId : (life[s] = "live") ~> (life[s] = "deleted")

\* Time passes, the cron job runs every hour, and a request that has started
\* reaches its next step.
Fairness ==
    /\ \A s \in SessionId : WF_vars(AccessExpires(s)) /\ WF_vars(Expires(s))
    /\ \A r \in Request : WF_vars(Step(r))
    /\ WF_vars(Cleanup)

FairSpec == Spec /\ Fairness

\* A row's state as the abstract specification sees it: the cutoff of 14 days
\* does not matter to it.
AbsState == [s \in SessionId |-> IF life[s] = "aged" THEN "revoked" ELSE life[s]]

AbsFrom == [s \in SessionId |-> lineage[s].parent]

A == INSTANCE AtomicSessions WITH state <- AbsState, holder <- owner, from <- AbsFrom

\* With one request at a time the handlers implement the promise that every
\* token is exchanged atomically and at most once.
Atomic == A!ASpec
=============================================================================
