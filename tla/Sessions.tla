------------------------------ MODULE Sessions ------------------------------
(***************************************************************************)
(* The session table of apps/api and the handlers that change it:          *)
(* SessionService (create, rotate, revoke, revokeAllForUser), the session  *)
(* part of AuthService (refresh, logout, logoutAll, resetPassword,         *)
(* changePassword), DELETE /auth/sessions/:id, the JwtStrategy check and   *)
(* the hourly SessionCleanupService.                                       *)
(*                                                                         *)
(* A handler is a request slot that moves from one database round trip to  *)
(* the next; between two round trips any other request, the cron job or    *)
(* the clock may move.  A session row and the refresh token whose hash it  *)
(* stores are one value of SessionId, because a token is generated for     *)
(* exactly one row; so is the access token (jti) signed with the row.      *)
(***************************************************************************)
EXTENDS Naturals

CONSTANTS
    SessionId,   \* session rows; also their refresh token and access token
    User,
    Request,     \* requests that can be in flight at the same time
    None,
    Watched      \* the reasons for ending a session that `ended` records

Why == {"theft", "logout", "logout_all", "reset", "change"}

ASSUME NoneAssumption == None \notin SessionId \cup User \cup Request \cup Why
ASSUME WatchedAssumption == Watched \subseteq Why

VARIABLES
    life,         \* life[s] : the row s and its revokedAt
    expired,      \* rows whose expiresAt has passed
    owner,        \* owner[s] : Session.userId
    access,       \* sessions whose 15 minute access token has not expired yet
    blacklisted,  \* sessions whose jti is in Redis under access_blacklist:
    req,          \* req[r] : where the handler in slot r stands
    lineage,      \* history: which login and which request made the row
    ended         \* history: the login families someone asked to end, and why

vars == <<life, expired, owner, access, blacklisted, req, lineage, ended>>

\* "aged": revokedAt lies more than 14 days back.
Life == {"unused", "live", "revoked", "aged", "deleted"}

Pc == {"idle", "rotating", "expiring", "logout", "blacklist",
       "setPassword", "revokeAll"}

ReqState == [pc   : Pc,
             sess : SessionId \cup {None},
             user : User \cup {None},
             why  : Why \cup {None}]

\* The steps in which a request works on one session by id.
OnSession == {"rotating", "expiring", "logout", "blacklist"}

ReqOK(q) ==
    /\ q \in [Request -> ReqState]
    /\ \A r \in Request : q[r].pc \in OnSession => q[r].sess \in SessionId

Idle == [pc |-> "idle", sess |-> None, user |-> None, why |-> None]

Lineage == [root   : SessionId,
            parent : SessionId \cup {None},
            by     : Request \cup {None}]

TypeOK ==
    /\ life \in [SessionId -> Life]
    /\ expired \subseteq SessionId
    /\ owner \in [SessionId -> User \cup {None}]
    /\ access \subseteq SessionId
    /\ blacklisted \subseteq SessionId
    /\ ReqOK(req)
    /\ lineage \in [SessionId -> Lineage]
    /\ ended \subseteq (SessionId \X Why)

Init ==
    /\ life = [s \in SessionId |-> "unused"]
    /\ expired = {}
    /\ owner = [s \in SessionId |-> None]
    /\ access = {}
    /\ blacklisted = {}
    /\ req = [r \in Request |-> Idle]
    /\ lineage = [s \in SessionId |-> [root |-> s, parent |-> None, by |-> None]]
    /\ ended = {}

-----------------------------------------------------------------------------
(* Helpers *)

Revoked(s) == life[s] \in {"revoked", "aged"}
Stored(s) == life[s] = "live" \/ Revoked(s)

\* UPDATE ... SET revokedAt = now() on the rows of S that still exist.
Stamp(S) == [s \in SessionId |-> IF s \in S /\ Stored(s) THEN "revoked" ELSE life[s]]

\* The rows `updateMany where userId, revokedAt null, id not keep` selects.
OpenRows(u, keep) == {s \in SessionId : life[s] = "live" /\ owner[s] = u /\ s # keep}

Families(u) == {lineage[s].root : s \in {t \in SessionId : Stored(t) /\ owner[t] = u}}

KeptFamily(keep) == IF keep = None THEN {} ELSE {lineage[keep].root}

\* JwtStrategy.validate: the signature is good and the jti is not blacklisted.
\* The session row is not consulted.
Authenticated(s) == s \in access /\ s \notin blacklisted

\* No authenticated request of session s is in flight: such a request lasts
\* seconds, expiresAt and the 14 day cutoff are days away from its start.
Quiet(s) ==
    \A r \in Request :
        req[r].sess = s => req[r].pc \notin {"logout", "blacklist", "setPassword", "revokeAll"}

\* History only: why a request ends sessions, and the families F that are
\* meant to be over from now on.
Reason(why) == IF why \in Watched THEN why ELSE None
End(F, why) == ended' = ended \cup (F \X ({why} \cap Watched))

Start(r, pc, s, u, why) ==
    /\ req[r].pc = "idle"
    /\ req' = [req EXCEPT ![r] = [pc |-> pc, sess |-> s, user |-> u, why |-> Reason(why)]]

Goto(r, pc) == req' = [req EXCEPT ![r].pc = pc]
Finish(r) == req' = [req EXCEPT ![r] = Idle]

-----------------------------------------------------------------------------
(* Login: SessionService.create, called by AuthService.issueSession once   *)
(* the second factor has been verified.                                    *)

Login(u) ==
    \E c \in SessionId :
        /\ life[c] = "unused"
        /\ life' = [life EXCEPT ![c] = "live"]
        /\ owner' = [owner EXCEPT ![c] = u]
        /\ lineage' = [lineage EXCEPT ![c] = [root |-> c, parent |-> None, by |-> None]]
        /\ access' = access \cup {c}
        /\ UNCHANGED <<expired, blacklisted, req, ended>>

(* SessionService.rotate: findUnique by hash, then one of three outcomes.  *)
(* An unknown token throws and changes nothing.                            *)

RefreshReplay(r, t) ==
    /\ Revoked(t)
    /\ Start(r, "revokeAll", None, owner[t], "theft")
    /\ UNCHANGED <<life, expired, owner, access, blacklisted, lineage, ended>>

RefreshExpired(r, t) ==
    /\ life[t] = "live"
    /\ t \in expired
    /\ Start(r, "expiring", t, None, None)
    /\ UNCHANGED <<life, expired, owner, access, blacklisted, lineage, ended>>

\* Mutant: the revokedAt check of rotate is forgotten.
RefreshAnyRow(r, t) ==
    /\ Stored(t)
    /\ t \notin expired
    /\ Start(r, "rotating", t, None, None)
    /\ UNCHANGED <<life, expired, owner, access, blacklisted, lineage, ended>>

RefreshLive(r, t) ==
    /\ life[t] = "live"
    /\ t \notin expired
    /\ Start(r, "rotating", t, None, None)
    /\ UNCHANGED <<life, expired, owner, access, blacklisted, lineage, ended>>

\* update where id, revokedReason 'expired_cleanup'; then throws.
ExpireRow(r) ==
    /\ req[r].pc = "expiring"
    /\ life' = Stamp({req[r].sess})
    /\ Finish(r)
    /\ UNCHANGED <<expired, owner, access, blacklisted, lineage, ended>>

\* Mutant: the transaction creates the new row and leaves the old one alone.
RotateKeepsOld(r) ==
    LET t == req[r].sess IN
    /\ req[r].pc = "rotating"
    /\ Stored(t)
    /\ \E c \in SessionId :
        /\ life[c] = "unused"
        /\ life' = [life EXCEPT ![c] = "live"]
        /\ owner' = [owner EXCEPT ![c] = owner[t]]
        /\ lineage' = [lineage EXCEPT ![c] =
                         [root |-> lineage[t].root, parent |-> t, by |-> r]]
        /\ access' = access \cup {c}
    /\ Finish(r)
    /\ UNCHANGED <<expired, blacklisted, ended>>

\* Mutant: the row is rotated in place, with revokedAt set to null.
RotateInPlace(r) ==
    LET t == req[r].sess IN
    /\ req[r].pc = "rotating"
    /\ Stored(t)
    /\ life' = [life EXCEPT ![t] = "live"]
    /\ access' = access \cup {t}
    /\ Finish(r)
    /\ UNCHANGED <<expired, owner, blacklisted, lineage, ended>>

\* The transaction: the old row is stamped whatever its revokedAt is by now,
\* and a new row of the same user is created.
RotateCommit(r) ==
    LET t == req[r].sess IN
    /\ req[r].pc = "rotating"
    /\ Stored(t)
    /\ \E c \in SessionId :
        /\ life[c] = "unused"
        /\ life' = [Stamp({t}) EXCEPT ![c] = "live"]
        /\ owner' = [owner EXCEPT ![c] = owner[t]]
        /\ lineage' = [lineage EXCEPT ![c] =
                         [root |-> lineage[t].root, parent |-> t, by |-> r]]
        /\ access' = access \cup {c}
    /\ Finish(r)
    /\ UNCHANGED <<expired, blacklisted, ended>>

\* The row was pruned since it was read: the update fails, nothing commits.
RotateAbort(r) ==
    /\ req[r].pc = "rotating"
    /\ ~Stored(req[r].sess)
    /\ Finish(r)
    /\ UNCHANGED <<life, expired, owner, access, blacklisted, lineage, ended>>

(* AuthService.logout: revoke the session of the access token, then write  *)
(* its jti to Redis.  The update would throw if the row were gone.         *)

\* Mutant: logout takes an access token without a sid.
LogoutWithoutSid(r, s) ==
    /\ Authenticated(s)
    /\ Start(r, "logout", None, None, "logout")
    /\ UNCHANGED <<life, expired, owner, access, blacklisted, lineage, ended>>

Logout(r, s) ==
    /\ Authenticated(s)
    /\ Start(r, "logout", s, None, "logout")
    /\ UNCHANGED <<life, expired, owner, access, blacklisted, lineage, ended>>

\* Mutant: logout writes the jti first and revokes the row afterwards.
LogoutBlacklistFirst(r) ==
    LET s == req[r].sess IN
    /\ req[r].pc = "logout"
    /\ blacklisted' = blacklisted \cup {s}
    /\ End({lineage[s].root}, "logout")
    /\ Goto(r, "blacklist")
    /\ UNCHANGED <<life, expired, owner, access, lineage>>

LogoutRevoke(r) ==
    LET s == req[r].sess IN
    /\ req[r].pc = "logout"
    /\ Stored(s)
    /\ life' = Stamp({s})
    /\ End({lineage[s].root}, "logout")
    /\ Goto(r, "blacklist")
    /\ UNCHANGED <<expired, owner, access, blacklisted, lineage>>

LogoutBlacklist(r) ==
    /\ req[r].pc = "blacklist"
    /\ blacklisted' = blacklisted \cup {req[r].sess}
    /\ Finish(r)
    /\ UNCHANGED <<life, expired, owner, access, lineage, ended>>

(* Handlers that end in SessionService.revokeAllForUser.                   *)

LogoutAll(r, s) ==
    /\ Authenticated(s)
    /\ Start(r, "revokeAll", None, owner[s], "logout_all")
    /\ UNCHANGED <<life, expired, owner, access, blacklisted, lineage, ended>>

ResetPassword(r, u) ==
    /\ Start(r, "setPassword", None, u, "reset")
    /\ UNCHANGED <<life, expired, owner, access, blacklisted, lineage, ended>>

ChangePassword(r, s) ==
    /\ Authenticated(s)
    /\ Start(r, "setPassword", s, owner[s], "change")
    /\ UNCHANGED <<life, expired, owner, access, blacklisted, lineage, ended>>

\* user.update of the password hash: from here on the old sessions are meant
\* to be over, all but the one the change was made from.
SetPassword(r) ==
    LET q == req[r] IN
    /\ q.pc = "setPassword"
    /\ End(Families(q.user) \ KeptFamily(q.sess), q.why)
    /\ Goto(r, "revokeAll")
    /\ UNCHANGED <<life, expired, owner, access, blacklisted, lineage>>

\* Mutant: the revocation after a replay is rolled back by the exception.
RevokeAllNotTheft(r) ==
    LET q == req[r] IN
    /\ q.pc = "revokeAll"
    /\ life' = IF q.why = "theft" THEN life ELSE Stamp(OpenRows(q.user, q.sess))
    /\ IF q.why \in {"theft", "logout_all"}
       THEN End(Families(q.user), q.why) ELSE UNCHANGED ended
    /\ Finish(r)
    /\ UNCHANGED <<expired, owner, access, blacklisted, lineage>>

RevokeAll(r) ==
    LET q == req[r] IN
    /\ q.pc = "revokeAll"
    /\ life' = Stamp(OpenRows(q.user, q.sess))
    /\ IF q.why \in {"theft", "logout_all"}
       THEN End(Families(q.user), q.why) ELSE UNCHANGED ended
    /\ Finish(r)
    /\ UNCHANGED <<expired, owner, access, blacklisted, lineage>>

\* DELETE /auth/sessions/:id, one update by id (any id but the caller's own):
\* slot r is taken and given back in the same step.
RevokeSession(r, s, t) ==
    /\ req[r].pc = "idle"
    /\ Authenticated(s)
    /\ t # s
    /\ Stored(t)
    /\ life' = Stamp({t})
    /\ UNCHANGED <<expired, owner, access, blacklisted, req, lineage, ended>>

(* The clock and the cron job.                                             *)

AccessExpires(s) ==
    /\ s \in access
    /\ access' = access \ {s}
    /\ UNCHANGED <<life, expired, owner, blacklisted, req, lineage, ended>>

\* The access token (900 s) dies long before the row it was signed with
\* (REFRESH_TOKEN_TTL_SECONDS, 7 days by default) or the 14 day cutoff.
Expires(s) ==
    /\ Stored(s)
    /\ s \notin expired
    /\ s \notin access
    /\ Quiet(s)
    /\ expired' = expired \cup {s}
    /\ UNCHANGED <<life, owner, access, blacklisted, req, lineage, ended>>

Ages(s) ==
    /\ life[s] = "revoked"
    /\ s \notin access
    /\ Quiet(s)
    /\ life' = [life EXCEPT ![s] = "aged"]
    /\ UNCHANGED <<expired, owner, access, blacklisted, req, lineage, ended>>

\* Mutant: expiresAt is not looked at.
PrunableIfAged == {s \in SessionId : life[s] = "aged"}

Prunable == {s \in SessionId : Stored(s) /\ (s \in expired \/ life[s] = "aged")}

Cleanup ==
    /\ Prunable # {}
    /\ life' = [s \in SessionId |-> IF s \in Prunable THEN "deleted" ELSE life[s]]
    /\ UNCHANGED <<expired, owner, access, blacklisted, req, lineage, ended>>

\* The process dies: the rest of the handler never runs.
Crash(r) ==
    /\ req[r].pc # "idle"
    /\ Finish(r)
    /\ UNCHANGED <<life, expired, owner, access, blacklisted, lineage, ended>>

-----------------------------------------------------------------------------

Step(r) ==
    \/ ExpireRow(r) \/ RotateCommit(r) \/ RotateAbort(r)
    \/ LogoutRevoke(r) \/ LogoutBlacklist(r)
    \/ SetPassword(r) \/ RevokeAll(r)

Arrive(r) ==
    \/ \E t \in SessionId :
        \/ RefreshReplay(r, t) \/ RefreshExpired(r, t) \/ RefreshLive(r, t)
        \/ Logout(r, t) \/ LogoutAll(r, t) \/ ChangePassword(r, t)
    \/ \E s, t \in SessionId : RevokeSession(r, s, t)
    \/ \E u \in User : ResetPassword(r, u)

Clock(s) == AccessExpires(s) \/ Expires(s) \/ Ages(s)

\* As long as no process dies.
Undisturbed ==
    \/ \E u \in User : Login(u)
    \/ \E r \in Request : Arrive(r) \/ Step(r)
    \/ \E s \in SessionId : Clock(s)
    \/ Cleanup

Next == Undisturbed \/ \E r \in Request : Crash(r)

Spec == Init /\ [][Next]_vars
=============================================================================
