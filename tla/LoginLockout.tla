---------------------------- MODULE LoginLockout ----------------------------
(***************************************************************************)
(* The lockout of one account: AuthService.login and recordFailedLogin     *)
(* over the Redis counter failed_login:<email> of AuthRateLimitService and *)
(* the columns failedLoginAttempts and lockedUntil of the user's row,      *)
(* which resetPassword clears as well.                                     *)
(*                                                                         *)
(* Counter and row are separate stores and login goes back and forth       *)
(* between them: it reads the row, compares the password, and only then    *)
(* counts.  The account exists and its e-mail is verified; a login for an  *)
(* unknown e-mail moves a counter that no row is attached to.              *)
(***************************************************************************)
EXTENDS Naturals, FiniteSets

CONSTANTS
    Request,     \* logins that can be in flight at the same time
    Limit,       \* LOCKOUT_MAX_ATTEMPTS (5 in the code)
    Window,      \* LOCKOUT_WINDOW_SECONDS, in ticks
    MaxNow,      \* bound: ticks of the clock
    MaxResets,   \* bound: password resets
    MaxDeaths    \* bound: logins cut short by the death of their process

VARIABLES
    now,          \* the clock
    count,        \* the Redis counter, 0 when the key is absent
    expiry,       \* when the key expires, 0 when it has no TTL
    dirty,        \* failedLoginAttempts > 0
    lockedUntil,  \* User.lockedUntil, 0 for null
    req,          \* req[r] : where the login in slot r stands
    resets,       \* password resets so far
    lifts,        \* history: locks that ended since the counter was last at zero
    deaths,       \* history: logins that died since the counter was last at zero
    crashes       \* crashes so far

vars == <<now, count, expiry, dirty, lockedUntil, req, resets, lifts,
          deaths, crashes>>

history == <<lifts, deaths, crashes>>

Pc == {"idle", "compare", "expire", "record", "clear"}
Idle == [pc |-> "idle", flag |-> FALSE]

TypeOK ==
    /\ now \in 0..MaxNow
    /\ count \in Nat
    /\ expiry \in 0..(MaxNow + Window)
    /\ count = 0 => expiry = 0
    /\ dirty \in BOOLEAN
    /\ lockedUntil \in 0..(MaxNow + Window)
    /\ req \in [Request -> [pc : Pc, flag : BOOLEAN]]
    /\ resets \in 0..MaxResets
    /\ lifts \in Nat
    /\ deaths \in 0..crashes
    /\ crashes \in 0..MaxDeaths

Init ==
    /\ now = 0 /\ count = 0 /\ expiry = 0
    /\ dirty = FALSE /\ lockedUntil = 0
    /\ req = [r \in Request |-> Idle]
    /\ resets = 0 /\ lifts = 0 /\ deaths = 0 /\ crashes = 0

Goto(r, pc, flag) == req' = [req EXCEPT ![r] = [pc |-> pc, flag |-> flag]]
Finish(r) == req' = [req EXCEPT ![r] = Idle]

Locked == lockedUntil > now

\* The key is gone, or back at zero, and the history starts over.
CounterGone == count' = 0 /\ lifts' = 0 /\ deaths' = 0

\* The row is cleared; the history notes whether that ended a lock.
Unlock ==
    /\ dirty' = FALSE /\ lockedUntil' = 0
    /\ lifts' = IF Locked THEN lifts + 1 ELSE lifts

-----------------------------------------------------------------------------

\* user.findUnique: a locked account is refused, nothing is counted; otherwise
\* the row read decides later whether it is cleared.
Read(r) ==
    /\ req[r].pc = "idle"
    /\ ~Locked
    /\ Goto(r, "compare", dirty)
    /\ UNCHANGED <<now, count, expiry, dirty, lockedUntil, resets, history>>

\* The password is wrong: INCR; the first increment goes on to set the TTL,
\* the others know whether they exceed the limit.
Wrong(r) ==
    /\ req[r].pc = "compare"
    /\ count' = count + 1
    /\ IF count = 0 THEN Goto(r, "expire", FALSE)
                    ELSE Goto(r, "record", count + 1 > Limit)
    /\ UNCHANGED <<now, expiry, dirty, lockedUntil, resets, history>>

\* EXPIRE, which does nothing when the key has been deleted since.
Expire(r) ==
    /\ req[r].pc = "expire"
    /\ expiry' = IF count > 0 THEN now + Window ELSE 0
    /\ Goto(r, "record", 1 > Limit)
    /\ UNCHANGED <<now, count, dirty, lockedUntil, resets, history>>

\* Mutants: the lock is never written; it is half as long as the window.
RecordOnly(r) ==
    /\ req[r].pc = "record"
    /\ dirty' = TRUE
    /\ Finish(r)
    /\ UNCHANGED <<now, count, expiry, lockedUntil, resets, history>>

RecordShort(r) ==
    /\ req[r].pc = "record"
    /\ dirty' = TRUE
    /\ lockedUntil' = IF req[r].flag THEN now + Window \div 2 ELSE lockedUntil
    /\ Finish(r)
    /\ UNCHANGED <<now, count, expiry, resets, history>>

\* user.update: failedLoginAttempts + 1, and the lock if the limit is exceeded.
Record(r) ==
    /\ req[r].pc = "record"
    /\ dirty' = TRUE
    /\ lockedUntil' = IF req[r].flag THEN now + Window ELSE lockedUntil
    /\ Finish(r)
    /\ UNCHANGED <<now, count, expiry, resets, history>>

\* The password is right: DEL the counter; the row is cleared in the next step
\* if it was dirty when it was read.
Right(r) ==
    /\ req[r].pc = "compare"
    /\ expiry' = 0 /\ CounterGone
    /\ IF req[r].flag THEN Goto(r, "clear", FALSE) ELSE Finish(r)
    /\ UNCHANGED <<now, dirty, lockedUntil, resets, crashes>>

Clear(r) ==
    /\ req[r].pc = "clear"
    /\ Unlock
    /\ Finish(r)
    /\ UNCHANGED <<now, count, expiry, resets, deaths, crashes>>

\* The update of resetPassword: the row is cleared, the counter is not.
ResetPassword ==
    /\ resets < MaxResets
    /\ resets' = resets + 1
    /\ Unlock
    /\ UNCHANGED <<now, count, expiry, req, deaths, crashes>>

\* A tick is minutes long: a login does not last from one to the next.
Tick ==
    /\ now < MaxNow
    /\ \A r \in Request : req[r].pc = "idle"
    /\ now' = now + 1
    /\ IF expiry # 0 /\ expiry <= now + 1
       THEN expiry' = 0 /\ CounterGone
       ELSE /\ lifts' = IF Locked /\ lockedUntil <= now + 1 THEN lifts + 1 ELSE lifts
            /\ UNCHANGED <<count, expiry, deaths>>
    /\ UNCHANGED <<crashes, dirty, lockedUntil, req, resets>>

\* The process dies: the rest of the login never runs.
Crash(r) ==
    /\ req[r].pc # "idle"
    /\ crashes < MaxDeaths
    /\ crashes' = crashes + 1
    /\ deaths' = IF count > 0 THEN deaths + 1 ELSE deaths
    /\ Finish(r)
    /\ UNCHANGED <<now, count, expiry, dirty, lockedUntil, resets, lifts>>

Login(r) ==
    \/ Read(r) \/ Wrong(r) \/ Expire(r) \/ Record(r) \/ Right(r) \/ Clear(r)

Next ==
    \/ \E r \in Request : Login(r) \/ Crash(r)
    \/ ResetPassword
    \/ Tick

Spec == Init /\ [][Next]_vars

-----------------------------------------------------------------------------
(* Properties.                                                             *)

AllIdle == \A r \in Request : req[r].pc = "idle"

\* The read of the row, the counter and the lock are three steps, so logins in
\* flight overshoot the limit: each of them once before the lock falls, once
\* more for every time the lock ends (a good login or a password reset lifts
\* it, or a counter without TTL outlives it), and once for every login that
\* died before it could write the lock.  They never overshoot by more.
OvershootIsBounded ==
    count <= Limit + Cardinality(Request) * (lifts + 1) + deaths

\* The comment of AuthRateLimitService: INCR the key, set TTL on first
\* increment.  No counter stays in Redis for ever.  The code breaks it when
\* a login dies between the two calls.
CounterExpires == AllIdle /\ count > 0 => expiry # 0

\* When a lock has run out, the failures that led to it have expired too: the
\* owner comes back to a full set of attempts, because a window that is still
\* open began after the lock ended.  And only the death of the login that made
\* the first increment can leave a counter without TTL; a good login that deletes
\* the key in the middle of a failed one cannot.
FreshAfterLock ==
    AllIdle =>
        /\ lockedUntil # 0 /\ lockedUntil <= now /\ expiry # 0
               => expiry >= lockedUntil + Window
        /\ count > 0 /\ deaths = 0 => expiry # 0

\* docs/02-auth-user-management.md: five failed logins lock the account.
\* The code breaks it: the sixth does.
LimitLocks == AllIdle /\ count >= Limit /\ lifts = 0 => Locked
=============================================================================
