---------------------------- MODULE AccountTokens -----------------------------
(***************************************************************************)
(* The two links that AuthService mails to the owner of an account, one to *)
(* verify the e-mail (register, resendVerification, verifyEmail) and one   *)
(* to reset the password (forgotPassword, resetPassword), with the queue   *)
(* and the worker that mail them (EmailService, EmailProcessor).           *)
(*                                                                         *)
(* The user's row has one column per kind of link for the hash of the      *)
(* newest token.  It is written in one round trip and the mail is queued   *)
(* in another; a token is looked up in one and cleared, by the id of the   *)
(* user, in another, with the hashing of a password in between.            *)
(***************************************************************************)
EXTENDS Naturals, FiniteSets

CONSTANTS
    Request,      \* requests that can be in flight at the same time
    MaxToken,     \* bound: tokens of each kind
    None

ASSUME MaxTokenAssumption == MaxToken \in Nat \ {0}

Kind == {"verify", "reset"}
Token == 1..MaxToken     \* in the order in which they were written
Link == Kind \X Token

VARIABLES
    issued,    \* issued[k] : tokens of kind k written so far
    column,    \* column[k] : emailVerifyToken or passwordResetToken, 0 for null
    stale,     \* kinds whose column has outlived its ExpiresAt
    verified,  \* emailVerifiedAt is set
    queue,     \* jobs of the e-mail queue that are not over
    mail,      \* links that have arrived
    req,       \* req[r] : where the handler in slot r stands
    uses       \* history: uses[l] : requests that l has let through to the end

vars == <<issued, column, stale, verified, queue, mail, req, uses>>

Pc == {"idle", "write", "enqueue", "commit"}
Idle == [pc |-> "idle", kind |-> None, tok |-> 0]

TypeOK ==
    /\ issued \in [Kind -> 0..MaxToken]
    /\ column \in [Kind -> 0..MaxToken]
    /\ \A k \in Kind : column[k] <= issued[k]
    /\ stale \subseteq {k \in Kind : column[k] # 0}
    /\ verified \in BOOLEAN
    /\ queue \subseteq Link /\ mail \subseteq Link
    /\ req \in [Request -> [pc : Pc, kind : Kind \cup {None}, tok : 0..MaxToken]]
    /\ uses \in [Link -> Nat]

Init ==
    /\ issued = [k \in Kind |-> 0] /\ column = [k \in Kind |-> 0]
    /\ stale = {} /\ verified = FALSE
    /\ queue = {} /\ mail = {}
    /\ req = [r \in Request |-> Idle]
    /\ uses = [l \in Link |-> 0]

Start(r, pc, k, t) ==
    req[r].pc = "idle" /\ req' = [req EXCEPT ![r] = [pc |-> pc, kind |-> k, tok |-> t]]
Finish(r) == req' = [req EXCEPT ![r] = Idle]

\* The account exists.
Registered == issued["verify"] > 0

links == <<issued, column, stale, verified>>
post == <<queue, mail>>

-----------------------------------------------------------------------------
(* Asking for a link.                                                      *)

\* A fresh token and its ExpiresAt go into the column, whatever is there.
WriteToken(r, k) ==
    /\ issued[k] < MaxToken
    /\ issued' = [issued EXCEPT ![k] = @ + 1]
    /\ column' = [column EXCEPT ![k] = issued[k] + 1]
    /\ stale' = stale \ {k}
    /\ req' = [req EXCEPT ![r] = [pc |-> "enqueue", kind |-> k, tok |-> issued[k] + 1]]
    /\ UNCHANGED <<verified, post, uses>>

\* The commit of register; the mail is queued after it.
Register(r) ==
    /\ req[r].pc = "idle"
    /\ ~Registered
    /\ WriteToken(r, "verify")

\* resendVerification answers the same to a verified user, and does nothing.
Resend(r) ==
    /\ Registered
    /\ ~verified
    /\ Start(r, "write", "verify", 0)
    /\ UNCHANGED <<links, post, uses>>

Forgot(r) ==
    /\ Registered
    /\ Start(r, "write", "reset", 0)
    /\ UNCHANGED <<links, post, uses>>

Write(r) == req[r].pc = "write" /\ WriteToken(r, req[r].kind)

Enqueue(r) ==
    /\ req[r].pc = "enqueue"
    /\ queue' = queue \cup {<<req[r].kind, req[r].tok>>}
    /\ Finish(r)
    /\ UNCHANGED <<links, mail, uses>>

-----------------------------------------------------------------------------
(* Using a link: verifyEmail and resetPassword.                            *)

\* findFirst by the hash, among those that have not expired.
Use(r, l) ==
    /\ l \in mail
    /\ column[l[1]] = l[2] /\ l[1] \notin stale
    /\ Start(r, "commit", l[1], l[2])
    /\ UNCHANGED <<links, post, uses>>

\* Mutant: the update leaves the token where it is.
CommitKeepsToken(r) ==
    LET l == <<req[r].kind, req[r].tok>> IN
    /\ req[r].pc = "commit"
    /\ verified' = (verified \/ l[1] = "verify")
    /\ uses' = [uses EXCEPT ![l] = @ + 1]
    /\ Finish(r)
    /\ UNCHANGED <<issued, column, stale, post>>

\* Mutant: the update clears both columns of the user.
CommitClearsBoth(r) ==
    LET l == <<req[r].kind, req[r].tok>> IN
    /\ req[r].pc = "commit"
    /\ column' = [k \in Kind |-> 0]
    /\ stale' = {}
    /\ verified' = (verified \/ l[1] = "verify")
    /\ uses' = [uses EXCEPT ![l] = @ + 1]
    /\ Finish(r)
    /\ UNCHANGED <<issued, post>>

\* user.update by id: the column is cleared, whichever token it has by now.
Commit(r) ==
    LET l == <<req[r].kind, req[r].tok>> IN
    /\ req[r].pc = "commit"
    /\ column' = [column EXCEPT ![l[1]] = 0]
    /\ stale' = stale \ {l[1]}
    /\ verified' = (verified \/ l[1] = "verify")
    /\ uses' = [uses EXCEPT ![l] = @ + 1]
    /\ Finish(r)
    /\ UNCHANGED <<issued, post>>

\* 24 hours for a verification, one for a reset.
Expire(k) ==
    /\ column[k] # 0 /\ k \notin stale
    /\ stale' = stale \cup {k}
    /\ UNCHANGED <<issued, column, verified, post, req, uses>>

\* The process dies, Redis is down at queue.add, or the password is too weak.
Crash(r) ==
    /\ req[r].pc # "idle"
    /\ Finish(r)
    /\ UNCHANGED <<links, post, uses>>

-----------------------------------------------------------------------------
(* The worker.                                                             *)

\* The job is over: the mail has gone out, or resend has answered with an
\* error that nobody looks at, or the last attempt has failed.
Send(l) ==
    /\ l \in queue
    /\ queue' = queue \ {l}
    /\ mail' \in {mail, mail \cup {l}}
    /\ UNCHANGED <<links, req, uses>>

\* The call throws or the worker dies after the mail has gone, and the job
\* stays for another attempt.
SendFails(l) ==
    /\ l \in queue
    /\ mail' = mail \cup {l}
    /\ UNCHANGED <<links, queue, req, uses>>

-----------------------------------------------------------------------------

Step(r) == Write(r) \/ Enqueue(r) \/ Commit(r)
Work(l) == Send(l) \/ SendFails(l)

Next ==
    \/ \E r \in Request :
        \/ Register(r) \/ Resend(r) \/ Forgot(r)
        \/ \E l \in Link : Use(r, l)
        \/ Step(r)
        \/ Crash(r)
    \/ \E k \in Kind : Expire(k)
    \/ \E l \in Link : Work(l)

Spec == Init /\ [][Next]_vars

-----------------------------------------------------------------------------
(* Properties.                                                             *)

Spent(l) == uses[l] > 0

\* A link that has done its work is dead: no column has its token, whatever
\* requests for a new one overlap with its use, and so no request that comes
\* later is let through by it (verifyEmail, resetPassword).
SpentLinkIsDead == \A l \in Link : Spent(l) => column[l[1]] # l[2]

\* The columns are cleared once, by those requests that looked a link up.
LinkUsedOnce == \A l \in Link : uses[l] <= 1

\* Nobody is locked out of a new account: as long as the e-mail is not
\* verified, the column has the newest token, so the newest link works until
\* it expires, and resendVerification makes another.
UnverifiedLinkIsLive ==
    Registered /\ ~verified => column["verify"] = issued["verify"]

\* The newest reset link works until it is used.
NewestResetWorks ==
    LET n == issued["reset"] IN
    n > 0 /\ ~Spent(<<"reset", n>>) => column["reset"] = n
=============================================================================
