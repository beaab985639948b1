----------------------------- MODULE Onboarding -----------------------------
(***************************************************************************)
(* How accounts, organizations and memberships come to be:                 *)
(* AuthService.register with acceptInvitationInTransaction, and            *)
(* OrganizationsService.invite.                                            *)
(*                                                                         *)
(* A registration checks the e-mail, hashes the password, and then runs    *)
(* one Postgres transaction (Read Committed): its inserts are invisible to *)
(* others until it commits, but the unique index on users.email makes a    *)
(* second insert of the same e-mail wait, and fail once the first commits. *)
(* An organization is founded by exactly one registration and carries the  *)
(* e-mail of its founder as its name here.                                 *)
(***************************************************************************)
EXTENDS Naturals, FiniteSets

CONSTANTS
    Email,        \* e-mail addresses; also user rows and founded organizations
    Invitation,   \* invitation rows; also the token mailed with the row
    Request,      \* requests that can be in flight at the same time
    None

VARIABLES
    users,    \* e-mails with a user row
    seat,     \* seat[o][e] : the membership of e in organization o, or None
    inv,      \* inv[i] : the invitation row i
    mailed,   \* invitations whose token has been handed to the mail queue
    req,      \* req[r] : where the handler in slot r stands
    via       \* history: via[e] : the invitation e registered with, or None

vars == <<users, seat, inv, mailed, req, via>>

\* A few of the roles InviteMemberDto allows: org-wide and in one workspace.
Role == {"ORG_ADMIN", "ORG_MEMBER", "WS_VIEWER"}

\* OrganizationMembership.role and the role in the organization's workspace.
Seat == [org : {"OWNER", "ADMIN", "MEMBER"}, ws : {"ADMIN", "VIEWER", None}]

OwnerSeat == [org |-> "OWNER", ws |-> "ADMIN"]

InvitedSeat(role) ==
    [org |-> IF role = "ORG_ADMIN" THEN "ADMIN" ELSE "MEMBER",
     ws  |-> IF role = "WS_VIEWER" THEN "VIEWER" ELSE None]

InvStatus == {"unsent", "pending", "accepted", "expired"}

Pc == {"idle", "hashed", "founding", "accepting", "inviting"}

Idle == [pc |-> "idle", email |-> None, inv |-> None]

TypeOK ==
    /\ users \subseteq Email
    /\ seat \in [Email -> [Email -> Seat \cup {None}]]
    /\ inv \in [Invitation -> [status : InvStatus,
                               org : Email \cup {None}, role : Role]]
    /\ mailed \subseteq Invitation
    /\ req \in [Request -> [pc : Pc, email : Email \cup {None},
                            inv : Invitation \cup {None}]]
    /\ via \in [Email -> Invitation \cup {None}]
    /\ \A r \in Request :
        /\ req[r].pc \in {"hashed", "founding", "accepting"} => req[r].email # None
        /\ req[r].pc \in {"accepting", "inviting"} => req[r].inv # None

Init ==
    /\ users = {}
    /\ seat = [o \in Email |-> [e \in Email |-> None]]
    /\ inv = [i \in Invitation |->
                 [status |-> "unsent", org |-> None, role |-> "ORG_MEMBER"]]
    /\ mailed = {}
    /\ req = [r \in Request |-> Idle]
    /\ via = [e \in Email |-> None]

Goto(r, pc) == req' = [req EXCEPT ![r].pc = pc]
Finish(r) == req' = [req EXCEPT ![r] = Idle]

-----------------------------------------------------------------------------
(* register                                                                *)

\* The check for an existing user, outside the transaction; then the password
\* is validated and hashed.  A token is known to those it was mailed to.
Register(r, e, i) ==
    /\ req[r].pc = "idle"
    /\ e \notin users
    /\ i \in mailed \cup {None}
    /\ req' = [req EXCEPT ![r] = [pc |-> "hashed", email |-> e, inv |-> i]]
    /\ UNCHANGED <<users, seat, inv, mailed, via>>

\* Another transaction has inserted e and is still open.
Inserting(e) ==
    \E r \in Request : req[r].pc \in {"founding", "accepting"} /\ req[r].email = e

\* Mutant: there is no unique index, only the check in front.
InsertAnyway(r) ==
    LET q == req[r] IN
    /\ q.pc = "hashed"
    /\ \/ q.inv = None /\ Goto(r, "founding")
       \/ q.inv # None /\ inv[q.inv].status = "pending" /\ Goto(r, "accepting")
       \/ q.inv # None /\ inv[q.inv].status # "pending" /\ Finish(r)
    /\ UNCHANGED <<users, seat, inv, mailed, via>>

\* Mutant: the invitation is taken in a transaction of its own.
InsertAndTake(r) ==
    LET q == req[r] IN
    /\ q.pc = "hashed"
    /\ ~Inserting(q.email)
    /\ \/ /\ q.email \in users
          /\ Finish(r)
          /\ UNCHANGED inv
       \/ /\ q.email \notin users /\ q.inv = None
          /\ Goto(r, "founding")
          /\ UNCHANGED inv
       \/ /\ q.email \notin users /\ q.inv # None
          /\ inv[q.inv].status = "pending"
          /\ inv' = [inv EXCEPT ![q.inv].status = "accepted"]
          /\ Goto(r, "accepting")
       \/ /\ q.email \notin users /\ q.inv # None
          /\ inv[q.inv].status # "pending"
          /\ Finish(r)
          /\ UNCHANGED inv
    /\ UNCHANGED <<users, seat, mailed, via>>

\* tx.user.create and, with a token, the search for the pending invitation.
\* A taken e-mail or an invitation that is no longer pending rolls back.
Insert(r) ==
    LET q == req[r] IN
    /\ q.pc = "hashed"
    /\ ~Inserting(q.email)
    /\ \/ q.email \in users /\ Finish(r)
       \/ q.email \notin users /\ q.inv = None /\ Goto(r, "founding")
       \/ /\ q.email \notin users /\ q.inv # None
          /\ IF inv[q.inv].status = "pending" THEN Goto(r, "accepting") ELSE Finish(r)
    /\ UNCHANGED <<users, seat, inv, mailed, via>>

\* Commit with a new organization, its default workspace and its owner.
Found(r) ==
    LET e == req[r].email IN
    /\ req[r].pc = "founding"
    /\ users' = users \cup {e}
    /\ seat' = [seat EXCEPT ![e][e] = OwnerSeat]
    /\ Finish(r)
    /\ UNCHANGED <<inv, mailed, via>>

\* Mutant: the invitation stays pending.
AcceptOnly(r) ==
    LET e == req[r].email
        i == req[r].inv
    IN
    /\ req[r].pc = "accepting"
    /\ users' = users \cup {e}
    /\ seat' = [seat EXCEPT ![inv[i].org][e] = InvitedSeat(inv[i].role)]
    /\ via' = [via EXCEPT ![e] = i]
    /\ Finish(r)
    /\ UNCHANGED <<inv, mailed>>

\* Commit with the seats the invitation names (upserts, which never meet an
\* old seat of a user created in the same transaction) and the invitation
\* marked, whatever has become of it since it was read.
Accept(r) ==
    LET e == req[r].email
        i == req[r].inv
    IN
    /\ req[r].pc = "accepting"
    /\ users' = users \cup {e}
    /\ seat' = [seat EXCEPT ![inv[i].org][e] = InvitedSeat(inv[i].role)]
    /\ inv' = [inv EXCEPT ![i].status = "accepted"]
    /\ via' = [via EXCEPT ![e] = i]
    /\ Finish(r)
    /\ UNCHANGED mailed

(* invite                                                                  *)

\* PermissionGuard: member:invite is held by owners and admins of the org.
MayInvite(o, e) == seat[o][e] # None /\ seat[o][e].org \in {"OWNER", "ADMIN"}

Invite(r, o, e, role) ==
    /\ req[r].pc = "idle"
    /\ MayInvite(o, e)
    /\ \E i \in Invitation :
        /\ inv[i].status = "unsent"
        /\ inv' = [inv EXCEPT ![i] = [status |-> "pending", org |-> o, role |-> role]]
        /\ req' = [req EXCEPT ![r] = [pc |-> "inviting", email |-> None, inv |-> i]]
    /\ UNCHANGED <<users, seat, mailed, via>>

EnqueueInvitation(r) ==
    /\ req[r].pc = "inviting"
    /\ mailed' = mailed \cup {req[r].inv}
    /\ Finish(r)
    /\ UNCHANGED <<users, seat, inv, via>>

\* expiresAt passes; the row itself does not change.
InvitationExpires(i) ==
    /\ inv[i].status = "pending"
    /\ inv' = [inv EXCEPT ![i].status = "expired"]
    /\ UNCHANGED <<users, seat, mailed, req, via>>

\* The process dies, or the transaction is rolled back (a slug was taken at
\* the same time, the connection is lost): nothing of it remains.
Fail(r) ==
    /\ req[r].pc # "idle"
    /\ Finish(r)
    /\ UNCHANGED <<users, seat, inv, mailed, via>>

-----------------------------------------------------------------------------

Step(r) ==
    \/ Insert(r) \/ Found(r) \/ Accept(r) \/ EnqueueInvitation(r)

Next ==
    \/ \E r \in Request :
        \/ \E e \in Email, i \in Invitation \cup {None} : Register(r, e, i)
        \/ \E o, e \in Email, role \in Role : Invite(r, o, e, role)
        \/ Step(r)
        \/ Fail(r)
    \/ \E i \in Invitation : InvitationExpires(i)

Spec == Init /\ [][Next]_vars

-----------------------------------------------------------------------------
(* Properties.                                                             *)

Members(o) == {e \in Email : seat[o][e] # None}

\* Whatever registrations race or fail half way, a user sits in exactly one
\* organization: GET /organizations/current, which takes the first membership
\* and throws without one, is well defined.  And every organization with a member
\* has its founder as owner: the upsert of an acceptance never demotes the last
\* owner (assertNotLastOwner is not called on this path, nor on any other).
OneOrganizationEach ==
    /\ \A e \in users : \E o \in Email : \A p \in Email : e \in Members(p) <=> p = o
    /\ \A o \in Email : Members(o) # {} => seat[o][o] = OwnerSeat

\* No invitation is marked accepted without the seat it was for: it is never
\* burnt by a registration that failed.  And nobody but the founder sits in an
\* organization without an invitation that was accepted for that seat.
AcceptedIsSeated ==
    /\ \A i \in Invitation :
         inv[i].status = "accepted" =>
             \E e \in users : via[e] = i /\ seat[inv[i].org][e] = InvitedSeat(inv[i].role)
    /\ \A o, e \in Email :
         e \in Members(o) /\ e # o =>
             \E i \in Invitation :
                 /\ inv[i].status = "accepted"
                 /\ inv[i].org = o /\ seat[o][e] = InvitedSeat(inv[i].role)

\* docs/module-02-resume.md: register accepts the invitation token atomically:
\* one invitation lets in one user.
OneUserPerInvitation ==
    \A d, e \in users : via[d] = via[e] /\ via[d] # None => d = e
=============================================================================
