-------------------------- MODULE PermissionCache ---------------------------
(***************************************************************************)
(* PermissionResolver of one organization: the effective permissions of a  *)
(* user, cached in Redis, against the memberships they are computed from,  *)
(* and the two handlers that write memberships: AuthService.register       *)
(* (seats of new users) and OrganizationsService.createWorkspace.          *)
(*                                                                         *)
(* A permission set is a function of the two roles read, so the pair of    *)
(* roles stands for it.  The ioredis client puts keyPrefix in front of the *)
(* key arguments of GET, SETEX and DEL; it leaves the pattern of KEYS and  *)
(* the names KEYS returns alone.                                           *)
(***************************************************************************)
EXTENDS Naturals, Sequences

CONSTANTS
    User,
    Workspace,   \* workspaces the organization may come to have
    Request,     \* requests that can be in flight at the same time
    Prefix,      \* REDIS_PREFIX, "metaflow:" by default
    None

ASSUME NoneAssumption == None \notin User \cup Workspace \cup Request
ASSUME PrefixAssumption == Prefix \in STRING

VARIABLES
    orgRole,   \* orgRole[u] : OrganizationMembership.role, None without one
    wsRole,    \* wsRole[w][u] : WorkspaceMembership.role, None without one
    exists,    \* workspaces that have been created
    cache,     \* the perm: entries in Redis, by the name they are stored under
    req        \* req[r] : where the handler in slot r stands

vars == <<orgRole, wsRole, exists, cache, req>>

OrgRole == {"OWNER", "ADMIN", "MEMBER"}
WsRole == {"ADMIN", "MANAGER", "VIEWER"}

Scope == Workspace \cup {None}     \* None: the permissions of the organization
Perms == (OrgRole \cup {None}) \X (WsRole \cup {None})

\* A Redis name: what stands in front of perm:, and the parts of the key.
Name(p, u, s) == <<p, u, s>>
Stored(u, s) == Name(Prefix, u, s)
Names == {Stored(u, s) : u \in User, s \in Scope}

Pc == {"idle", "readOrg", "readWs", "store", "keys", "del", "audit"}
Idle == [pc |-> "idle", user |-> None, scope |-> None, org |-> None, ws |-> None,
         found |-> {}, had |-> {}]

TypeOK ==
    /\ orgRole \in [User -> OrgRole \cup {None}]
    /\ wsRole \in [Workspace -> [User -> WsRole \cup {None}]]
    /\ exists \subseteq Workspace
    /\ DOMAIN cache \subseteq Names
    /\ \A n \in DOMAIN cache : cache[n] \in Perms
    /\ req \in [Request -> [pc : Pc, user : User \cup {None}, scope : Scope,
                            org : OrgRole \cup {None}, ws : WsRole \cup {None},
                            found : SUBSET Names, had : SUBSET Names]]

Init ==
    /\ orgRole = [u \in User |-> None]
    /\ wsRole = [w \in Workspace |-> [u \in User |-> None]]
    /\ exists = {}
    /\ cache = [n \in {} |-> <<None, None>>]
    /\ req = [r \in Request |-> Idle]

WsRoleOf(u, s) == IF s = None THEN None ELSE wsRole[s][u]

\* What effectivePermissions would compute now.
Effective(u, s) == <<orgRole[u], WsRoleOf(u, s)>>

Goto(r, pc) == req' = [req EXCEPT ![r].pc = pc]
Finish(r) == req' = [req EXCEPT ![r] = Idle]

Without(names) == [n \in DOMAIN cache \ names |-> cache[n]]

-----------------------------------------------------------------------------
(* effectivePermissions: GET; on a miss read the membership rows one after *)
(* the other and SETEX.  A workspace is found by its slug, once it exists; *)
(* GET /users/me/permissions asks for it whether or not the user is in it. *)
(* A hit changes nothing.                                                  *)

Ask(r, u, s) ==
    /\ req[r].pc = "idle"
    /\ orgRole[u] # None
    /\ s \in exists \cup {None}
    /\ Stored(u, s) \notin DOMAIN cache
    /\ req' = [req EXCEPT ![r] = [Idle EXCEPT !.pc = "readOrg", !.user = u, !.scope = s]]
    /\ UNCHANGED <<orgRole, wsRole, exists, cache>>

ReadOrg(r) ==
    /\ req[r].pc = "readOrg"
    /\ req' = [req EXCEPT ![r].org = orgRole[req[r].user],
                          ![r].pc = IF req[r].scope = None THEN "store" ELSE "readWs"]
    /\ UNCHANGED <<orgRole, wsRole, exists, cache>>

ReadWs(r) ==
    /\ req[r].pc = "readWs"
    /\ req' = [req EXCEPT ![r].ws = WsRoleOf(req[r].user, req[r].scope),
                          ![r].pc = "store"]
    /\ UNCHANGED <<orgRole, wsRole, exists, cache>>

Store(r) ==
    LET q == req[r]
        n == Stored(q.user, q.scope)
    IN
    /\ q.pc = "store"
    /\ cache' = [m \in DOMAIN cache \cup {n} |->
                    IF m = n THEN <<q.org, q.ws>> ELSE cache[m]]
    /\ Finish(r)
    /\ UNCHANGED <<orgRole, wsRole, exists>>

\* 60 seconds after SETEX.
EntryExpires(n) ==
    /\ n \in DOMAIN cache
    /\ cache' = Without({n})
    /\ UNCHANGED <<orgRole, wsRole, exists, req>>

(* The writers of memberships.                                             *)

\* The commit of a registration: founder, or seated by an invitation, for the
\* organization or, as its member, for a workspace.
Register(u) ==
    /\ orgRole[u] = None
    /\ \/ /\ \A v \in User : orgRole[v] = None
          /\ orgRole' = [orgRole EXCEPT ![u] = "OWNER"]
          /\ \E w \in Workspace :
                /\ exists' = {w}
                /\ wsRole' = [wsRole EXCEPT ![w][u] = "ADMIN"]
       \/ /\ \E v \in User : orgRole[v] # None
          /\ \/ /\ \E role \in {"ADMIN", "MEMBER"} : orgRole' = [orgRole EXCEPT ![u] = role]
                /\ UNCHANGED wsRole
             \/ /\ orgRole' = [orgRole EXCEPT ![u] = "MEMBER"]
                /\ \E w \in exists, role \in WsRole : wsRole' = [wsRole EXCEPT ![w][u] = role]
          /\ UNCHANGED exists
    /\ UNCHANGED <<cache, req>>

MayCreate(u) == orgRole[u] \in {"OWNER", "ADMIN"}

\* Mutant: the membership is written after the workspace has been committed,
\* and the invalidation that follows is relied upon.
CreateThenJoin(r, u, w) ==
    \/ /\ req[r].pc = "idle"
       /\ MayCreate(u)
       /\ w \notin exists
       /\ exists' = exists \cup {w}
       /\ UNCHANGED <<orgRole, wsRole, cache, req>>
    \/ /\ req[r].pc = "idle"
       /\ MayCreate(u)
       /\ w \in exists
       /\ \A v \in User : wsRole[w][v] = None
       /\ wsRole' = [wsRole EXCEPT ![w][u] = "ADMIN"]
       /\ req' = [req EXCEPT ![r] = [Idle EXCEPT !.pc = "keys", !.user = u]]
       /\ UNCHANGED <<orgRole, exists, cache>>

\* The transaction of createWorkspace: the row and its first membership.
CreateWorkspace(r, u, w) ==
    /\ req[r].pc = "idle"
    /\ MayCreate(u)
    /\ w \notin exists
    /\ exists' = exists \cup {w}
    /\ wsRole' = [wsRole EXCEPT ![w][u] = "ADMIN"]
    /\ req' = [req EXCEPT ![r] = [Idle EXCEPT !.pc = "keys", !.user = u]]
    /\ UNCHANGED <<orgRole, cache>>

\* invite writes no membership; it invalidates the inviter all the same.
Invite(r, u) ==
    /\ req[r].pc = "idle"
    /\ MayCreate(u)
    /\ req' = [req EXCEPT ![r] = [Idle EXCEPT !.pc = "keys", !.user = u]]
    /\ UNCHANGED <<orgRole, wsRole, exists, cache>>

\* KEYS perm:<userId>:* matches names with nothing in front of perm:.  What
\* the user had at that moment is noted for InvalidateClears.
Keys(r) ==
    LET had == {n \in DOMAIN cache : n[2] = req[r].user} IN
    /\ req[r].pc = "keys"
    /\ req' = [req EXCEPT ![r].pc = "del", ![r].had = had,
                          ![r].found = {n \in had : n[1] = ""}]
    /\ UNCHANGED <<orgRole, wsRole, exists, cache>>

\* DEL puts the prefix in front of the names it is given.
Del(r) ==
    /\ req[r].pc = "del"
    /\ cache' = Without({Name(Prefix \o n[1], n[2], n[3]) : n \in req[r].found})
    /\ Goto(r, "audit")
    /\ UNCHANGED <<orgRole, wsRole, exists>>

\* audit.record, and the answer.
Audit(r) ==
    /\ req[r].pc = "audit"
    /\ Finish(r)
    /\ UNCHANGED <<orgRole, wsRole, exists, cache>>

\* The process dies: the rest of the handler never runs.
Crash(r) ==
    /\ req[r].pc # "idle"
    /\ Finish(r)
    /\ UNCHANGED <<orgRole, wsRole, exists, cache>>

-----------------------------------------------------------------------------

Step(r) == ReadOrg(r) \/ ReadWs(r) \/ Store(r) \/ Keys(r) \/ Del(r) \/ Audit(r)

Next ==
    \/ \E u \in User : Register(u)
    \/ \E r \in Request :
        \/ \E u \in User, s \in Scope : Ask(r, u, s)
        \/ \E u \in User, w \in Workspace : CreateWorkspace(r, u, w)
        \/ \E u \in User : Invite(r, u)
        \/ Step(r)
        \/ Crash(r)
    \/ \E n \in Names : EntryExpires(n)

Spec == Init /\ [][Next]_vars

-----------------------------------------------------------------------------
(* Properties.                                                             *)

\* A cached permission set is always the one the memberships give, although
\* register invalidates nothing, a crash can skip the invalidation, a fill in
\* flight can outlive it and the invalidation itself may find no key: every
\* membership is committed together with the user or the workspace it is
\* about, before anybody can have asked for that pair.
CacheIsExact ==
    \A u \in User, s \in Scope :
        Stored(u, s) \in DOMAIN cache => cache[Stored(u, s)] = Effective(u, s)

\* permission-resolver.service.ts: role and membership writes call
\* invalidate(userId); docs/module-02-resume.md: the cache is invalidated on
\* role-change writes.  The entries the user had are gone after the call.
InvalidateClears ==
    [][\A r \in Request :
        req[r].pc = "del" /\ req'[r].pc = "audit" => req[r].had \cap DOMAIN cache' = {}]_vars
=============
