----------------------- MODULE PermissionCacheProofs ------------------------
(***************************************************************************)
(* A cached permission set is exact, for any number of users, workspaces   *)
(* and requests in flight, and whatever the key prefix: the argument never *)
(* uses that invalidate deletes anything.                                  *)
(* With the roles that users come to have, every page works for whoever is *)
(* let in, and the duties are split: what the tables of AccessControl and  *)
(* WebPages give for a pair of roles, panel by panel and route by route.   *)
(***************************************************************************)
EXTENDS MCPermissionCache, TLAPS

Filling == {"readOrg", "readWs", "store"}

\* Nobody fills the cache for a pair of user and scope whose memberships could
\* still be written, and what has been read of them is what they are.
FillOK(q) ==
    /\ q.pc \in Filling =>
        /\ q.user \in User
        /\ orgRole[q.user] # None
        /\ q.scope \in exists \cup {None}
    /\ q.pc = "readOrg" => q.ws = None
    /\ q.pc = "readWs" => q.org = orgRole[q.user] /\ q.scope # None
    /\ q.pc = "store" => <<q.org, q.ws>> = Effective(q.user, q.scope)

FillsAreExact == \A r \in Request : FillOK(req[r])

\* An entry is about such a pair as well.
EntryOK(u, s) ==
    /\ orgRole[u] # None
    /\ s \in exists \cup {None}
    /\ cache[Stored(u, s)] = Effective(u, s)

EntriesAreExact ==
    \A u \in User, s \in Scope : Stored(u, s) \in DOMAIN cache => EntryOK(u, s)

IInv == TypeOK /\ FillsAreExact /\ EntriesAreExact

ReqState == [pc : Pc, user : User \cup {None}, scope : Scope,
             org : OrgRole \cup {None}, ws : WsRole \cup {None},
             found : SUBSET Names, had : SUBSET Names]

CacheOK == DOMAIN cache \subseteq Names /\ \A n \in DOMAIN cache : cache[n] \in Perms

-----------------------------------------------------------------------------

\* Two entries of the cache have the same name only if they are about the same
\* user and scope.
LEMMA StoredInjective ==
    ASSUME NEW u, NEW s, NEW v, NEW t, Stored(u, s) = Stored(v, t)
    PROVE  u = v /\ s = t
BY DEF Stored, Name

\* A permission set computed from the memberships is a pair of roles.
LEMMA EffectiveType ==
    ASSUME TypeOK, NEW u \in User, NEW s \in Scope
    PROVE  Effective(u, s) \in Perms
BY DEF TypeOK, Effective, WsRoleOf, Perms, Scope

\* The steps that leave memberships and cache alone and move one request: the
\* invariant is about that request only.
LEMMA RequestMoves ==
    ASSUME IInv, NEW r \in Request, NEW q \in ReqState,
           req' = [req EXCEPT ![r] = q], FillOK(q),
           UNCHANGED <<orgRole, wsRole, exists, cache>>
    PROVE  IInv'
<1>1. TypeOK'
  BY DEF IInv, TypeOK, ReqState
<1>2. ASSUME NEW p \in Request PROVE FillOK(req[p])'
  <2>1. req'[p] = IF p = r THEN q ELSE req[p]
    BY DEF IInv, TypeOK
  <2>2. FillOK(req'[p])
    BY <2>1 DEF IInv, FillsAreExact
  <2>3. QED BY <2>2 DEF FillOK, Effective, WsRoleOf
<1>3. EntriesAreExact'
  BY DEF IInv, EntriesAreExact, EntryOK, Effective, WsRoleOf, Stored, Name
<1>4. QED BY <1>1, <1>2, <1>3 DEF IInv, FillsAreExact

\* A request record is well formed, in the form the lemmas use.
LEMMA ReqType ==
    ASSUME TypeOK, NEW r \in Request
    PROVE  req[r] \in ReqState
BY DEF TypeOK, ReqState

LEMMA IdleOK == Idle \in ReqState /\ FillOK(Idle)
BY DEF Idle, ReqState, Pc, Scope, FillOK, Filling

\* A request that ends leaves nothing in flight.
LEMMA FinishOK ==
    ASSUME IInv, NEW r \in Request, Finish(r),
           UNCHANGED <<orgRole, wsRole, exists, cache>>
    PROVE  IInv'
BY IdleOK, RequestMoves DEF Finish

-----------------------------------------------------------------------------
(* The invariant holds initially, and every step preserves it.             *)

LEMMA InitOK == Init => IInv
<1> SUFFICES ASSUME Init PROVE IInv
  OBVIOUS
<1>1. cache = [n \in {} |-> <<None, None>>] /\ DOMAIN cache = {}
  BY DEF Init
<1>2. req \in [Request -> ReqState]
  BY IdleOK DEF Init
<1>3. TypeOK
  BY <1>1, <1>2 DEF Init, TypeOK, ReqState
<1>4. FillsAreExact
  BY IdleOK DEF Init, FillsAreExact
<1>5. QED BY <1>1, <1>3, <1>4 DEF IInv, EntriesAreExact

LEMMA AskOK ==
    ASSUME IInv, NEW r \in Request, NEW u \in User, NEW s \in Scope, Ask(r, u, s)
    PROVE  IInv'
<1> DEFINE q == [Idle EXCEPT !.pc = "readOrg", !.user = u, !.scope = s]
<1>1. q \in ReqState
  BY IdleOK DEF Idle, ReqState, Pc
<1>2. FillOK(q)
  BY DEF Ask, Idle, FillOK, Filling
<1>3. QED BY <1>1, <1>2, RequestMoves DEF Ask

LEMMA ReadOrgOK ==
    ASSUME IInv, NEW r \in Request, ReadOrg(r)
    PROVE  IInv'
<1> DEFINE q == [req[r] EXCEPT !.org = orgRole[req[r].user],
                               !.pc = IF req[r].scope = None THEN "store" ELSE "readWs"]
<1>1. FillOK(req[r]) /\ req[r] \in ReqState /\ req[r].pc = "readOrg"
  BY ReqType DEF IInv, FillsAreExact, ReadOrg
<1>2. orgRole[req[r].user] \in OrgRole \cup {None}
  BY <1>1 DEF IInv, TypeOK, FillOK, Filling
<1>3. q \in ReqState
  BY <1>1, <1>2 DEF ReqState, Pc
<1>4. FillOK(q)
  BY <1>1 DEF FillOK, Filling, Effective, WsRoleOf, ReqState
<1>5. req' = [req EXCEPT ![r] = q]
  BY <1>1 DEF ReadOrg, IInv, TypeOK, ReqState
<1>6. QED BY <1>3, <1>4, <1>5, RequestMoves DEF ReadOrg

LEMMA ReadWsOK ==
    ASSUME IInv, NEW r \in Request, ReadWs(r)
    PROVE  IInv'
<1> DEFINE q == [req[r] EXCEPT !.ws = WsRoleOf(req[r].user, req[r].scope), !.pc = "store"]
<1>1. FillOK(req[r]) /\ req[r] \in ReqState /\ req[r].pc = "readWs"
  BY ReqType DEF IInv, FillsAreExact, ReadWs
<1>2. WsRoleOf(req[r].user, req[r].scope) \in WsRole \cup {None}
  BY <1>1 DEF IInv, TypeOK, FillOK, Filling, WsRoleOf
<1>3. q \in ReqState
  BY <1>1, <1>2 DEF ReqState, Pc
<1>4. FillOK(q)
  BY <1>1 DEF FillOK, Filling, Effective, ReqState
<1>5. req' = [req EXCEPT ![r] = q]
  BY <1>1 DEF ReadWs, IInv, TypeOK, ReqState
<1>6. QED BY <1>3, <1>4, <1>5, RequestMoves DEF ReadWs

\* An entry written is exact because the request that writes it is.
LEMMA StoreOK ==
    ASSUME IInv, NEW r \in Request, Store(r)
    PROVE  IInv'
<1> DEFINE q == req[r]
<1> DEFINE n == Stored(q.user, q.scope)
<1>1. FillOK(q) /\ q \in ReqState /\ q.pc = "store"
  BY ReqType DEF IInv, FillsAreExact, Store
<1>2. q.user \in User /\ q.scope \in Scope /\ q.scope \in exists \cup {None}
      /\ orgRole[q.user] # None
  BY <1>1 DEF FillOK, Filling, ReqState
<1>3. <<q.org, q.ws>> = Effective(q.user, q.scope) /\ Effective(q.user, q.scope) \in Perms
  BY <1>1, <1>2, EffectiveType DEF FillOK, IInv
<1>4. DOMAIN cache' = DOMAIN cache \cup {n}
  BY DEF Store
<1>5. \A m \in DOMAIN cache' : cache'[m] = IF m = n THEN <<q.org, q.ws>> ELSE cache[m]
  BY DEF Store
<1>6. n \in Names
  BY <1>2 DEF Names
<1>7. CacheOK'
  BY <1>3, <1>4, <1>5, <1>6 DEF CacheOK, IInv, TypeOK
<1>8. req' \in [Request -> ReqState]
  BY IdleOK DEF Store, Finish, IInv, TypeOK, ReqState
<1>9. TypeOK'
  BY <1>7, <1>8 DEF Store, IInv, TypeOK, ReqState, CacheOK
<1>10. FillsAreExact'
  <2> SUFFICES ASSUME NEW p \in Request PROVE FillOK(req[p])'
    BY DEF FillsAreExact
  <2>1. FillOK(req'[p])
    BY IdleOK DEF Store, Finish, IInv, TypeOK, FillsAreExact
  <2>2. QED BY <2>1 DEF Store, FillOK, Effective, WsRoleOf
<1>11. EntriesAreExact'
  <2> SUFFICES ASSUME NEW u \in User, NEW s \in Scope, Stored(u, s) \in DOMAIN cache'
               PROVE  EntryOK(u, s)'
    BY DEF EntriesAreExact, Stored, Name
  <2>1. UNCHANGED <<orgRole, wsRole, exists>>
    BY DEF Store
  <2>2. CASE Stored(u, s) = n
    <3>1. u = q.user /\ s = q.scope
      BY <2>2, StoredInjective
    <3>2. cache'[Stored(u, s)] = Effective(u, s)
      BY <2>2, <3>1, <1>3, <1>5
    <3>3. QED BY <1>2, <2>1, <3>1, <3>2 DEF EntryOK, Effective, WsRoleOf, Stored, Name
  <2>3. CASE Stored(u, s) # n
    <3>1. Stored(u, s) \in DOMAIN cache /\ cache'[Stored(u, s)] = cache[Stored(u, s)]
      BY <2>3, <1>4, <1>5
    <3>2. EntryOK(u, s)
      BY <3>1 DEF IInv, EntriesAreExact
    <3>3. QED BY <2>1, <3>1, <3>2 DEF EntryOK, Effective, WsRoleOf, Stored, Name
  <2>4. QED BY <2>2, <2>3
<1>12. QED BY <1>9, <1>10, <1>11 DEF IInv

\* Taking entries away, by expiry or by DEL, leaves the others exact.
LEMMA WithoutOK ==
    ASSUME IInv, NEW names, cache' = Without(names),
           req' \in [Request -> ReqState], \A r \in Request : FillOK(req'[r]),
           UNCHANGED <<orgRole, wsRole, exists>>
    PROVE  IInv'
<1>1. DOMAIN cache' \subseteq DOMAIN cache /\ \A n \in DOMAIN cache' : cache'[n] = cache[n]
  BY DEF Without
<1>2. TypeOK'
  BY <1>1 DEF IInv, TypeOK, ReqState
<1>3. FillsAreExact'
  BY DEF FillsAreExact, FillOK, Effective, WsRoleOf
<1>4. EntriesAreExact'
  BY <1>1 DEF IInv, EntriesAreExact, EntryOK, Effective, WsRoleOf, Stored, Name
<1>5. QED BY <1>2, <1>3, <1>4 DEF IInv

LEMMA EntryExpiresOK ==
    ASSUME IInv, NEW n, EntryExpires(n)
    PROVE  IInv'
<1>1. req' \in [Request -> ReqState] /\ \A r \in Request : FillOK(req'[r])
  BY DEF EntryExpires, IInv, TypeOK, ReqState, FillsAreExact
<1>2. QED BY <1>1, WithoutOK DEF EntryExpires

LEMMA DelOK ==
    ASSUME IInv, NEW r \in Request, Del(r)
    PROVE  IInv'
<1> DEFINE q == [req[r] EXCEPT !.pc = "audit"]
<1>1. q \in ReqState /\ FillOK(q)
  BY ReqType DEF IInv, ReqState, Pc, FillOK, Filling
<1>2. req' = [req EXCEPT ![r] = q]
  BY DEF Del, Goto
<1>3. req' \in [Request -> ReqState]
  BY <1>1, <1>2 DEF IInv, TypeOK, ReqState
<1>4. ASSUME NEW p \in Request PROVE FillOK(req'[p])
  <2>1. req'[p] = IF p = r THEN q ELSE req[p]
    BY <1>2 DEF IInv, TypeOK
  <2>2. QED BY <2>1, <1>1 DEF IInv, FillsAreExact
<1>5. QED BY <1>3, <1>4, WithoutOK DEF Del

\* A new member: nothing in the cache or in flight is about that user.
LEMMA RegisterOK ==
    ASSUME IInv, NEW u \in User, Register(u)
    PROVE  IInv'
<1>1. UNCHANGED <<cache, req>>
  BY DEF Register
<1>2. TypeOK'
  <2>1. orgRole' \in [User -> OrgRole \cup {None}]
    BY DEF Register, IInv, TypeOK, OrgRole
  <2>2. wsRole' \in [Workspace -> [User -> WsRole \cup {None}]]
    BY DEF Register, IInv, TypeOK, WsRole
  <2>3. exists' \subseteq Workspace
    BY DEF Register, IInv, TypeOK
  <2>4. QED BY <1>1, <2>1, <2>2, <2>3 DEF IInv, TypeOK
<1>3. ASSUME NEW v \in User, orgRole[v] # None, NEW s \in Scope, s \in exists \cup {None}
      PROVE  orgRole'[v] = orgRole[v] /\ s \in exists' \cup {None}
             /\ Effective(v, s)' = Effective(v, s)
  <2>1. v # u /\ orgRole'[v] = orgRole[v]
    BY <1>3 DEF Register, IInv, TypeOK
  <2>2. exists' = exists
    BY <1>3 DEF Register
  <2>3. \A w \in Workspace : wsRole'[w][v] = wsRole[w][v]
    BY <2>1, <1>3 DEF Register, IInv, TypeOK
  <2>4. QED BY <2>1, <2>2, <2>3, <1>3 DEF Effective, WsRoleOf, Scope
<1>4. FillsAreExact'
  <2> SUFFICES ASSUME NEW p \in Request PROVE FillOK(req[p])'
    BY DEF FillsAreExact
  <2>1. FillOK(req[p]) /\ req[p] \in ReqState
    BY ReqType DEF IInv, FillsAreExact
  <2>2. CASE req[p].pc \in Filling
    <3>1. /\ req[p].user \in User /\ orgRole[req[p].user] # None
          /\ req[p].scope \in Scope /\ req[p].scope \in exists \cup {None}
      BY <2>1, <2>2 DEF FillOK, ReqState
    <3>2. /\ orgRole'[req[p].user] = orgRole[req[p].user]
          /\ req[p].scope \in exists' \cup {None}
          /\ Effective(req[p].user, req[p].scope)' = Effective(req[p].user, req[p].scope)
      BY <1>1, <1>3, <3>1
    <3>3. QED BY <1>1, <2>1, <3>1, <3>2 DEF FillOK
  <2>3. CASE req[p].pc \notin Filling
    BY <1>1, <2>3 DEF FillOK, Filling
  <2>4. QED BY <2>2, <2>3
<1>5. EntriesAreExact'
  <2> SUFFICES ASSUME NEW v \in User, NEW s \in Scope, Stored(v, s) \in DOMAIN cache
               PROVE  EntryOK(v, s)'
    BY <1>1 DEF EntriesAreExact, Stored, Name
  <2>1. EntryOK(v, s)
    BY DEF IInv, EntriesAreExact
  <2>2. QED BY <1>1, <1>3, <2>1 DEF EntryOK, Stored, Name
<1>6. QED BY <1>2, <1>4, <1>5 DEF IInv

\* A new workspace: nothing in the cache or in flight is about it.
LEMMA CreateWorkspaceOK ==
    ASSUME IInv, NEW r \in Request, NEW u \in User, NEW w \in Workspace,
           CreateWorkspace(r, u, w)
    PROVE  IInv'
<1> DEFINE q == [Idle EXCEPT !.pc = "keys", !.user = u]
<1>1. q \in ReqState /\ q.pc \notin Filling
  BY IdleOK DEF Idle, ReqState, Pc, Filling
<1>2. req' = [req EXCEPT ![r] = q] /\ UNCHANGED <<orgRole, cache>>
  BY DEF CreateWorkspace
<1>3. TypeOK'
  <2>1. wsRole' \in [Workspace -> [User -> WsRole \cup {None}]]
    BY DEF CreateWorkspace, IInv, TypeOK, WsRole
  <2>2. QED BY <1>1, <1>2, <2>1 DEF CreateWorkspace, IInv, TypeOK, ReqState
<1>4. ASSUME NEW v \in User, NEW s \in Scope, s \in exists \cup {None}
      PROVE  s \in exists' \cup {None} /\ Effective(v, s)' = Effective(v, s)
  <2>1. s \in exists' \cup {None}
    BY <1>4 DEF CreateWorkspace
  <2>2. s # None => wsRole'[s][v] = wsRole[s][v]
    BY <1>4, NoneAssumption DEF CreateWorkspace, IInv, TypeOK, Scope
  <2>3. QED BY <1>2, <2>1, <2>2 DEF Effective, WsRoleOf
<1>5. FillsAreExact'
  <2> SUFFICES ASSUME NEW p \in Request PROVE FillOK(req[p])'
    BY DEF FillsAreExact
  <2>1. req'[p] = IF p = r THEN q ELSE req[p]
    BY <1>2 DEF IInv, TypeOK
  <2>2. FillOK(req[p]) /\ req[p] \in ReqState
    BY ReqType DEF IInv, FillsAreExact
  <2>3. CASE req'[p].pc \in Filling
    <3>1. req'[p] = req[p] /\ req[p].pc \in Filling
      BY <1>1, <2>1, <2>3
    <3>2. /\ req[p].user \in User /\ orgRole[req[p].user] # None
          /\ req[p].scope \in Scope /\ req[p].scope \in exists \cup {None}
      BY <2>2, <3>1 DEF FillOK, ReqState
    <3>3. /\ req[p].scope \in exists' \cup {None}
          /\ Effective(req[p].user, req[p].scope)' = Effective(req[p].user, req[p].scope)
      BY <1>2, <1>4, <3>1, <3>2
    <3>4. UNCHANGED <<orgRole, req[p]>>
      BY <1>2, <3>1
    <3> HIDE DEF q
    <3>5. QED BY <2>2, <3>2, <3>3, <3>4 DEF FillOK
  <2>4. CASE req'[p].pc \notin Filling
    BY <2>4 DEF FillOK, Filling
  <2>5. QED BY <2>3, <2>4
<1>6. EntriesAreExact'
  <2> SUFFICES ASSUME NEW v \in User, NEW s \in Scope, Stored(v, s) \in DOMAIN cache
               PROVE  EntryOK(v, s)'
    BY <1>2 DEF EntriesAreExact, Stored, Name
  <2>1. EntryOK(v, s)
    BY DEF IInv, EntriesAreExact
  <2>2. QED BY <1>2, <1>4, <2>1 DEF EntryOK, Stored, Name
<1>7. QED BY <1>3, <1>5, <1>6 DEF IInv

LEMMA InviteOK ==
    ASSUME IInv, NEW r \in Request, NEW u \in User, Invite(r, u)
    PROVE  IInv'
<1> DEFINE q == [Idle EXCEPT !.pc = "keys", !.user = u]
<1>1. q \in ReqState /\ FillOK(q)
  BY IdleOK DEF Idle, ReqState, Pc, FillOK, Filling
<1>2. QED BY <1>1, RequestMoves DEF Invite

LEMMA KeysOK ==
    ASSUME IInv, NEW r \in Request, Keys(r)
    PROVE  IInv'
<1> DEFINE had == {n \in DOMAIN cache : n[2] = req[r].user}
<1> DEFINE q == [req[r] EXCEPT !.pc = "del", !.had = had, !.found = {n \in had : n[1] = ""}]
<1>1. had \in SUBSET Names /\ {n \in had : n[1] = ""} \in SUBSET Names
  BY DEF IInv, TypeOK
<1>2. req[r] \in ReqState
  BY ReqType DEF IInv
<1>3. q \in ReqState /\ FillOK(q)
  BY <1>1, <1>2 DEF ReqState, Pc, FillOK, Filling
<1>4. req' = [req EXCEPT ![r] = q]
  BY <1>2 DEF Keys, ReqState, IInv, TypeOK
<1>5. QED BY <1>3, <1>4, RequestMoves DEF Keys

\* Every step of PermissionCache preserves the invariant.
LEMMA StepOK == IInv /\ [Next]_vars => IInv'
<1> SUFFICES ASSUME IInv, [Next]_vars PROVE IInv'
  OBVIOUS
<1>1. CASE \E u \in User : Register(u)
  BY <1>1, RegisterOK
<1>2. ASSUME NEW r \in Request, NEW u \in User, NEW s \in Scope, Ask(r, u, s)
      PROVE  IInv'
  BY <1>2, AskOK
<1>3. ASSUME NEW r \in Request, NEW u \in User, NEW w \in Workspace, CreateWorkspace(r, u, w)
      PROVE  IInv'
  BY <1>3, CreateWorkspaceOK
<1>4. ASSUME NEW r \in Request, NEW u \in User, Invite(r, u)
      PROVE  IInv'
  BY <1>4, InviteOK
<1>5. ASSUME NEW r \in Request, Step(r)
      PROVE  IInv'
  <2>1. CASE Audit(r)
    BY <2>1, FinishOK DEF Audit
  <2>2. QED BY <1>5, <2>1, ReadOrgOK, ReadWsOK, StoreOK, KeysOK, DelOK DEF Step
<1>6. ASSUME NEW r \in Request, Crash(r)
      PROVE  IInv'
  BY <1>6, FinishOK DEF Crash
<1>7. CASE \E n \in Names : EntryExpires(n)
  BY <1>7, EntryExpiresOK
<1>8. CASE UNCHANGED vars
  BY <1>8 DEF vars, IInv, TypeOK, FillsAreExact, FillOK, EntriesAreExact, EntryOK,
     Effective, WsRoleOf, Stored, Name
<1>9. QED BY <1>1, <1>2, <1>3, <1>4, <1>5, <1>6, <1>7, <1>8 DEF Next

-----------------------------------------------------------------------------

\* The inductive invariant: the types, and that neither the cache nor a fill
\* in flight holds anything about memberships that can still be written.
THEOREM Invariance == Spec => []IInv
BY InitOK, StepOK, PTL DEF Spec

\* The variables of the cache and of its handlers keep their types.
THEOREM TypeCorrect == Spec => []TypeOK
<1>1. IInv => TypeOK
  BY DEF IInv
<1>2. QED BY <1>1, Invariance, PTL

\* A cached permission set is always the one the memberships give.
THEOREM CacheTheorem == Spec => []CacheIsExact
<1>1. IInv => CacheIsExact
  BY DEF IInv, EntriesAreExact, EntryOK, CacheIsExact
<1>2. QED BY <1>1, Invariance, PTL

-----------------------------------------------------------------------------
(* Which permissions the roles give.                                       *)

LEMMA KeysAre ==
    ASSUME NEW head, NEW subs, NEW p
    PROVE  p \in W!Keys(head, subs) <=> \E sub \in subs : p = <<head, sub>>
  BY DEF W!Keys

\* Whom the guard lets into a workspace.
LEMMA EntersAs ==
    ASSUME NEW org \in OrgRole \cup {None}, NEW ws \in WsRole \cup {None},
           W!EntersWorkspace(org, ws)
    PROVE  org \in OrgRole /\ (ws \in WsRole \/ org = "OWNER")
  BY DEF W!EntersWorkspace

\* What everybody inside may read; the accounts are not for every manager.
LEMMA InsideReads ==
    ASSUME NEW org \in OrgRole \cup {None}, NEW ws \in WsRole \cup {None},
           W!EntersWorkspace(org, ws)
    PROVE  /\ {<<"workspace", "read">>, <<"campaign", "read">>, <<"creative", "read">>,
               <<"insights", "read">>} \subseteq W!Granted(org, ws)
           /\ LacksAccounts(org, ws) \/ <<"adaccount", "read">> \in W!Granted(org, ws)
<1> DEFINE R == {<<"workspace", "read">>, <<"campaign", "read">>, <<"creative", "read">>,
                 <<"insights", "read">>}
<1>1. R \cup {<<"adaccount", "read">>} \subseteq W!WorkspacePermissions
  BY KeysAre DEF W!WorkspacePermissions
<1>2. R \subseteq W!WsManagerKeys
  BY KeysAre DEF W!WsManagerKeys
<1>3. R \cup {<<"adaccount", "read">>} \subseteq W!WsViewerKeys
  BY KeysAre DEF W!WsViewerKeys
<1>4. \A p \in R \cup {<<"adaccount", "read">>} : p \notin W!Keys("billing", {"view", "manage"})
  BY KeysAre
<1>5. R \cup {<<"adaccount", "read">>} \subseteq W!OrgOwnerKeys /\
      R \cup {<<"adaccount", "read">>} \subseteq W!OrgAdminKeys
  BY <1>1, <1>4 DEF W!OrgOwnerKeys, W!OrgAdminKeys
<1>6. org \in OrgRole /\ (ws \in WsRole \/ org = "OWNER")
  BY EntersAs
<1> HIDE DEF R
<1>7. CASE org \in {"OWNER", "ADMIN"}
  BY <1>5, <1>7 DEF W!Granted, R
<1>8. CASE org = "MEMBER" /\ ws = "ADMIN"
  BY <1>1, <1>8 DEF W!Granted, W!WsAdminKeys, R
<1>9. CASE org = "MEMBER" /\ ws = "MANAGER"
  BY <1>2, <1>9 DEF W!Granted, LacksAccounts, R
<1>10. CASE org = "MEMBER" /\ ws = "VIEWER"
  BY <1>3, <1>10 DEF W!Granted, R
<1>11. QED BY <1>6, <1>7, <1>8, <1>9, <1>10 DEF OrgRole, WsRole

\* What only those get who run the workspace or the organization, and what
\* managers of the workspace get besides.
Destroying ==
    {<<"campaign", "delete">>, <<"adset", "delete">>, <<"ad", "delete">>,
     <<"creative", "delete">>, <<"bisu", "connect">>, <<"bisu", "rotate">>,
     <<"bisu", "disconnect">>}
Editing ==
    {<<"campaign", "write">>, <<"adset", "write">>, <<"ad", "write">>,
     <<"creative", "write">>, <<"workspace", "update">>}

LEMMA FewerAre ==
    ASSUME NEW org \in OrgRole \cup {None}, NEW ws \in WsRole \cup {None},
           org \notin {"OWNER", "ADMIN"}, ws # "ADMIN"
    PROVE  /\ Destroying \cap W!Granted(org, ws) = {}
           /\ ws # "MANAGER" => Editing \cap W!Granted(org, ws) = {}
           /\ ws # "VIEWER" => <<"adaccount", "read">> \notin W!Granted(org, ws)
<1>1. Destroying \cap W!WsManagerKeys = {}
  BY KeysAre DEF W!WsManagerKeys, Destroying
<1>2. (Destroying \cup Editing) \cap W!WsViewerKeys = {}
  BY KeysAre DEF W!WsViewerKeys, Destroying, Editing
<1>3. (Destroying \cup Editing) \cap W!OrgMemberKeys = {}
  BY DEF W!OrgMemberKeys, Destroying, Editing
<1>4. W!Granted(org, ws) \subseteq
          W!OrgMemberKeys \cup W!WsViewerKeys \cup (IF ws = "MANAGER" THEN W!WsManagerKeys ELSE {})
  BY DEF W!Granted, OrgRole, WsRole
<1>5. ASSUME ws # "VIEWER" PROVE <<"adaccount", "read">> \notin W!Granted(org, ws)
  <2>1. <<"adaccount", "read">> \notin W!WsManagerKeys
    BY KeysAre DEF W!WsManagerKeys
  <2>2. <<"adaccount", "read">> \notin W!OrgMemberKeys
    BY DEF W!OrgMemberKeys
  <2>3. W!Granted(org, ws) \subseteq W!OrgMemberKeys \cup W!WsManagerKeys
    BY <1>5 DEF W!Granted, OrgRole, WsRole
  <2>4. QED BY <2>1, <2>2, <2>3
<1>6. QED BY <1>1, <1>2, <1>3, <1>4, <1>5

-----------------------------------------------------------------------------
(* Which routes the guards let pass.                                       *)

LEMMA WorkspaceScope ==
    ASSUME NEW p \in W!WorkspacePermissions
    PROVE  W!permissionScope(p) = "workspace"
<1>1. \A head, subs : p \in W!Keys(head, subs) => p[1] = head
  BY KeysAre
<1>2. p \in W!Keys("workspace", {"read", "update"})
      \/ p[1] \notin {"org", "member", "billing", "audit", "workspace"}
  BY <1>1 DEF W!WorkspacePermissions
<1>3. p \notin {<<"workspace", "create">>, <<"workspace", "delete">>}
  <2>1. CASE p \in W!Keys("workspace", {"read", "update"})
    BY <2>1, KeysAre
  <2>2. CASE p[1] # "workspace"
    BY <2>2
  <2>3. QED BY <1>2, <2>1, <2>2
<1>4. p[1] \notin {"org", "member", "billing", "audit"}
  <2>1. CASE p \in W!Keys("workspace", {"read", "update"})
    BY <2>1, <1>1
  <2>2. QED BY <1>2, <2>1
<1>5. QED BY <1>3, <1>4 DEF W!permissionScope

\* A route of a workspace passes exactly those inside who have its permission.
LEMMA InWorkspaceRoute ==
    ASSUME NEW org, NEW ws, NEW route, route.at = "workspace",
           route.needs \in W!WorkspacePermissions
    PROVE  W!Allowed(route, org, ws) <=>
               W!EntersWorkspace(org, ws) /\ route.needs \in W!Granted(org, ws)
<1>1. route.needs # None
  BY PermissionsAssumption
<1>2. W!permissionScope(route.needs) = "workspace"
  BY WorkspaceScope
<1>3. W!HasPermission(route, org, ws) <=> route.needs \in W!Granted(org, ws)
  BY <1>1, <1>2 DEF W!HasPermission
<1>4. QED BY <1>3 DEF W!Allowed

LEMMA WorkspaceRoute ==
    ASSUME NEW org, NEW ws, NEW head, NEW sub, NEW reads, NEW writes,
           <<head, sub>> \in W!WorkspacePermissions
    PROVE  W!Allowed(W!Ws(head, sub, reads, writes), org, ws) <=>
               W!EntersWorkspace(org, ws) /\ <<head, sub>> \in W!Granted(org, ws)
<1> DEFINE route == W!Ws(head, sub, reads, writes)
<1>1. route.at = "workspace" /\ route.needs = <<head, sub>>
  BY DEF W!Ws
<1>2. QED BY <1>1, InWorkspaceRoute

\* The permissions that the routes of a workspace ask for.
LEMMA Asked ==
    {<<"workspace", "read">>, <<"workspace", "update">>, <<"campaign", "read">>,
     <<"campaign", "write">>, <<"campaign", "delete">>, <<"adset", "write">>,
     <<"adset", "delete">>, <<"ad", "write">>, <<"ad", "delete">>, <<"creative", "read">>,
     <<"creative", "write">>, <<"creative", "delete">>, <<"insights", "read">>,
     <<"adaccount", "read">>, <<"bisu", "connect">>, <<"bisu", "rotate">>,
     <<"bisu", "disconnect">>} \subseteq W!WorkspacePermissions
  BY KeysAre DEF W!WorkspacePermissions

LEMMA DestroysOnly ==
    ASSUME NEW org, NEW ws, NEW x \in Deletions \cup Connecting, W!Allowed(x, org, ws)
    PROVE  Destroying \cap W!Granted(org, ws) # {}
<1>1. \E p \in Destroying : \E reads, writes : x = W!Ws(p[1], p[2], reads, writes)
  BY DEF Deletions, Connecting, W!Campaigns, W!AdSets, W!Ads, W!Creatives, W!Meta, Destroying
<1>2. PICK p \in Destroying : \E reads, writes : x = W!Ws(p[1], p[2], reads, writes)
  BY <1>1
<1>3. p = <<p[1], p[2]>> /\ p \in W!WorkspacePermissions
  BY Asked DEF Destroying
<1>4. QED BY <1>2, <1>3, WorkspaceRoute

LEMMA EditsOnly ==
    ASSUME NEW org, NEW ws, NEW x \in Edits, W!Allowed(x, org, ws)
    PROVE  Editing \cap W!Granted(org, ws) # {}
<1>1. \E p \in Editing : \E reads, writes : x = W!Ws(p[1], p[2], reads, writes)
  BY DEF Edits, W!Campaigns, W!AdSetsOfCampaign, W!AdSets, W!AdsOfAdSet, W!Ads,
     W!Creatives, W!Workspaces, Editing
<1>2. PICK p \in Editing : \E reads, writes : x = W!Ws(p[1], p[2], reads, writes)
  BY <1>1
<1>3. p = <<p[1], p[2]>> /\ p \in W!WorkspacePermissions
  BY Asked DEF Editing
<1>4. QED BY <1>2, <1>3, WorkspaceRoute

LEMMA ReplacesOnly ==
    ASSUME NEW org, NEW ws, NEW x \in Replacing, W!Allowed(x, org, ws)
    PROVE  <<"adaccount", "read">> \in W!Granted(org, ws)
<1>1. \E reads, writes : x = W!Ws("adaccount", "read", reads, writes)
  BY DEF Replacing, W!Meta
<1>2. PICK reads, writes : x = W!Ws("adaccount", "read", reads, writes)
  BY <1>1
<1>3. <<"adaccount", "read">> \in W!WorkspacePermissions
  BY Asked
<1>4. QED BY <1>2, <1>3, WorkspaceRoute

LEMMA PairsSplit == RolePairs \subseteq DutyPairs
<1> SUFFICES ASSUME NEW pair \in RolePairs
             PROVE  /\ (\E x \in Deletions \cup Connecting : W!Allowed(x, pair[1], pair[2]))
                          => pair[1] \in {"OWNER", "ADMIN"} \/ pair[2] = "ADMIN"
                    /\ (\E x \in Edits : W!Allowed(x, pair[1], pair[2]))
                          => pair[1] \in {"OWNER", "ADMIN"} \/ pair[2] \in {"ADMIN", "MANAGER"}
                    /\ (\E x \in Replacing : W!Allowed(x, pair[1], pair[2]))
                          => pair[1] \in {"OWNER", "ADMIN"} \/ pair[2] \in {"ADMIN", "VIEWER"}
  BY DEF DutyPairs
<1>1. pair[1] \in OrgRole \cup {None} /\ pair[2] \in WsRole \cup {None}
  BY DEF RolePairs
<1>2. QED BY <1>1, FewerAre, DestroysOnly, EditsOnly, ReplacesOnly

-----------------------------------------------------------------------------
(* Pages.                                                                  *)

\* What is asked or offered is let pass, and has the parts of a query or control.
Serves(x, org, ws) == W!Shown(x, org, ws) => W!Allowed(x.route, org, ws)

GoodQuery(x, org, ws) ==
    x = W!QueryOf(x.key, x.route, x.can, x.after) /\ Serves(x, org, ws)
GoodControl(x, org, ws) ==
    x = W!Control(x.route, x.can, x.after, x.invalidates) /\ Serves(x, org, ws)

GoodQueries(S, org, ws) == \A x \in S : GoodQuery(x, org, ws)
GoodControls(S, org, ws) == \A x \in S : GoodControl(x, org, ws)
GoodPanel(panel, org, ws) ==
    GoodQueries(panel.queries, org, ws) /\ GoodControls(panel.controls, org, ws)

\* A route that lets pass whom the query or control is there for.
Passes(route, can, org, ws) ==
    can = None \/ can \in W!Granted(org, ws) => W!Allowed(route, org, ws)

LEMMA QueryIsGood ==
    ASSUME NEW key, NEW route, NEW can, NEW after, NEW org, NEW ws, Passes(route, can, org, ws)
    PROVE  GoodQuery(W!QueryOf(key, route, can, after), org, ws)
<1> DEFINE x == W!QueryOf(key, route, can, after)
<1>1. x.key = key /\ x.route = route /\ x.can = can /\ x.after = after
  BY DEF W!QueryOf
<1>2. x = W!QueryOf(x.key, x.route, x.can, x.after)
  BY <1>1
<1> HIDE DEF x
<1>3. Serves(x, org, ws)
  BY <1>1 DEF Serves, W!Shown, Passes
<1>4. QED BY <1>2, <1>3 DEF GoodQuery, x

LEMMA ControlIsGood ==
    ASSUME NEW route, NEW can, NEW after, NEW keys, NEW org, NEW ws,
           Passes(route, can, org, ws)
    PROVE  GoodControl(W!Control(route, can, after, keys), org, ws)
<1> DEFINE x == W!Control(route, can, after, keys)
<1>1. x.route = route /\ x.can = can /\ x.after = after /\ x.invalidates = keys
  BY DEF W!Control
<1>2. x = W!Control(x.route, x.can, x.after, x.invalidates)
  BY <1>1
<1> HIDE DEF x
<1>3. Serves(x, org, ws)
  BY <1>1 DEF Serves, W!Shown, Passes
<1>4. QED BY <1>2, <1>3 DEF GoodControl, x

LEMMA PanelIsGood ==
    ASSUME NEW queries, NEW controls, NEW org, NEW ws,
           GoodQueries(queries, org, ws), GoodControls(controls, org, ws)
    PROVE  GoodPanel([queries |-> queries, controls |-> controls], org, ws)
  BY DEF GoodPanel

\* Panels side by side, and below what must be there first.
LEMMA TogetherIsGood ==
    ASSUME NEW panels, NEW org, NEW ws, \A p \in panels : GoodPanel(p, org, ws)
    PROVE  GoodPanel(W!Together(panels), org, ws)
  BY DEF GoodPanel, GoodQueries, GoodControls, W!Together

LEMMA BelowIsGood ==
    ASSUME NEW keys, NEW panel, NEW org, NEW ws, GoodPanel(panel, org, ws)
    PROVE  GoodPanel(W!Below(keys, panel), org, ws)
<1> DEFINE Q == {[q EXCEPT !.after = @ \cup keys] : q \in panel.queries}
           C == {[c EXCEPT !.after = @ \cup keys] : c \in panel.controls}
<1>1. GoodQueries(Q, org, ws)
  <2> SUFFICES ASSUME NEW q \in panel.queries
               PROVE  GoodQuery([q EXCEPT !.after = @ \cup keys], org, ws)
    BY DEF GoodQueries
  <2>1. GoodQuery(q, org, ws)
    BY DEF GoodPanel, GoodQueries
  <2>2. Passes(q.route, q.can, org, ws)
    BY <2>1 DEF GoodQuery, Serves, W!Shown, Passes
  <2>3. [q EXCEPT !.after = @ \cup keys] = W!QueryOf(q.key, q.route, q.can, q.after \cup keys)
    <3> DEFINE k == q.key  r == q.route  n == q.can  a == q.after
    <3>1. q = [key |-> k, route |-> r, can |-> n, after |-> a]
      BY <2>1 DEF GoodQuery, W!QueryOf
    <3> HIDE DEF k, r, n, a
    <3>2. [q EXCEPT !.after = @ \cup keys] =
              [key |-> k, route |-> r, can |-> n, after |-> a \cup keys]
      BY <3>1
    <3>3. QED BY <3>2 DEF W!QueryOf, k, r, n, a
  <2>4. QED BY <2>2, <2>3, QueryIsGood
<1>2. GoodControls(C, org, ws)
  <2> SUFFICES ASSUME NEW c \in panel.controls
               PROVE  GoodControl([c EXCEPT !.after = @ \cup keys], org, ws)
    BY DEF GoodControls
  <2>1. GoodControl(c, org, ws)
    BY DEF GoodPanel, GoodControls
  <2>2. Passes(c.route, c.can, org, ws)
    BY <2>1 DEF GoodControl, Serves, W!Shown, Passes
  <2>3. [c EXCEPT !.after = @ \cup keys] =
            W!Control(c.route, c.can, c.after \cup keys, c.invalidates)
    <3> DEFINE r == c.route  n == c.can  a == c.after  i == c.invalidates
    <3>1. c = [route |-> r, can |-> n, after |-> a, invalidates |-> i]
      BY <2>1 DEF GoodControl, W!Control
    <3> HIDE DEF r, n, a, i
    <3>2. [c EXCEPT !.after = @ \cup keys] =
              [route |-> r, can |-> n, after |-> a \cup keys, invalidates |-> i]
      BY <3>1
    <3>3. QED BY <3>2 DEF W!Control, r, n, a, i
  <2>4. QED BY <2>2, <2>3, ControlIsGood
<1> HIDE DEF Q, C
<1>3. QED BY <1>1, <1>2, PanelIsGood DEF W!Below, Q, C

LEMMA GoodWorks ==
    ASSUME NEW panel, NEW org, NEW ws, GoodPanel(panel, org, ws)
    PROVE  W!Works(panel, org, ws)
  BY DEF GoodPanel, GoodQueries, GoodControls, GoodQuery, GoodControl, Serves, W!Works

\* A route passes for everybody inside when its permission is one everybody has,
\* and for whom useCan() has shown it, when both are about the same permission.
LEMMA InsidePasses ==
    ASSUME NEW org \in OrgRole \cup {None}, NEW ws \in WsRole \cup {None},
           W!EntersWorkspace(org, ws), NEW head, NEW sub, NEW reads, NEW writes, NEW can,
           <<head, sub>> \in {<<"workspace", "read">>, <<"campaign", "read">>,
                              <<"creative", "read">>, <<"insights", "read">>}
    PROVE  Passes(W!Ws(head, sub, reads, writes), can, org, ws)
<1>1. <<head, sub>> \in W!WorkspacePermissions
  BY Asked
<1>2. <<head, sub>> \in W!Granted(org, ws)
  BY InsideReads
<1>3. QED BY <1>1, <1>2, WorkspaceRoute DEF Passes

LEMMA ShownPasses ==
    ASSUME NEW org, NEW ws, W!EntersWorkspace(org, ws), NEW head, NEW sub, NEW reads, NEW writes,
           <<head, sub>> \in W!WorkspacePermissions
    PROVE  Passes(W!Ws(head, sub, reads, writes), <<head, sub>>, org, ws)
<1>1. <<head, sub>> # None
  BY PermissionsAssumption
<1>2. QED BY <1>1, WorkspaceRoute DEF Passes

LEMMA OwnPasses ==
    ASSUME NEW org, NEW ws, NEW reads, NEW writes, NEW can
    PROVE  Passes(W!Own(reads, writes), can, org, ws)
<1> DEFINE route == W!Own(reads, writes)
<1>1. route.at = "user" /\ route.needs = None
  BY DEF W!Own
<1>2. QED BY <1>1 DEF Passes, W!Allowed, W!HasPermission

Inside(org, ws) ==
    /\ org \in OrgRole \cup {None} /\ ws \in WsRole \cup {None}
    /\ W!EntersWorkspace(org, ws)

\* Everybody inside passes the routes that read, and those that sync.
LEMMA ReadsPass ==
    ASSUME NEW org, NEW ws, Inside(org, ws), NEW can
    PROVE  /\ Passes(W!Campaigns.list, can, org, ws)
           /\ Passes(W!Campaigns.sync, can, org, ws)
           /\ Passes(W!Campaigns.detail, can, org, ws)
           /\ Passes(W!Campaigns.campaignInsights, can, org, ws)
           /\ Passes(W!WorkspaceInsights.list, can, org, ws)
           /\ Passes(W!WorkspaceInsights.sync, can, org, ws)
           /\ Passes(W!AdSetsOfCampaign.list, can, org, ws)
           /\ Passes(W!AdSetsOfCampaign.sync, can, org, ws)
           /\ Passes(W!AdSets.detail, can, org, ws)
           /\ Passes(W!AdSets.insightsList, can, org, ws)
           /\ Passes(W!AdSets.insightsSync, can, org, ws)
           /\ Passes(W!AdsOfAdSet.list, can, org, ws)
           /\ Passes(W!AdsOfAdSet.sync, can, org, ws)
           /\ Passes(W!Ads.detail, can, org, ws)
           /\ Passes(W!Ads.insightsList, can, org, ws)
           /\ Passes(W!Ads.insightsSync, can, org, ws)
           /\ Passes(W!CreativesOfAccount.sync, can, org, ws)
           /\ Passes(W!Creatives.list, can, org, ws)
           /\ Passes(W!Meta.current, can, org, ws)
           /\ Passes(W!Workspaces.get, can, org, ws)
<1> DEFINE Read(head, sub, reads, writes) == Passes(W!Ws(head, sub, reads, writes), can, org, ws)
<1>1. \A reads, writes : /\ Read("campaign", "read", reads, writes)
                         /\ Read("insights", "read", reads, writes)
                         /\ Read("creative", "read", reads, writes)
                         /\ Read("workspace", "read", reads, writes)
  BY InsidePasses DEF Inside
<1>2. /\ Passes(W!Campaigns.list, can, org, ws)
      /\ Passes(W!Campaigns.sync, can, org, ws)
      /\ Passes(W!Campaigns.detail, can, org, ws)
      /\ Passes(W!Campaigns.campaignInsights, can, org, ws)
  BY <1>1 DEF W!Campaigns
<1>3. /\ Passes(W!WorkspaceInsights.list, can, org, ws)
      /\ Passes(W!WorkspaceInsights.sync, can, org, ws)
  BY <1>1 DEF W!WorkspaceInsights
<1>4. /\ Passes(W!AdSetsOfCampaign.list, can, org, ws)
      /\ Passes(W!AdSetsOfCampaign.sync, can, org, ws)
  BY <1>1 DEF W!AdSetsOfCampaign
<1>5. /\ Passes(W!AdSets.detail, can, org, ws)
      /\ Passes(W!AdSets.insightsList, can, org, ws)
      /\ Passes(W!AdSets.insightsSync, can, org, ws)
  BY <1>1 DEF W!AdSets
<1>6. /\ Passes(W!AdsOfAdSet.list, can, org, ws)
      /\ Passes(W!AdsOfAdSet.sync, can, org, ws)
  BY <1>1 DEF W!AdsOfAdSet
<1>7. /\ Passes(W!Ads.detail, can, org, ws)
      /\ Passes(W!Ads.insightsList, can, org, ws)
      /\ Passes(W!Ads.insightsSync, can, org, ws)
  BY <1>1 DEF W!Ads
<1>8. /\ Passes(W!CreativesOfAccount.sync, can, org, ws)
      /\ Passes(W!Creatives.list, can, org, ws)
  BY <1>1 DEF W!CreativesOfAccount, W!Creatives
<1>9. Passes(W!Meta.current, can, org, ws) /\ Passes(W!Workspaces.get, can, org, ws)
  BY <1>1 DEF W!Meta, W!Workspaces
<1>10. QED BY <1>2, <1>3, <1>4, <1>5, <1>6, <1>7, <1>8, <1>9

\* What is shown to whoever has a permission calls a route that asks for it.
LEMMA WritesPass ==
    ASSUME NEW org, NEW ws, Inside(org, ws)
    PROVE  /\ Passes(W!Campaigns.create, <<"campaign", "write">>, org, ws)
           /\ Passes(W!Campaigns.update, <<"campaign", "write">>, org, ws)
           /\ Passes(W!Campaigns.delete, <<"campaign", "delete">>, org, ws)
           /\ Passes(W!AdSetsOfCampaign.create, <<"adset", "write">>, org, ws)
           /\ Passes(W!AdSets.delete, <<"adset", "delete">>, org, ws)
           /\ Passes(W!AdsOfAdSet.create, <<"ad", "write">>, org, ws)
           /\ Passes(W!Ads.delete, <<"ad", "delete">>, org, ws)
           /\ Passes(W!Creatives.create, <<"creative", "write">>, org, ws)
           /\ Passes(W!Creatives.delete, <<"creative", "delete">>, org, ws)
           /\ Passes(W!Meta.initConnect, <<"bisu", "connect">>, org, ws)
           /\ Passes(W!Meta.rotate, <<"bisu", "rotate">>, org, ws)
           /\ Passes(W!Meta.disconnect, <<"bisu", "disconnect">>, org, ws)
           /\ Passes(W!Meta.syncAdAccounts, <<"adaccount", "read">>, org, ws)
           /\ Passes(W!Meta.listAdAccounts, <<"adaccount", "read">>, org, ws)
           /\ Passes(W!Workspaces.update, <<"workspace", "update">>, org, ws)
<1> DEFINE Gate(head, sub) == \A reads, writes :
             Passes(W!Ws(head, sub, reads, writes), <<head, sub>>, org, ws)
<1>1. ASSUME NEW head, NEW sub, <<head, sub>> \in W!WorkspacePermissions PROVE Gate(head, sub)
  BY <1>1, ShownPasses DEF Inside
<1>2. /\ Gate("campaign", "write") /\ Gate("campaign", "delete") /\ Gate("adset", "write")
      /\ Gate("adset", "delete") /\ Gate("ad", "write") /\ Gate("ad", "delete")
      /\ Gate("creative", "write") /\ Gate("creative", "delete") /\ Gate("bisu", "connect")
      /\ Gate("bisu", "rotate") /\ Gate("bisu", "disconnect") /\ Gate("adaccount", "read")
      /\ Gate("workspace", "update")
  <2> HIDE DEF Gate
  <2> QED BY <1>1, Asked
<1>3. /\ Passes(W!Campaigns.create, <<"campaign", "write">>, org, ws)
      /\ Passes(W!Campaigns.update, <<"campaign", "write">>, org, ws)
      /\ Passes(W!Campaigns.delete, <<"campaign", "delete">>, org, ws)
  BY <1>2 DEF W!Campaigns
<1>4. /\ Passes(W!AdSetsOfCampaign.create, <<"adset", "write">>, org, ws)
      /\ Passes(W!AdSets.delete, <<"adset", "delete">>, org, ws)
  BY <1>2 DEF W!AdSetsOfCampaign, W!AdSets
<1>5. /\ Passes(W!AdsOfAdSet.create, <<"ad", "write">>, org, ws)
      /\ Passes(W!Ads.delete, <<"ad", "delete">>, org, ws)
  BY <1>2 DEF W!AdsOfAdSet, W!Ads
<1>6. /\ Passes(W!Creatives.create, <<"creative", "write">>, org, ws)
      /\ Passes(W!Creatives.delete, <<"creative", "delete">>, org, ws)
  BY <1>2 DEF W!Creatives
<1>7. /\ Passes(W!Meta.initConnect, <<"bisu", "connect">>, org, ws)
      /\ Passes(W!Meta.rotate, <<"bisu", "rotate">>, org, ws)
      /\ Passes(W!Meta.disconnect, <<"bisu", "disconnect">>, org, ws)
      /\ Passes(W!Meta.syncAdAccounts, <<"adaccount", "read">>, org, ws)
      /\ Passes(W!Meta.listAdAccounts, <<"adaccount", "read">>, org, ws)
  BY <1>2 DEF W!Meta
<1>8. Passes(W!Workspaces.update, <<"workspace", "update">>, org, ws)
  BY <1>2 DEF W!Workspaces
<1>9. QED BY <1>3, <1>4, <1>5, <1>6, <1>7, <1>8

\* The accounts, which a manager may not read.
LEMMA AccountsPass ==
    ASSUME NEW org, NEW ws, Inside(org, ws), ~LacksAccounts(org, ws), NEW can
    PROVE  Passes(W!Meta.listAdAccounts, can, org, ws)
<1>1. <<"adaccount", "read">> \in W!WorkspacePermissions
  BY Asked
<1>2. <<"adaccount", "read">> \in W!Granted(org, ws)
  BY InsideReads DEF Inside
<1>3. \A reads, writes : Passes(W!Ws("adaccount", "read", reads, writes), can, org, ws)
  BY <1>1, <1>2, WorkspaceRoute DEF Passes, Inside
<1>4. QED BY <1>3 DEF W!Meta

\* The routes that ask for no permission.
LEMMA OwnRoutesPass ==
    ASSUME NEW org, NEW ws, NEW can
    PROVE  /\ Passes(W!Organizations.current, can, org, ws)
           /\ Passes(W!Users.updateMe, can, org, ws)
           /\ Passes(W!Users.regenerateBackupCodes, can, org, ws)
           /\ Passes(W!Users.disableMfa, can, org, ws)
           /\ Passes(W!AuthSessions.listSessions, can, org, ws)
           /\ Passes(W!AuthSessions.revokeSession, can, org, ws)
           /\ Passes(W!AuthSessions.logoutAll, can, org, ws)
           /\ Passes(W!AuthSessions.changePassword, can, org, ws)
  BY OwnPasses DEF W!Organizations, W!Users, W!AuthSessions

\* The routes of the organization, on pages that are not of a workspace.
LEMMA OrganizationRoute ==
    ASSUME NEW org, NEW p \in W!OrgPermissions, NEW reads, NEW writes,
           W!permissionScope(p) = "organization"
    PROVE  W!Allowed(W!Org(p[1], p[2], reads, writes), org, None) <=> p \in W!Granted(org, None)
<1> DEFINE route == W!Org(p[1], p[2], reads, writes)
<1>1. p = <<p[1], p[2]>>
  <2>1. PICK head, subs : p \in W!Keys(head, subs)
    BY DEF W!OrgPermissions
  <2>2. QED BY <2>1, KeysAre
<1>2. route.at = "organization" /\ route.needs = p
  BY <1>1 DEF W!Org
<1>3. p # None
  BY PermissionsAssumption
<1> HIDE DEF route
<1>4. W!HasPermission(route, org, None) <=> p \in W!Granted(org, None)
  BY <1>2, <1>3 DEF W!HasPermission
<1>5. W!Allowed(route, org, None) <=> p \in W!Granted(org, None)
  BY <1>2, <1>4 DEF W!Allowed
<1>6. QED BY <1>5 DEF route

LEMMA OrganizationPasses ==
    ASSUME NEW org \in OrgRole
    PROVE  /\ \A can : Passes(W!Organizations.listMembers, can, org, None)
           /\ Passes(W!Organizations.update, <<"org", "update">>, org, None)
           /\ Passes(W!Organizations.invite, <<"member", "invite">>, org, None)
           /\ Passes(W!Organizations.createWorkspace, <<"workspace", "create">>, org, None)
<1> DEFINE Gate(head, sub) == \A reads, writes :
             W!Allowed(W!Org(head, sub, reads, writes), org, None)
                 <=> <<head, sub>> \in W!Granted(org, None)
<1>1. {<<"org", "read">>, <<"org", "update">>, <<"member", "invite">>, <<"workspace", "create">>}
          \subseteq W!OrgPermissions
  BY KeysAre DEF W!OrgPermissions
<1>2. \A p \in {<<"org", "read">>, <<"org", "update">>, <<"member", "invite">>,
                <<"workspace", "create">>} : W!permissionScope(p) = "organization"
  BY DEF W!permissionScope
<1>3. /\ Gate("org", "read") /\ Gate("org", "update") /\ Gate("member", "invite")
      /\ Gate("workspace", "create")
  BY <1>1, <1>2, OrganizationRoute
<1>4. <<"org", "read">> \in W!Granted(org, None)
  <2>1. <<"org", "read">> \notin W!Keys("billing", {"view", "manage"})
    BY KeysAre
  <2>2. QED BY <1>1, <2>1 DEF W!Granted, W!OrgOwnerKeys, W!OrgAdminKeys, W!OrgMemberKeys, OrgRole
<1>5. /\ <<"org", "update">> # None /\ <<"member", "invite">> # None
      /\ <<"workspace", "create">> # None
  BY <1>1, PermissionsAssumption
<1>6. QED BY <1>3, <1>4, <1>5 DEF Passes, W!Organizations

-----------------------------------------------------------------------------
(* The panels and pages of a workspace.                                    *)

\* A query, or a control, that is good whatever its keys are.
GoodRead(route, can, org, ws) ==
    \A key, after : GoodQuery(W!QueryOf(key, route, can, after), org, ws)
GoodUse(route, can, org, ws) ==
    \A after, keys : GoodControl(W!Control(route, can, after, keys), org, ws)

LEMMA PassesIsGood ==
    ASSUME NEW route, NEW can, NEW org, NEW ws, Passes(route, can, org, ws)
    PROVE  GoodRead(route, can, org, ws) /\ GoodUse(route, can, org, ws)
  BY QueryIsGood, ControlIsGood DEF GoodRead, GoodUse

LEMMA AdSetsPanelIsGood ==
    ASSUME NEW org, NEW ws, Inside(org, ws)
    PROVE  GoodPanel(W!AdSetsPanel, org, ws)
<1>1. /\ GoodRead(W!AdSetsOfCampaign.list, None, org, ws)
      /\ GoodUse(W!AdSetsOfCampaign.sync, None, org, ws)
      /\ GoodUse(W!AdSetsOfCampaign.create, <<"adset", "write">>, org, ws)
      /\ GoodUse(W!AdSets.delete, <<"adset", "delete">>, org, ws)
  BY ReadsPass, WritesPass, PassesIsGood
<1>2. QED
  BY <1>1, PanelIsGood DEF W!AdSetsPanel, W!AdSetCreateDialog, W!AdSetRows,
     GoodQueries, GoodControls, GoodRead, GoodUse

LEMMA AdsPanelIsGood ==
    ASSUME NEW org, NEW ws, Inside(org, ws)
    PROVE  GoodPanel(W!AdsPanel, org, ws)
<1>1. /\ GoodRead(W!AdsOfAdSet.list, None, org, ws)
      /\ GoodRead(W!Creatives.list, <<"ad", "write">>, org, ws)
      /\ GoodUse(W!AdsOfAdSet.sync, None, org, ws)
      /\ GoodUse(W!AdsOfAdSet.create, <<"ad", "write">>, org, ws)
      /\ GoodUse(W!Ads.delete, <<"ad", "delete">>, org, ws)
  BY ReadsPass, WritesPass, PassesIsGood
<1>2. QED
  BY <1>1, PanelIsGood DEF W!AdsPanel, W!AdCreateDialog, W!AdRows, W!CreativeList,
     GoodQueries, GoodControls, GoodRead, GoodUse

LEMMA InsightsCardIsGood ==
    ASSUME NEW org, NEW ws, NEW name, NEW reads, NEW syncs,
           Passes(reads, None, org, ws), Passes(syncs, None, org, ws)
    PROVE  GoodPanel(W!InsightsCard(name, reads, syncs), org, ws)
<1>1. GoodRead(reads, None, org, ws) /\ GoodUse(syncs, None, org, ws)
  BY PassesIsGood
<1>2. QED
  BY <1>1, PanelIsGood DEF W!InsightsCard, GoodQueries, GoodControls, GoodRead, GoodUse

\* A panel of one query.
LEMMA OneQueryIsGood ==
    ASSUME NEW org, NEW ws, NEW q, GoodQuery(q, org, ws)
    PROVE  GoodPanel([queries |-> {q}, controls |-> {}], org, ws)
  BY PanelIsGood DEF GoodQueries, GoodControls

LEMMA AdSetDetailIsGood ==
    ASSUME NEW org, NEW ws, Inside(org, ws)
    PROVE  GoodPanel(W!AdSetDetail, org, ws)
<1> DEFINE key == <<"adset", "slug", "id">>
           card == W!InsightsCard("adset-insights", W!AdSets.insightsList, W!AdSets.insightsSync)
           detail == W!QueryOf(key, W!AdSets.detail, None, {})
           panels == {[queries |-> {detail}, controls |-> {}],
                      W!Below({key}, W!AdsPanel), W!Below({key}, card)}
<1>1. GoodPanel([queries |-> {detail}, controls |-> {}], org, ws)
  BY ReadsPass, QueryIsGood, OneQueryIsGood
<1>2. GoodPanel(W!Below({key}, W!AdsPanel), org, ws)
  BY AdsPanelIsGood, BelowIsGood
<1>3. GoodPanel(W!Below({key}, card), org, ws)
  BY ReadsPass, InsightsCardIsGood, BelowIsGood
<1>4. GoodPanel(W!Together(panels), org, ws)
  <2> SUFFICES ASSUME NEW p \in panels PROVE GoodPanel(p, org, ws)
    BY TogetherIsGood
  <2> QED BY <1>1, <1>2, <1>3
<1>5. QED BY <1>4 DEF W!AdSetDetail

LEMMA AdDetailIsGood ==
    ASSUME NEW org, NEW ws, Inside(org, ws)
    PROVE  GoodPanel(W!AdDetail, org, ws)
<1> DEFINE key == <<"ad", "slug", "id">>
           card == W!InsightsCard("ad-insights", W!Ads.insightsList, W!Ads.insightsSync)
           detail == W!QueryOf(key, W!Ads.detail, None, {})
           panels == {[queries |-> {detail}, controls |-> {}], W!Below({key}, card)}
<1>1. GoodPanel([queries |-> {detail}, controls |-> {}], org, ws)
  BY ReadsPass, QueryIsGood, OneQueryIsGood
<1>2. GoodPanel(W!Below({key}, card), org, ws)
  BY ReadsPass, InsightsCardIsGood, BelowIsGood
<1>3. GoodPanel(W!Together(panels), org, ws)
  <2> SUFFICES ASSUME NEW p \in panels PROVE GoodPanel(p, org, ws)
    BY TogetherIsGood
  <2> QED BY <1>1, <1>2
<1>4. QED BY <1>3 DEF W!AdDetail

\* The dialog asks for the accounts of whoever can write.
LEMMA CampaignsClientIsGood ==
    ASSUME NEW org, NEW ws, Inside(org, ws), ~LacksAccounts(org, ws)
    PROVE  GoodPanel(W!CampaignsClient, org, ws)
<1> DEFINE keys == {W!Connection.key}
           lists == [queries |-> {W!Connection, W!CampaignList(keys)}, controls |-> {}]
           sync == [queries |-> {},
                    controls |-> {W!Control(W!Campaigns.sync, None, {}, {<<"campaigns", "slug">>})}]
           panels == {lists, W!Below(keys, W!CreateCampaignDialog), W!Below(keys, sync)}
<1>1. /\ GoodRead(W!Meta.current, None, org, ws)
      /\ GoodRead(W!Campaigns.list, None, org, ws)
      /\ GoodRead(W!Meta.listAdAccounts, <<"campaign", "write">>, org, ws)
      /\ GoodUse(W!Campaigns.create, <<"campaign", "write">>, org, ws)
      /\ GoodUse(W!Campaigns.sync, None, org, ws)
  BY ReadsPass, WritesPass, AccountsPass, PassesIsGood
<1>2. GoodPanel(lists, org, ws)
  BY <1>1, PanelIsGood DEF W!Connection, W!CampaignList, GoodQueries, GoodControls, GoodRead
<1>3. GoodPanel(W!CreateCampaignDialog, org, ws)
  BY <1>1, PanelIsGood DEF W!CreateCampaignDialog, W!Accounts, GoodQueries, GoodControls,
     GoodRead, GoodUse
<1>4. GoodPanel(sync, org, ws)
  BY <1>1, PanelIsGood DEF GoodQueries, GoodControls, GoodUse
<1>5. GoodPanel(W!Together(panels), org, ws)
  <2> SUFFICES ASSUME NEW p \in panels PROVE GoodPanel(p, org, ws)
    BY TogetherIsGood
  <2> QED BY <1>2, <1>3, <1>4, BelowIsGood
<1>6. QED BY <1>5 DEF W!CampaignsClient

LEMMA CampaignDetailIsGood ==
    ASSUME NEW org, NEW ws, Inside(org, ws)
    PROVE  GoodPanel(W!CampaignDetail, org, ws)
<1> DEFINE top == [queries  |-> {W!QueryOf(W!OneCampaign, W!Campaigns.detail, None, {}),
                                 W!QueryOf(<<"campaign-insights", "slug", "id", "from", "to">>,
                                           W!Campaigns.campaignInsights, None, {})},
                   controls |-> W!CampaignEditDialog \cup W!CampaignDeleteDialog]
           panels == {top, W!Below({W!OneCampaign}, W!AdSetsPanel)}
<1>1. /\ GoodRead(W!Campaigns.detail, None, org, ws)
      /\ GoodRead(W!Campaigns.campaignInsights, None, org, ws)
      /\ GoodUse(W!Campaigns.update, <<"campaign", "write">>, org, ws)
      /\ GoodUse(W!Campaigns.delete, <<"campaign", "delete">>, org, ws)
  BY ReadsPass, WritesPass, PassesIsGood
<1>2. GoodPanel(top, org, ws)
  BY <1>1, PanelIsGood DEF W!CampaignEditDialog, W!CampaignDeleteDialog,
     GoodQueries, GoodControls, GoodRead, GoodUse
<1>3. GoodPanel(W!Below({W!OneCampaign}, W!AdSetsPanel), org, ws)
  BY AdSetsPanelIsGood, BelowIsGood
<1>4. GoodPanel(W!Together(panels), org, ws)
  <2> SUFFICES ASSUME NEW p \in panels PROVE GoodPanel(p, org, ws)
    BY TogetherIsGood
  <2> HIDE DEF top
  <2> QED BY <1>2, <1>3
<1>5. QED BY <1>4 DEF W!CampaignDetail

LEMMA InsightsClientIsGood ==
    ASSUME NEW org, NEW ws, Inside(org, ws)
    PROVE  GoodPanel(W!InsightsClient, org, ws)
<1>1. /\ GoodRead(W!Campaigns.list, None, org, ws)
      /\ GoodRead(W!WorkspaceInsights.list, None, org, ws)
      /\ GoodUse(W!WorkspaceInsights.sync, None, org, ws)
  BY ReadsPass, PassesIsGood
<1>2. QED
  BY <1>1, PanelIsGood DEF W!InsightsClient, W!CampaignList, GoodQueries, GoodControls,
     GoodRead, GoodUse

LEMMA CreativesClientIsGood ==
    ASSUME NEW org, NEW ws, Inside(org, ws), ~LacksAccounts(org, ws)
    PROVE  GoodPanel(W!CreativesClient, org, ws)
<1>1. /\ GoodRead(W!Meta.current, None, org, ws)
      /\ GoodRead(W!Meta.listAdAccounts, None, org, ws)
      /\ GoodRead(W!Creatives.list, None, org, ws)
      /\ GoodUse(W!CreativesOfAccount.sync, None, org, ws)
      /\ GoodUse(W!Creatives.create, <<"creative", "write">>, org, ws)
      /\ GoodUse(W!Creatives.delete, <<"creative", "delete">>, org, ws)
  BY ReadsPass, WritesPass, AccountsPass, PassesIsGood
<1>2. /\ GoodQuery(W!CreativeAccounts, org, ws)
      /\ GoodQuery(W!CreativeList(None), org, ws)
      /\ \A key, after : GoodQuery(W!QueryOf(key, W!Meta.current, None, after), org, ws)
  BY <1>1 DEF W!CreativeAccounts, W!CreativeList, GoodRead
<1>3. GoodControls(W!CreativeCreateDialog, org, ws) /\ GoodControls(W!CreativeRows, org, ws)
  BY <1>1 DEF W!CreativeCreateDialog, W!CreativeRows, GoodControls, GoodUse
<1>4. \A after, keys :
         GoodControls({W!Control(W!CreativesOfAccount.sync, None, after, keys)}, org, ws)
  BY <1>1 DEF GoodControls, GoodUse
<1>5. QED
  BY <1>2, <1>3, <1>4, PanelIsGood DEF W!CreativesClient, GoodQueries, GoodControls

LEMMA MetaConnectionClientIsGood ==
    ASSUME NEW org, NEW ws, Inside(org, ws)
    PROVE  GoodPanel(W!MetaConnectionClient, org, ws)
<1>1. /\ GoodRead(W!Meta.current, None, org, ws)
      /\ GoodRead(W!Meta.listAdAccounts, <<"adaccount", "read">>, org, ws)
      /\ GoodUse(W!Meta.initConnect, <<"bisu", "connect">>, org, ws)
      /\ GoodUse(W!Meta.rotate, <<"bisu", "rotate">>, org, ws)
      /\ GoodUse(W!Meta.disconnect, <<"bisu", "disconnect">>, org, ws)
      /\ GoodUse(W!Meta.syncAdAccounts, <<"adaccount", "read">>, org, ws)
  BY ReadsPass, WritesPass, PassesIsGood
<1>2. /\ GoodControls(W!ConnectCard, org, ws) /\ GoodControls(W!ConnectionCard, org, ws)
      /\ GoodControls(W!AccountsCard, org, ws)
  BY <1>1 DEF W!ConnectCard, W!ConnectionCard, W!AccountsCard, GoodControls, GoodUse
<1>3. GoodQuery(W!Connection, org, ws) /\ GoodQuery(W!Accounts(<<"adaccount", "read">>), org, ws)
  BY <1>1 DEF W!Connection, W!Accounts, GoodRead
<1>4. QED
  BY <1>2, <1>3, PanelIsGood DEF W!MetaConnectionClient, GoodQueries, GoodControls

LEMMA WorkspacePagesAreGood ==
    ASSUME NEW org, NEW ws, Inside(org, ws)
    PROVE  /\ GoodQuery(W!OneWorkspace, org, ws)
           /\ GoodPanel(W!WorkspaceHome, org, ws) /\ GoodPanel(W!WorkspaceSettings, org, ws)
<1>1. /\ GoodRead(W!Workspaces.get, None, org, ws)
      /\ GoodUse(W!Workspaces.update, <<"workspace", "update">>, org, ws)
  BY ReadsPass, WritesPass, PassesIsGood
<1>2. GoodQuery(W!OneWorkspace, org, ws)
  BY <1>1 DEF W!OneWorkspace, GoodRead
<1>3. GoodPanel(W!WorkspaceHome, org, ws)
  BY <1>2, OneQueryIsGood DEF W!WorkspaceHome
<1>4. GoodPanel(W!WorkspaceSettings, org, ws)
  BY <1>1, <1>2, PanelIsGood DEF W!WorkspaceSettings, GoodQueries, GoodControls, GoodUse
<1>5. QED BY <1>2, <1>3, <1>4

\* The bar above every page asks for no permission.
LEMMA SwitcherIsGood ==
    ASSUME NEW org, NEW ws
    PROVE  GoodQuery(W!CurrentOrg, org, ws) /\ GoodPanel(W!WorkspaceSwitcher, org, ws)
<1>1. GoodRead(W!Organizations.current, None, org, ws)
  BY OwnRoutesPass, PassesIsGood
<1>2. GoodQuery(W!CurrentOrg, org, ws)
  BY <1>1 DEF W!CurrentOrg, GoodRead
<1>3. QED BY <1>2, OneQueryIsGood DEF W!WorkspaceSwitcher

LEMMA InWorkspaceIsGood ==
    ASSUME NEW org, NEW ws, Inside(org, ws), NEW page, GoodPanel(page, org, ws)
    PROVE  GoodPanel(W!InWorkspace(page), org, ws)
<1> DEFINE top == [queries |-> {W!OneWorkspace}, controls |-> {}]
           panels == {top, W!Below({W!OneWorkspace.key}, page)}
<1>1. GoodPanel(top, org, ws)
  BY WorkspacePagesAreGood, OneQueryIsGood
<1>2. GoodPanel(W!Below({W!OneWorkspace.key}, page), org, ws)
  BY BelowIsGood
<1>3. GoodPanel(W!Together(panels), org, ws)
  <2> SUFFICES ASSUME NEW p \in panels PROVE GoodPanel(p, org, ws)
    BY TogetherIsGood
  <2> HIDE DEF top
  <2> QED BY <1>1, <1>2
<1>4. GoodPanel(W!WorkspaceLayout(page), org, ws)
  BY <1>3 DEF W!WorkspaceLayout
<1>5. \A p \in {W!WorkspaceSwitcher, W!WorkspaceLayout(page)} : GoodPanel(p, org, ws)
  BY <1>4, SwitcherIsGood
<1>6. QED BY <1>5, TogetherIsGood DEF W!InWorkspace

\* The pages under /w/<slug>, for everybody inside.
LEMMA InsideIsServed ==
    ASSUME NEW org, NEW ws, Inside(org, ws), NEW page \in DOMAIN W!WorkspacePage,
           ~(page \in AsksForAccounts /\ LacksAccounts(org, ws))
    PROVE  W!Works(W!WorkspacePage[page], org, ws)
<1> DEFINE In(p) == GoodPanel(W!InWorkspace(p), org, ws)
<1>1. /\ In(W!WorkspaceHome) /\ In(W!CampaignDetail) /\ In(W!AdSetDetail) /\ In(W!AdDetail)
      /\ In(W!InsightsClient) /\ In(W!WorkspaceSettings) /\ In(W!MetaConnectionClient)
  BY InWorkspaceIsGood, WorkspacePagesAreGood, CampaignDetailIsGood, AdSetDetailIsGood,
     AdDetailIsGood, InsightsClientIsGood, MetaConnectionClientIsGood
<1>2. ~LacksAccounts(org, ws) => In(W!CampaignsClient) /\ In(W!CreativesClient)
  BY InWorkspaceIsGood, CampaignsClientIsGood, CreativesClientIsGood
<1> HIDE DEF In
<1>3. \E p : W!WorkspacePage[page] = W!InWorkspace(p) /\ In(p)
  BY <1>1, <1>2 DEF W!WorkspacePage, AsksForAccounts
<1>4. QED BY <1>3, GoodWorks DEF In

-----------------------------------------------------------------------------
(* The pages of the organization and of the user.                          *)

LEMMA OwnPagesAreGood ==
    ASSUME NEW org \in OrgRole
    PROVE  /\ GoodPanel(W!DashboardClient, org, None) /\ GoodPanel(W!OrganizationClient, org, None)
           /\ GoodPanel(W!MembersClient, org, None) /\ GoodPanel(W!SessionsClient, org, None)
           /\ GoodPanel(W!ChangePasswordForm, org, None) /\ GoodPanel(W!MfaSection, org, None)
           /\ GoodPanel(W!ProfileForm, org, None)
<1>1. GoodQuery(W!CurrentOrg, org, None) /\ GoodPanel(W!DashboardClient, org, None)
  BY SwitcherIsGood, OneQueryIsGood DEF W!DashboardClient
<1>2. GoodPanel(W!OrganizationClient, org, None)
  <2>1. /\ GoodUse(W!Organizations.update, <<"org", "update">>, org, None)
        /\ GoodUse(W!Organizations.createWorkspace, <<"workspace", "create">>, org, None)
    BY OrganizationPasses, PassesIsGood
  <2>2. QED
    BY <1>1, <2>1, PanelIsGood DEF W!OrganizationClient, W!CreateWorkspaceDialog,
       GoodQueries, GoodControls, GoodUse
<1>3. GoodPanel(W!MembersClient, org, None)
  <2>1. /\ GoodRead(W!Organizations.listMembers, None, org, None)
        /\ GoodUse(W!Organizations.invite, <<"member", "invite">>, org, None)
    BY OrganizationPasses, PassesIsGood
  <2>2. QED
    BY <1>1, <2>1, PanelIsGood DEF W!MembersClient, W!Members, W!InviteMemberDialog,
       GoodQueries, GoodControls, GoodRead, GoodUse
<1>4. /\ GoodRead(W!AuthSessions.listSessions, None, org, None)
      /\ GoodUse(W!AuthSessions.revokeSession, None, org, None)
      /\ GoodUse(W!AuthSessions.logoutAll, None, org, None)
      /\ GoodUse(W!AuthSessions.changePassword, None, org, None)
      /\ GoodUse(W!Users.updateMe, None, org, None)
      /\ GoodUse(W!Users.regenerateBackupCodes, None, org, None)
      /\ GoodUse(W!Users.disableMfa, None, org, None)
  BY OwnRoutesPass, PassesIsGood
<1>5. GoodPanel(W!SessionsClient, org, None)
  BY <1>4, PanelIsGood DEF W!SessionsClient, GoodQueries, GoodControls, GoodRead, GoodUse
<1>6. /\ GoodPanel(W!ChangePasswordForm, org, None) /\ GoodPanel(W!MfaSection, org, None)
      /\ GoodPanel(W!ProfileForm, org, None)
  BY <1>4, PanelIsGood DEF W!ChangePasswordForm, W!MfaSection, W!ProfileForm,
     GoodQueries, GoodControls, GoodUse
<1>7. QED BY <1>1, <1>2, <1>3, <1>5, <1>6

LEMMA OutsideIsServed ==
    ASSUME NEW org \in OrgRole, NEW page \in DOMAIN W!OwnPage
    PROVE  W!Works(W!OwnPage[page], org, None)
<1> DEFINE Out(p) == GoodPanel(W!OutsideWorkspaces(p), org, None)
<1>1. ASSUME NEW p, GoodPanel(p, org, None) PROVE Out(p)
  <2>1. \A q \in {W!WorkspaceSwitcher, p} : GoodPanel(q, org, None)
    BY <1>1, SwitcherIsGood
  <2>2. QED BY <2>1, TogetherIsGood DEF W!OutsideWorkspaces
<1> DEFINE security == W!Together({W!ChangePasswordForm, W!MfaSection})
<1>2. GoodPanel(security, org, None)
  <2>1. \A q \in {W!ChangePasswordForm, W!MfaSection} : GoodPanel(q, org, None)
    BY OwnPagesAreGood
  <2>2. QED BY <2>1, TogetherIsGood
<1>3. /\ Out(W!DashboardClient) /\ Out(W!OrganizationClient) /\ Out(W!MembersClient)
      /\ Out(W!SessionsClient) /\ Out(security) /\ Out(W!ProfileForm)
  <2> HIDE DEF Out, security
  <2> QED BY <1>1, <1>2, OwnPagesAreGood
<1> HIDE DEF Out
<1>4. \E p : W!OwnPage[page] = W!OutsideWorkspaces(p) /\ Out(p)
  BY <1>3 DEF W!OwnPage
<1>5. QED BY <1>4, GoodWorks DEF Out

-----------------------------------------------------------------------------
(* The roles that users come to have.                                      *)

LEMMA RolesAre ==
    ASSUME TypeOK, NEW u \in User, NEW w \in exists
    PROVE  orgRole[u] \in OrgRole \cup {None} /\ wsRole[w][u] \in WsRole \cup {None}
  BY DEF TypeOK

LEMMA TypedPagesWork == TypeOK => PagesWork
<1> SUFFICES ASSUME TypeOK, NEW u \in User
             PROVE  /\ orgRole[u] # None => orgRole[u] \in ServedOutside
                    /\ \A w \in exists :
                        W!EntersWorkspace(orgRole[u], wsRole[w][u]) =>
                            <<orgRole[u], wsRole[w][u]>> \in ServedInWorkspace
  BY DEF PagesWork
<1>1. ASSUME orgRole[u] # None PROVE orgRole[u] \in ServedOutside
  <2>1. orgRole[u] \in OrgRole
    BY <1>1 DEF TypeOK
  <2>2. QED BY <2>1, OutsideIsServed DEF ServedOutside
<1>2. ASSUME NEW w \in exists, W!EntersWorkspace(orgRole[u], wsRole[w][u])
      PROVE  <<orgRole[u], wsRole[w][u]>> \in ServedInWorkspace
  <2> DEFINE org == orgRole[u]  ws == wsRole[w][u]
  <2>1. Inside(org, ws)
    BY <1>2, RolesAre DEF Inside
  <2>2. <<org, ws>> \in RolePairs
    BY RolesAre DEF RolePairs
  <2> HIDE DEF org, ws
  <2>3. \A page \in DOMAIN W!WorkspacePage :
           \/ page \in AsksForAccounts /\ LacksAccounts(org, ws)
           \/ W!Works(W!WorkspacePage[page], org, ws)
    BY <2>1, InsideIsServed
  <2>4. <<org, ws>> \in ServedInWorkspace
    BY <2>2, <2>3 DEF ServedInWorkspace
  <2>5. QED BY <2>4 DEF org, ws
<1>3. QED BY <1>1, <1>2

\* Whatever a page asks for and offers, the API grants to everybody who is let
\* in, but for the ad accounts that two pages ask for whoever asks (use-can.ts,
\* permission.guard.ts).
THEOREM PagesTheorem == Spec => []PagesWork
BY TypeCorrect, TypedPagesWork, PTL

LEMMA TypedDutiesSplit == TypeOK => DutiesAreSplit
<1> SUFFICES ASSUME TypeOK, NEW u \in User, NEW w \in exists
             PROVE  <<orgRole[u], wsRole[w][u]>> \in DutyPairs
  BY DEF DutiesAreSplit
<1>1. <<orgRole[u], wsRole[w][u]>> \in RolePairs
  BY RolesAre DEF RolePairs
<1>2. QED BY <1>1, PairsSplit

\* For any number of users and workspaces: nobody but those who run the workspace or
\* the organization deletes at Meta or changes the connection, a viewer edits
\* nothing, and a manager does not even replace the ad accounts, which a viewer can
\* (role-permissions.ts).
THEOREM DutiesTheorem == Spec => []DutiesAreSplit
BY TypeCorrect, TypedDutiesSplit, PTL
=============================================================================
