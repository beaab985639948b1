--------------------------- MODULE SessionsProofs ---------------------------
(***************************************************************************)
(* Proofs about the session table, for any number of sessions, users and   *)
(* requests in flight, crashes included.                                   *)
(***************************************************************************)
EXTENDS MCSessionsAlone, TLAPS

-----------------------------------------------------------------------------
(* Type correctness.                                                       *)

\* Stamping rows leaves every row in one of its states.
LEMMA StampType ==
    ASSUME NEW S, life \in [SessionId -> Life]
    PROVE  Stamp(S) \in [SessionId -> Life]
BY DEF Stamp, Life

\* A request that starts has a well-formed record.
LEMMA StartType ==
    ASSUME ReqOK(req), NEW r \in Request, NEW pc \in Pc, NEW s \in SessionId \cup {None},
           NEW u \in User \cup {None}, NEW why \in Why \cup {None},
           pc \in OnSession => s \in SessionId,
           Start(r, pc, s, u, why)
    PROVE  ReqOK(req')
<1>1. Reason(why) \in Why \cup {None}
  BY DEF Reason
<1>2. [pc |-> pc, sess |-> s, user |-> u, why |-> Reason(why)] \in ReqState
  BY <1>1 DEF ReqState
<1>3. QED BY <1>2 DEF Start, ReqOK

\* A request that finishes keeps a well-formed record.
LEMMA FinishType ==
    ASSUME ReqOK(req), NEW r \in Request, Finish(r)
    PROVE  ReqOK(req')
<1>1. Idle \in ReqState /\ Idle.pc \notin OnSession
  BY DEF Idle, ReqState, Pc, OnSession
<1>2. QED BY <1>1 DEF Finish, ReqOK

\* So does a request that moves on with the session it has.
LEMMA GotoType ==
    ASSUME ReqOK(req), NEW r \in Request, NEW pc \in Pc, Goto(r, pc),
           pc \in OnSession => req[r].sess \in SessionId
    PROVE  ReqOK(req')
<1>1. req' \in [Request -> ReqState]
  BY DEF Goto, ReqOK, ReqState
<1>2. ASSUME NEW q \in Request PROVE req'[q].pc \in OnSession => req'[q].sess \in SessionId
  BY DEF Goto, ReqOK, ReqState
<1>3. QED BY <1>1, <1>2 DEF ReqOK

\* Ending families records pairs of a session and a reason.
LEMMA EndType ==
    ASSUME ended \subseteq (SessionId \X Why), NEW F \in SUBSET SessionId, NEW why, End(F, why)
    PROVE  ended' \subseteq (SessionId \X Why)
BY WatchedAssumption DEF End

\* The families of a user are sessions.
LEMMA FamiliesType ==
    ASSUME lineage \in [SessionId -> Lineage], NEW u
    PROVE  Families(u) \subseteq SessionId
BY DEF Families, Lineage

\* Every variable keeps its type in every step of Sessions.
LEMMA TypeStep == TypeOK /\ [Next]_vars => TypeOK'
<1> SUFFICES ASSUME TypeOK, [Next]_vars PROVE TypeOK'
  OBVIOUS
<1> USE DEF TypeOK
<1>1. ASSUME NEW u \in User, Login(u) PROVE TypeOK'
  BY <1>1 DEF Login, Life, Lineage
<1>2. ASSUME NEW r \in Request, NEW t \in SessionId,
             RefreshReplay(r, t) \/ RefreshExpired(r, t) \/ RefreshLive(r, t)
             \/ Logout(r, t) \/ LogoutAll(r, t) \/ ChangePassword(r, t)
      PROVE  TypeOK'
  <2>1. owner[t] \in User \cup {None}
    OBVIOUS
  <2>2. ReqOK(req')
    BY <1>2, <2>1, StartType DEF RefreshReplay, RefreshExpired, RefreshLive, Logout,
       LogoutAll, ChangePassword, Pc, Why, OnSession
  <2>3. UNCHANGED <<life, expired, owner, access, blacklisted, lineage, ended>>
    BY <1>2 DEF RefreshReplay, RefreshExpired, RefreshLive, Logout, LogoutAll, ChangePassword
  <2>4. QED BY <2>2, <2>3
<1>3. ASSUME NEW r \in Request, NEW u \in User, ResetPassword(r, u) PROVE TypeOK'
  <2>1. ReqOK(req')
    BY <1>3, StartType DEF ResetPassword, Pc, Why, OnSession
  <2>2. QED BY <1>3, <2>1 DEF ResetPassword
<1>4. ASSUME NEW r \in Request, NEW s \in SessionId, NEW t \in SessionId,
             RevokeSession(r, s, t)
      PROVE  TypeOK'
  BY <1>4, StampType DEF RevokeSession
<1>5. ASSUME NEW r \in Request, ExpireRow(r) PROVE TypeOK'
  BY <1>5, StampType, FinishType DEF ExpireRow
<1>6. ASSUME NEW r \in Request, RotateCommit(r) PROVE TypeOK'
  <2>1. req[r].sess \in SessionId
    BY <1>6 DEF RotateCommit, ReqOK, OnSession
  <2>2. PICK c \in SessionId :
           /\ life' = [Stamp({req[r].sess}) EXCEPT ![c] = "live"]
           /\ owner' = [owner EXCEPT ![c] = owner[req[r].sess]]
           /\ lineage' = [lineage EXCEPT ![c] =
                [root |-> lineage[req[r].sess].root, parent |-> req[r].sess, by |-> r]]
           /\ access' = access \cup {c}
    BY <1>6 DEF RotateCommit
  <2>3. life' \in [SessionId -> Life]
    BY <2>2, StampType DEF Life
  <2>4. lineage' \in [SessionId -> Lineage]
    BY <2>1, <2>2 DEF Lineage
  <2>5. ReqOK(req')
    BY <1>6, FinishType DEF RotateCommit
  <2>6. QED BY <1>6, <2>1, <2>2, <2>3, <2>4, <2>5 DEF RotateCommit
<1>7. ASSUME NEW r \in Request, RotateAbort(r) \/ Crash(r) PROVE TypeOK'
  BY <1>7, FinishType DEF RotateAbort, Crash
<1>8. ASSUME NEW r \in Request, LogoutRevoke(r) PROVE TypeOK'
  <2>1. req[r].sess \in SessionId
    BY <1>8 DEF LogoutRevoke, ReqOK, OnSession
  <2>2. ReqOK(req')
    BY <1>8, <2>1, GotoType DEF LogoutRevoke, Pc
  <2>3. ended' \subseteq (SessionId \X Why)
    <3>1. {lineage[req[r].sess].root} \in SUBSET SessionId
      BY <2>1 DEF Lineage
    <3>2. QED BY <1>8, <3>1, EndType DEF LogoutRevoke
  <2>4. QED BY <1>8, <2>2, <2>3, StampType DEF LogoutRevoke
<1>9. ASSUME NEW r \in Request, LogoutBlacklist(r) PROVE TypeOK'
  <2>1. req[r].sess \in SessionId
    BY <1>9 DEF LogoutBlacklist, ReqOK, OnSession
  <2>2. QED BY <1>9, <2>1, FinishType DEF LogoutBlacklist
<1>10. ASSUME NEW r \in Request, SetPassword(r) PROVE TypeOK'
  <2>1. ReqOK(req')
    BY <1>10, GotoType DEF SetPassword, Pc, OnSession
  <2>2. ended' \subseteq (SessionId \X Why)
    <3>1. Families(req[r].user) \ KeptFamily(req[r].sess) \in SUBSET SessionId
      BY FamiliesType
    <3>2. QED BY <1>10, <3>1, EndType DEF SetPassword
  <2>3. QED BY <1>10, <2>1, <2>2 DEF SetPassword
<1>11. ASSUME NEW r \in Request, RevokeAll(r) PROVE TypeOK'
  <2>1. ReqOK(req')
    BY <1>11, FinishType DEF RevokeAll
  <2>2. ended' \subseteq (SessionId \X Why)
    BY <1>11, FamiliesType, EndType DEF RevokeAll
  <2>3. life' \in [SessionId -> Life]
    BY <1>11, StampType DEF RevokeAll
  <2>4. QED BY <1>11, <2>1, <2>2, <2>3 DEF RevokeAll
<1>12. ASSUME NEW s \in SessionId, Clock(s) PROVE TypeOK'
  BY <1>12 DEF Clock, AccessExpires, Expires, Ages, Life
<1>13. CASE Cleanup
  BY <1>13 DEF Cleanup, Life
<1>14. CASE UNCHANGED vars
  BY <1>14 DEF vars
<1>15. QED
  BY <1>1, <1>2, <1>3, <1>4, <1>5, <1>6, <1>7, <1>8, <1>9, <1>10, <1>11, <1>12, <1>13, <1>14
     DEF Next, Undisturbed, Arrive, Step

\* The type invariant holds in every behaviour.
THEOREM TypeCorrect == Spec => []TypeOK
<1>1. Init => TypeOK
  BY DEF Init, TypeOK, ReqOK, OnSession, Life, Lineage, Idle, ReqState, Pc
<1>2. QED BY <1>1, TypeStep, PTL DEF Spec

-----------------------------------------------------------------------------
(* The life of a row.                                                      *)

\* Where one step may take a row.
After(l) ==
    CASE l = "unused"  -> {"unused", "live"}
      [] l = "live"    -> {"live", "revoked", "deleted"}
      [] l = "revoked" -> {"revoked", "aged", "deleted"}
      [] l = "aged"    -> {"aged", "revoked", "deleted"}
      [] l = "deleted" -> {"deleted"}

\* Stamping moves a row forward only.
LEMMA StampAfter ==
    ASSUME life \in [SessionId -> Life], NEW S, NEW s \in SessionId
    PROVE  Stamp(S)[s] \in After(life[s]) /\ (Stamp(S)[s] = "unused" <=> life[s] = "unused")
BY DEF Stamp, Stored, Revoked, After, Life

\* Every step moves every row forward only.
LEMMA LifeStep ==
    ASSUME TypeOK, [Next]_vars, NEW s \in SessionId
    PROVE  life'[s] \in After(life[s])
<1> USE DEF TypeOK
<1>0. life[s] \in After(life[s])
  BY DEF After, Life
<1>1. ASSUME life' = life PROVE life'[s] \in After(life[s])
  BY <1>0, <1>1
<1>2. ASSUME NEW S, life' = Stamp(S) PROVE life'[s] \in After(life[s])
  BY <1>2, StampAfter
<1>3. ASSUME NEW u \in User, Login(u) PROVE life'[s] \in After(life[s])
  BY <1>3, <1>0 DEF Login, After
<1>4. ASSUME NEW r \in Request, RotateCommit(r) PROVE life'[s] \in After(life[s])
  <2>1. PICK c \in SessionId : life[c] = "unused" /\ life' = [Stamp({req[r].sess}) EXCEPT ![c] = "live"]
    BY <1>4 DEF RotateCommit
  <2>2. Stamp({req[r].sess}) \in [SessionId -> Life]
    BY StampType
  <2>3. QED BY <2>1, <2>2, StampAfter DEF After
<1>5. ASSUME NEW r \in Request, NEW t \in SessionId,
             RefreshReplay(r, t) \/ RefreshExpired(r, t) \/ RefreshLive(r, t)
             \/ Logout(r, t) \/ LogoutAll(r, t) \/ ChangePassword(r, t)
      PROVE  life' = life
  BY <1>5 DEF RefreshReplay, RefreshExpired, RefreshLive, Logout, LogoutAll, ChangePassword
<1>6. ASSUME NEW r \in Request, NEW u \in User, ResetPassword(r, u) PROVE life' = life
  BY <1>6 DEF ResetPassword
<1>7. ASSUME NEW r \in Request,
             RotateAbort(r) \/ LogoutBlacklist(r) \/ SetPassword(r) \/ Crash(r)
      PROVE  life' = life
  BY <1>7 DEF RotateAbort, LogoutBlacklist, SetPassword, Crash
<1>8. ASSUME NEW r \in Request, NEW t \in SessionId, NEW v \in SessionId, RevokeSession(r, t, v)
      PROVE  \E S : life' = Stamp(S)
  BY <1>8 DEF RevokeSession
<1>9. ASSUME NEW r \in Request, ExpireRow(r) \/ LogoutRevoke(r) \/ RevokeAll(r)
      PROVE  \E S : life' = Stamp(S)
  BY <1>9 DEF ExpireRow, LogoutRevoke, RevokeAll
<1>10. ASSUME NEW t \in SessionId, Clock(t) PROVE life'[s] \in After(life[s])
  BY <1>10, <1>0 DEF Clock, AccessExpires, Expires, Ages, After
<1>11. CASE Cleanup
  BY <1>11, <1>0 DEF Cleanup, Prunable, Stored, Revoked, After
<1>12. CASE UNCHANGED vars
  BY <1>12, <1>0 DEF vars
<1>13. QED
  BY <1>1, <1>2, <1>3, <1>4, <1>5, <1>6, <1>7, <1>8, <1>9, <1>10, <1>11, <1>12
     DEF Next, Undisturbed, Arrive, Step

\* A revoked session never comes back and a pruned row never returns.
THEOREM RevocationTheorem == Spec => RevocationIsFinal
<1>1. TypeOK /\ [Next]_vars =>
        [\A s \in SessionId :
           /\ Revoked(s) => life'[s] \in {"revoked", "aged", "deleted"}
           /\ life[s] = "deleted" => life'[s] = "deleted"]_vars
  BY LifeStep DEF After, Revoked
<1>2. QED BY <1>1, TypeCorrect, PTL DEF Spec, RevocationIsFinal

-----------------------------------------------------------------------------
(* The inductive invariant.                                                *)

\* A row that was never written has no history and no token anywhere.
UnusedIsFresh ==
    \A s \in SessionId : life[s] = "unused" =>
        /\ lineage[s].parent = None
        /\ s \notin blacklisted

\* A request that read the token t as live and has not committed yet has made
\* no session from t, and t was really issued.
RotatingIsPending ==
    \A r \in Request : req[r].pc = "rotating" =>
        /\ life[req[r].sess] # "unused"
        /\ \A c \in SessionId : Child(c, req[r].sess) => lineage[c].by # r

\* Logout is about to write the jti of a session it has revoked.
BlacklistIsPending ==
    \A r \in Request : req[r].pc = "blacklist" => life[req[r].sess] \notin {"unused", "live"}

IInv ==
    /\ TypeOK
    /\ UnusedIsFresh
    /\ RotatingIsPending
    /\ BlacklistIsPending
    /\ SpentStaysSpent
    /\ OneSessionPerPresenter
    /\ BlacklistedIsRevoked

\* It holds initially: no row has been written and no request is in flight.
LEMMA IInvInit == Init => IInv
<1>1. Init => TypeOK
  BY DEF Init, TypeOK, ReqOK, OnSession, Life, Lineage, Idle, ReqState, Pc
<1>2. QED BY <1>1 DEF Init, IInv, UnusedIsFresh, RotatingIsPending, BlacklistIsPending,
       SpentStaysSpent, OneSessionPerPresenter, BlacklistedIsRevoked, Child, Idle

\* A step that writes no new row keeps the parts about rows; the parts about
\* requests are kept if no request starts on a token that was exchanged.
LEMMA NoNewRow ==
    ASSUME IInv, [Next]_vars, lineage' = lineage,
           \A s \in SessionId : life'[s] = "unused" <=> life[s] = "unused",
           \A s \in blacklisted' \ blacklisted : s \in SessionId /\ life[s] \notin {"unused", "live"},
           \A r \in Request : req'[r].pc = "rotating" =>
              \/ req'[r] = req[r]
              \/ /\ req'[r].sess \in SessionId
                 /\ life[req'[r].sess] = "live",
           \A r \in Request : req'[r].pc = "blacklist" =>
              \/ req'[r] = req[r]
              \/ /\ req'[r].sess \in SessionId
                 /\ life'[req'[r].sess] = "revoked"
    PROVE  IInv'
<1>0. TypeOK'
  BY TypeStep DEF IInv
<1>1. \A s \in SessionId : life'[s] \in After(life[s])
  BY LifeStep DEF IInv
<1>2. UnusedIsFresh'
  BY <1>1 DEF IInv, UnusedIsFresh
<1>3. RotatingIsPending'
  BY <1>0, <1>1 DEF IInv, TypeOK, ReqOK, OnSession, RotatingIsPending, SpentStaysSpent, Child
<1>4. BlacklistIsPending'
  BY <1>0, <1>1 DEF IInv, TypeOK, ReqOK, OnSession, BlacklistIsPending, After, Life
<1>5. SpentStaysSpent'
  BY <1>1 DEF IInv, TypeOK, SpentStaysSpent, Child, After, Life
<1>6. OneSessionPerPresenter'
  BY DEF IInv, OneSessionPerPresenter, Child
<1>7. BlacklistedIsRevoked'
  BY <1>1 DEF IInv, TypeOK, BlacklistedIsRevoked, UnusedIsFresh, After, Life
<1>8. QED BY <1>0, <1>2, <1>3, <1>4, <1>5, <1>6, <1>7 DEF IInv

\* A login writes a row without a predecessor.
LEMMA LoginStep == ASSUME IInv, NEW u \in User, Login(u) PROVE IInv'
<1>1. PICK c \in SessionId :
         /\ life[c] = "unused"
         /\ life' = [life EXCEPT ![c] = "live"]
         /\ lineage' = [lineage EXCEPT ![c] = [root |-> c, parent |-> None, by |-> None]]
         /\ UNCHANGED <<blacklisted, req>>
  BY DEF Login
<1>2. TypeOK' /\ TypeOK
  BY TypeStep DEF IInv, Next, Undisturbed
<1>3. \A p \in SessionId : ~Child(c, p)' /\ ~Child(c, p)
  BY <1>1, <1>2, NoneAssumption DEF Child, TypeOK, IInv, UnusedIsFresh
<1>4. \A d, p \in SessionId : d # c => (Child(d, p)' <=> Child(d, p)) /\ lineage'[d] = lineage[d]
  BY <1>1, <1>2 DEF Child, TypeOK
<1>5. \A s \in SessionId : s # c => life'[s] = life[s]
  BY <1>1, <1>2 DEF TypeOK
<1>6. \A d \in SessionId : ~Child(d, c)
  BY <1>1 DEF IInv, SpentStaysSpent
<1>7. UnusedIsFresh'
  BY <1>1, <1>2, <1>4, <1>5 DEF IInv, UnusedIsFresh, TypeOK
<1>8. RotatingIsPending'
  <2> SUFFICES ASSUME NEW r \in Request, NEW p \in SessionId,
                      req[r].pc = "rotating", p = req[r].sess
               PROVE  /\ life'[p] # "unused"
                      /\ \A d \in SessionId : Child(d, p)' => lineage'[d].by # r
    BY <1>1, <1>2 DEF RotatingIsPending, Child, TypeOK, ReqOK, OnSession
  <2>1. p # c
    BY <1>1 DEF IInv, RotatingIsPending
  <2>2. QED BY <2>1, <1>3, <1>4, <1>5 DEF IInv, RotatingIsPending
<1>9. BlacklistIsPending'
  BY <1>1, <1>2, <1>5 DEF IInv, TypeOK, ReqOK, OnSession, BlacklistIsPending
<1>10. SpentStaysSpent'
  BY <1>3, <1>4, <1>5, <1>6 DEF IInv, SpentStaysSpent
<1>11. OneSessionPerPresenter'
  BY <1>3, <1>4 DEF IInv, OneSessionPerPresenter
<1>12. BlacklistedIsRevoked'
  BY <1>1, <1>2, <1>5 DEF IInv, BlacklistedIsRevoked, UnusedIsFresh, TypeOK
<1>13. QED
  BY <1>2, <1>7, <1>8, <1>9, <1>10, <1>11, <1>12 DEF IInv

\* A rotation writes a row whose predecessor is stamped in the same
\* transaction, and takes its request out of the race.
LEMMA RotateStep == ASSUME IInv, NEW r \in Request, RotateCommit(r) PROVE IInv'
<1> DEFINE t == req[r].sess
<1>1. PICK c \in SessionId :
         /\ life[c] = "unused"
         /\ life' = [Stamp({t}) EXCEPT ![c] = "live"]
         /\ lineage' = [lineage EXCEPT ![c] = [root |-> lineage[t].root, parent |-> t, by |-> r]]
         /\ UNCHANGED blacklisted
         /\ Finish(r)
         /\ Stored(t)
         /\ req[r].pc = "rotating"
  BY DEF RotateCommit
<1>2. TypeOK' /\ TypeOK
  BY TypeStep DEF IInv, Next, Undisturbed, Step
<1>3. t \in SessionId /\ t # c
  BY <1>1, <1>2 DEF TypeOK, ReqOK, OnSession, Stored, Revoked
<1>4. /\ life'[c] = "live"
      /\ \A s \in SessionId \ {c} :
            life'[s] = IF s = t THEN "revoked" ELSE life[s]
  BY <1>1, <1>3 DEF Stamp
<1>5. /\ \A p \in SessionId : Child(c, p)' <=> p = t
      /\ \A p \in SessionId : ~Child(c, p)
      /\ lineage'[c].by = r
  BY <1>1, <1>2, <1>3, NoneAssumption DEF Child, TypeOK, IInv, UnusedIsFresh
<1>6. \A d, p \in SessionId : d # c => (Child(d, p)' <=> Child(d, p)) /\ lineage'[d] = lineage[d]
  BY <1>1, <1>2 DEF Child, TypeOK
<1>7. \A d \in SessionId : ~Child(d, c)
  BY <1>1 DEF IInv, SpentStaysSpent
<1>8. \A q \in Request : q # r => req'[q] = req[q]
  BY <1>1, <1>2 DEF Finish, TypeOK, ReqOK
<1>9. req'[r].pc = "idle"
  BY <1>1, <1>2 DEF Finish, TypeOK, ReqOK, Idle
<1>10. UnusedIsFresh'
  BY <1>1, <1>2, <1>4, <1>6 DEF IInv, UnusedIsFresh, TypeOK
<1>11. RotatingIsPending'
  <2> SUFFICES ASSUME NEW q \in Request, NEW p \in SessionId,
                      q # r, req[q].pc = "rotating", p = req[q].sess
               PROVE  /\ life'[p] # "unused"
                      /\ \A d \in SessionId : Child(d, p)' => lineage'[d].by # q
    BY <1>2, <1>8, <1>9 DEF RotatingIsPending, Child, TypeOK, ReqOK, OnSession
  <2>1. p # c
    BY <1>1 DEF IInv, RotatingIsPending
  <2>2. QED BY <2>1, <1>4, <1>5, <1>6 DEF IInv, RotatingIsPending
<1>12. BlacklistIsPending'
  <2> SUFFICES ASSUME NEW q \in Request, NEW p \in SessionId,
                      q # r, req[q].pc = "blacklist", p = req[q].sess
               PROVE  life'[p] \notin {"unused", "live"}
    BY <1>2, <1>8, <1>9 DEF BlacklistIsPending, TypeOK, ReqOK, OnSession
  <2>1. life[p] \notin {"unused", "live"}
    BY DEF IInv, BlacklistIsPending
  <2>2. QED BY <2>1, <1>1, <1>4
<1>13. SpentStaysSpent'
  BY <1>3, <1>4, <1>5, <1>6, <1>7 DEF IInv, SpentStaysSpent
<1>14. OneSessionPerPresenter'
  <2>1. \A d \in SessionId : Child(d, t) => lineage[d].by # r
    BY <1>1 DEF IInv, RotatingIsPending
  <2>2. QED BY <2>1, <1>3, <1>5, <1>6 DEF IInv, OneSessionPerPresenter
<1>15. BlacklistedIsRevoked'
  BY <1>1, <1>2, <1>4 DEF IInv, BlacklistedIsRevoked, UnusedIsFresh, TypeOK
<1>16. QED
  BY <1>2, <1>10, <1>11, <1>12, <1>13, <1>14, <1>15 DEF IInv

\* Every step keeps the inductive invariant.
LEMMA IInvStep == IInv /\ [Next]_vars => IInv'
<1> SUFFICES ASSUME IInv, [Next]_vars PROVE IInv'
  OBVIOUS
<1>0. TypeOK
  BY DEF IInv
<1> USE <1>0 DEF TypeOK
<1>1. ASSUME NEW u \in User, Login(u) PROVE IInv'
  BY <1>1, LoginStep
<1>2. ASSUME NEW r \in Request, RotateCommit(r) PROVE IInv'
  BY <1>2, RotateStep
<1>3. ASSUME NEW r \in Request, NEW t \in SessionId,
             RefreshReplay(r, t) \/ RefreshExpired(r, t) \/ RefreshLive(r, t)
             \/ Logout(r, t) \/ LogoutAll(r, t) \/ ChangePassword(r, t)
      PROVE  IInv'
  <2>1. UNCHANGED <<life, lineage, blacklisted>>
    BY <1>3 DEF RefreshReplay, RefreshExpired, RefreshLive, Logout, LogoutAll, ChangePassword
  <2>2. \A q \in Request : q # r => req'[q] = req[q]
    BY <1>3 DEF RefreshReplay, RefreshExpired, RefreshLive, Logout, LogoutAll,
       ChangePassword, Start, ReqOK
  <2>3. req'[r].pc # "blacklist"
    BY <1>3 DEF RefreshReplay, RefreshExpired, RefreshLive, Logout, LogoutAll,
       ChangePassword, Start, ReqOK
  <2>4. req'[r].pc = "rotating" => req'[r].sess = t /\ life[t] = "live"
    BY <1>3 DEF RefreshReplay, RefreshExpired, RefreshLive, Logout, LogoutAll,
       ChangePassword, Start, ReqOK
  <2>5. QED BY <2>1, <2>2, <2>3, <2>4, NoNewRow
<1>4. ASSUME NEW r \in Request, NEW u \in User, ResetPassword(r, u) PROVE IInv'
  BY <1>4, NoNewRow DEF ResetPassword, Start, ReqOK
<1>5. ASSUME NEW r \in Request, NEW s \in SessionId, NEW t \in SessionId, RevokeSession(r, s, t)
      PROVE  IInv'
  BY <1>5, StampAfter, NoNewRow DEF RevokeSession
<1>6. ASSUME NEW r \in Request, ExpireRow(r) \/ RevokeAll(r) PROVE IInv'
  BY <1>6, StampAfter, NoNewRow DEF ExpireRow, RevokeAll, Finish, Idle, ReqOK
<1>7. ASSUME NEW r \in Request, RotateAbort(r) \/ Crash(r) PROVE IInv'
  BY <1>7, NoNewRow DEF RotateAbort, Crash, Finish, Idle, ReqOK
<1>8. ASSUME NEW r \in Request, LogoutRevoke(r) PROVE IInv'
  <2>1. req[r].sess \in SessionId
    BY <1>8 DEF LogoutRevoke, ReqOK, OnSession
  <2>2. /\ life' = Stamp({req[r].sess})
        /\ life'[req[r].sess] = "revoked"
        /\ UNCHANGED <<lineage, blacklisted>>
    BY <1>8, <2>1 DEF LogoutRevoke, Stamp
  <2>3. \A q \in Request : q # r => req'[q] = req[q]
    BY <1>8 DEF LogoutRevoke, Goto, ReqOK
  <2>4. req'[r].pc = "blacklist" /\ req'[r].sess = req[r].sess
    BY <1>8 DEF LogoutRevoke, Goto, ReqOK, ReqState
  <2>5. QED BY <2>1, <2>2, <2>3, <2>4, StampAfter, NoNewRow
<1>9. ASSUME NEW r \in Request, LogoutBlacklist(r) PROVE IInv'
  <2>1. req[r].sess \in SessionId /\ life[req[r].sess] \notin {"unused", "live"}
    BY <1>9 DEF LogoutBlacklist, ReqOK, OnSession, IInv, BlacklistIsPending
  <2>2. QED BY <1>9, <2>1, NoNewRow DEF LogoutBlacklist, Finish, Idle, ReqOK
<1>10. ASSUME NEW r \in Request, SetPassword(r) PROVE IInv'
  BY <1>10, NoNewRow DEF SetPassword, Goto, ReqOK, ReqState
<1>11. ASSUME NEW s \in SessionId, Clock(s) PROVE IInv'
  BY <1>11, NoNewRow DEF Clock, AccessExpires, Expires, Ages
<1>12. CASE Cleanup
  BY <1>12, NoNewRow DEF Cleanup, Prunable, Stored, Revoked
<1>13. CASE UNCHANGED vars
  BY <1>13, NoNewRow DEF vars
<1>14. QED
  BY <1>1, <1>2, <1>3, <1>4, <1>5, <1>6, <1>7, <1>8, <1>9, <1>10, <1>11, <1>12, <1>13
     DEF Next, Undisturbed, Arrive, Step

\* The inductive invariant holds in every behaviour.
LEMMA IInvAlways == Spec => []IInv
BY IInvInit, IInvStep, PTL DEF Spec

\* An exchanged refresh token is never live again.
THEOREM SpentTheorem == Spec => []SpentStaysSpent
<1>1. IInv => SpentStaysSpent
  BY DEF IInv
<1>2. QED BY <1>1, IInvAlways, PTL

\* No request slot obtains two sessions from one refresh token, however the
\* reads and the transactions of rotate interleave.
THEOREM OneSessionPerPresenterTheorem == Spec => []OneSessionPerPresenter
<1>1. IInv => OneSessionPerPresenter
  BY DEF IInv
<1>2. QED BY <1>1, IInvAlways, PTL

\* An access token is blacklisted only after its session was revoked.
THEOREM BlacklistTheorem == Spec => []BlacklistedIsRevoked
<1>1. IInv => BlacklistedIsRevoked
  BY DEF IInv
<1>2. QED BY <1>1, IInvAlways, PTL

-----------------------------------------------------------------------------
(* One request at a time.  Two overlapping exchanges of one token both      *)
(* commit, so what follows is about deployments with a single slot.         *)

OneSlot == \A q, r \in Request : q = r

\* A token that was read as live is live when it is exchanged, unless its row
\* has been pruned in the meantime.
RotatingIsLive ==
    \A r \in Request : req[r].pc = "rotating" => life[req[r].sess] \in {"live", "deleted"}

\* With a single slot the inductive invariant gains that.
LEMMA RotatingStep ==
    ASSUME OneSlot, IInv, RotatingIsLive, [Next]_vars PROVE RotatingIsLive'
<1> SUFFICES ASSUME NEW r \in Request, req'[r].pc = "rotating"
             PROVE  life'[req'[r].sess] \in {"live", "deleted"}
  BY DEF RotatingIsLive
<1>0. /\ req \in [Request -> ReqState] /\ life \in [SessionId -> Life]
      /\ req[r].pc \in OnSession => req[r].sess \in SessionId
      /\ \A q \in Request : q = r
  BY DEF IInv, TypeOK, ReqOK, OneSlot
<1>1. ASSUME req'[r] = req[r], UNCHANGED life
      PROVE  life'[req'[r].sess] \in {"live", "deleted"}
  BY <1>1 DEF RotatingIsLive
<1>2. ASSUME NEW u \in User, Login(u) PROVE life'[req'[r].sess] \in {"live", "deleted"}
  <2>1. req[r].sess \in SessionId /\ life[req[r].sess] \in {"live", "deleted"} /\ req' = req
    BY <1>0, <1>2 DEF Login, RotatingIsLive, OnSession
  <2>2. QED BY <1>0, <1>2, <2>1 DEF Login
<1>3. ASSUME NEW t \in SessionId,
             RefreshReplay(r, t) \/ RefreshExpired(r, t) \/ RefreshLive(r, t)
             \/ Logout(r, t) \/ LogoutAll(r, t) \/ ChangePassword(r, t)
      PROVE  life'[req'[r].sess] \in {"live", "deleted"}
  BY <1>0, <1>3 DEF RefreshReplay, RefreshExpired, RefreshLive, Logout, LogoutAll,
     ChangePassword, Start
<1>4. ASSUME NEW u \in User, ResetPassword(r, u) PROVE FALSE
  BY <1>0, <1>4 DEF ResetPassword, Start
<1>5. ASSUME NEW s \in SessionId, NEW t \in SessionId, RevokeSession(r, s, t) PROVE FALSE
  BY <1>5 DEF RevokeSession
<1>6. ASSUME Step(r) \/ Crash(r) PROVE FALSE
  BY <1>0, <1>6 DEF Step, ExpireRow, RotateCommit, RotateAbort, LogoutRevoke, LogoutBlacklist,
     SetPassword, RevokeAll, Crash, Finish, Goto, Idle, ReqState
<1>7. ASSUME req' = req, NEW s \in SessionId, Clock(s) \/ Cleanup
      PROVE  life'[req'[r].sess] \in {"live", "deleted"}
  <2>1. req[r].sess \in SessionId /\ life[req[r].sess] \in {"live", "deleted"}
    BY <1>0, <1>7 DEF RotatingIsLive, OnSession
  <2>2. QED BY <1>0, <1>7, <2>1 DEF Clock, AccessExpires, Expires, Ages, Cleanup
<1>8. CASE UNCHANGED vars
  BY <1>1, <1>8 DEF vars
<1>9. ASSUME NEW s \in SessionId, Clock(s) PROVE req' = req
  BY <1>9 DEF Clock, AccessExpires, Expires, Ages
<1>10. ASSUME Cleanup PROVE req' = req /\ \E s \in SessionId : TRUE
  BY <1>10 DEF Cleanup, Prunable
<1>11. QED
  BY <1>0, <1>2, <1>3, <1>4, <1>5, <1>6, <1>7, <1>8, <1>9, <1>10
     DEF Next, Undisturbed, Arrive

-----------------------------------------------------------------------------
(* Sessions with a single slot implement AtomicSessions.                    *)

\* Stamping rows is closing those of them that are live.
LEMMA StampCloses ==
    ASSUME life \in [SessionId -> Life], NEW S \in SUBSET SessionId, life' = Stamp(S),
           UNCHANGED <<owner, lineage>>
    PROVE  A!ANext
<1> DEFINE L == {s \in S : life[s] = "live"}
<1>1. \A s \in L : AbsState[s] = "live"
  BY DEF AbsState
<1>2. AbsState' = [s \in SessionId |-> IF s \in L THEN "revoked" ELSE AbsState[s]]
  BY DEF AbsState, Stamp, Stored, Revoked
<1>3. AbsFrom' = AbsFrom
  BY DEF AbsFrom
<1>4. L \in SUBSET SessionId /\ A!Close(L)
  BY <1>1, <1>2, <1>3 DEF A!Close
<1>5. QED BY <1>4 DEF A!ANext

\* Every step of Sessions is a step of AtomicSessions, or invisible to it.
LEMMA AtomicStep ==
    ASSUME IInv, RotatingIsLive, [Next]_vars PROVE [A!ANext]_(A!avars)
<1>0. /\ life \in [SessionId -> Life] /\ owner \in [SessionId -> User \cup {None}]
      /\ lineage \in [SessionId -> Lineage]
      /\ \A r \in Request : req[r].pc \in OnSession => req[r].sess \in SessionId
  BY DEF IInv, TypeOK, ReqOK
<1>1. ASSUME UNCHANGED <<life, owner, lineage>> PROVE UNCHANGED A!avars
  BY <1>1 DEF A!avars, AbsState, AbsFrom
<1>2. ASSUME NEW u \in User, Login(u) PROVE A!ANext
  <2>1. PICK c \in SessionId :
           /\ life[c] = "unused"
           /\ life' = [life EXCEPT ![c] = "live"]
           /\ owner' = [owner EXCEPT ![c] = u]
           /\ lineage' = [lineage EXCEPT ![c] = [root |-> c, parent |-> None, by |-> None]]
    BY <1>2 DEF Login
  <2>2. AbsState[c] = "unused" /\ AbsState' = [AbsState EXCEPT ![c] = "live"]
    BY <1>0, <2>1 DEF AbsState
  <2>3. lineage[c].parent = None
    BY <2>1 DEF IInv, UnusedIsFresh
  <2>4. AbsFrom' = AbsFrom
    BY <1>0, <2>1, <2>3 DEF AbsFrom
  <2>5. A!Open(c)
    BY <2>1, <2>2, <2>4 DEF A!Open
  <2>6. QED BY <2>5 DEF A!ANext
<1>3. ASSUME NEW r \in Request, RotateCommit(r) PROVE A!ANext
  <2> DEFINE t == req[r].sess
  <2>1. PICK c \in SessionId :
           /\ life[c] = "unused"
           /\ life' = [Stamp({t}) EXCEPT ![c] = "live"]
           /\ owner' = [owner EXCEPT ![c] = owner[t]]
           /\ lineage' = [lineage EXCEPT ![c] = [root |-> lineage[t].root, parent |-> t, by |-> r]]
    BY <1>3 DEF RotateCommit
  <2>2. t \in SessionId /\ life[t] = "live"
    BY <1>0, <1>3 DEF RotateCommit, OnSession, RotatingIsLive, Stored, Revoked
  <2>3. AbsState[t] = "live" /\ AbsState[c] = "unused"
    BY <2>1, <2>2 DEF AbsState
  <2>4. AbsState' = [AbsState EXCEPT ![t] = "revoked", ![c] = "live"]
    BY <1>0, <2>1, <2>2 DEF AbsState, Stamp, Stored
  <2>5. AbsFrom' = [AbsFrom EXCEPT ![c] = t]
    BY <1>0, <2>1 DEF AbsFrom
  <2>6. A!Exchange(t, c)
    BY <2>1, <2>3, <2>4, <2>5 DEF A!Exchange
  <2>7. QED BY <2>2, <2>6 DEF A!ANext
<1>4. ASSUME NEW r \in Request, NEW t \in SessionId,
             RefreshReplay(r, t) \/ RefreshExpired(r, t) \/ RefreshLive(r, t)
             \/ Logout(r, t) \/ LogoutAll(r, t) \/ ChangePassword(r, t)
      PROVE  UNCHANGED A!avars
  BY <1>1, <1>4 DEF RefreshReplay, RefreshExpired, RefreshLive, Logout, LogoutAll, ChangePassword
<1>5. ASSUME NEW r \in Request, NEW u \in User, ResetPassword(r, u) PROVE UNCHANGED A!avars
  BY <1>1, <1>5 DEF ResetPassword
<1>6. ASSUME NEW r \in Request,
             RotateAbort(r) \/ LogoutBlacklist(r) \/ SetPassword(r) \/ Crash(r)
      PROVE  UNCHANGED A!avars
  BY <1>1, <1>6 DEF RotateAbort, LogoutBlacklist, SetPassword, Crash
<1>7. ASSUME NEW r \in Request, NEW s \in SessionId, NEW t \in SessionId, RevokeSession(r, s, t)
      PROVE  A!ANext
  BY <1>0, <1>7, StampCloses DEF RevokeSession
<1>8. ASSUME NEW r \in Request, ExpireRow(r) \/ LogoutRevoke(r) PROVE A!ANext
  <2>1. {req[r].sess} \in SUBSET SessionId
    BY <1>0, <1>8 DEF ExpireRow, LogoutRevoke, OnSession
  <2>2. QED BY <1>0, <1>8, <2>1, StampCloses DEF ExpireRow, LogoutRevoke
<1>9. ASSUME NEW r \in Request, RevokeAll(r) PROVE A!ANext
  <2>1. OpenRows(req[r].user, req[r].sess) \in SUBSET SessionId
    BY DEF OpenRows
  <2>2. QED BY <1>0, <1>9, <2>1, StampCloses DEF RevokeAll
<1>10. ASSUME NEW s \in SessionId, Clock(s) PROVE UNCHANGED A!avars
  <2>1. AbsState' = AbsState /\ UNCHANGED <<owner, lineage>>
    BY <1>0, <1>10 DEF Clock, AccessExpires, Expires, Ages, AbsState
  <2>2. QED BY <2>1 DEF A!avars, AbsFrom
<1>11. CASE Cleanup
  <2>1. Prunable \in SUBSET SessionId /\ \A s \in Prunable : AbsState[s] \in {"live", "revoked"}
    BY DEF Prunable, Stored, Revoked, AbsState
  <2>2. AbsState' = [s \in SessionId |-> IF s \in Prunable THEN "deleted" ELSE AbsState[s]]
    BY <1>11 DEF Cleanup, AbsState
  <2>3. owner' = owner /\ AbsFrom' = AbsFrom
    BY <1>11 DEF Cleanup, AbsFrom
  <2>4. A!Forget(Prunable)
    BY <2>1, <2>2, <2>3 DEF A!Forget
  <2>5. QED BY <2>1, <2>4 DEF A!ANext
<1>12. CASE UNCHANGED vars
  BY <1>1, <1>12 DEF vars
<1>13. QED
  BY <1>2, <1>3, <1>4, <1>5, <1>6, <1>7, <1>8, <1>9, <1>10, <1>11, <1>12
     DEF Next, Undisturbed, Arrive, Step

\* CalmSpec takes steps of Spec only, so the inductive invariant holds there.
LEMMA CalmAlways ==
    ASSUME OneSlot PROVE CalmSpec => [](IInv /\ RotatingIsLive)
<1>1. CalmInit => IInv /\ RotatingIsLive
  BY IInvInit DEF CalmInit, Init, RotatingIsLive, Idle
<1>2. [CalmNext]_<<vars, calm>> => [Next]_vars
  BY DEF CalmNext, Next
<1>3. IInv /\ RotatingIsLive /\ [CalmNext]_<<vars, calm>> => (IInv /\ RotatingIsLive)'
  BY <1>2, IInvStep, RotatingStep
<1>4. QED BY <1>1, <1>3, PTL DEF CalmSpec

\* One request at a time, each token has one linear life: it is exchanged at
\* most once, indivisibly and while it is live, crashes included.
THEOREM AtomicTheorem == ASSUME OneSlot PROVE CalmSpec => Atomic
<1>1. CalmInit => A!AInit
  BY DEF CalmInit, Init, A!AInit, AbsState, AbsFrom
<1>2. IInv /\ RotatingIsLive /\ [CalmNext]_<<vars, calm>> => [A!ANext]_(A!avars)
  <2>1. [CalmNext]_<<vars, calm>> => [Next]_vars
    BY DEF CalmNext, Next
  <2>2. QED BY <2>1, AtomicStep
<1>3. QED BY <1>1, <1>2, CalmAlways, PTL DEF CalmSpec, Atomic, A!ASpec

-----------------------------------------------------------------------------
(* One request at a time, and no process dies: ended families stay ended.   *)

\* A row and the login it grew out of belong to the same user.
RootsAreOwned ==
    \A s \in SessionId : life[s] # "unused" =>
        /\ lineage[s].root \in SessionId
        /\ life[lineage[s].root] # "unused"
        /\ owner[lineage[s].root] = owner[s]

\* Only logins that took place have been ended.
EndedTookPlace == \A f \in SessionId, why \in Why : <<f, why>> \in ended => life[f] # "unused"

\* A reset and the answer to a theft spare no session, and only a reset or a
\* change sets a password.
ReasonsFit ==
    \A r \in Request :
        /\ req[r].pc \in {"setPassword", "revokeAll"} /\ req[r].why \in {"reset", "theft"}
               => req[r].sess = None
        /\ req[r].pc = "setPassword" => req[r].why # "theft"

\* The handler in slot r is about to revoke all sessions of the user u.
Sweeping(r, u) == req[r].pc = "revokeAll" /\ req[r].user = u /\ req[r].sess = None

EndedAreSwept ==
    \A s \in SessionId, why \in {"reset", "theft"} :
        life[s] = "live" /\ <<lineage[s].root, why>> \in ended
            => \E r \in Request : Sweeping(r, owner[s])

CalmInv ==
    /\ RootsAreOwned
    /\ EndedTookPlace
    /\ ReasonsFit
    /\ calm => EndedAreSwept

\* Rows keep the owner of their login, whoever rotates them.
LEMMA RootsStep == ASSUME IInv, RootsAreOwned, [Next]_vars PROVE RootsAreOwned'
<1>0. /\ TypeOK /\ TypeOK' /\ \A s \in SessionId : life'[s] \in After(life[s])
  BY TypeStep, LifeStep DEF IInv
<1>1. ASSUME UNCHANGED <<owner, lineage>>,
             \A s \in SessionId : life[s] = "unused" => life'[s] = "unused"
      PROVE  RootsAreOwned'
  BY <1>0, <1>1 DEF RootsAreOwned, After, TypeOK, Life
<1>2. ASSUME NEW c \in SessionId, life[c] = "unused", life'[c] = "live",
             NEW f \in SessionId, NEW u, NEW l, l.root = f,
             f = c \/ (life[f] # "unused" /\ owner[f] = u),
             owner' = [owner EXCEPT ![c] = u], lineage' = [lineage EXCEPT ![c] = l],
             \A s \in SessionId \ {c} : life[s] = "unused" => life'[s] = "unused"
      PROVE  RootsAreOwned'
  <2>1. /\ owner'[c] = u /\ lineage'[c].root = f
        /\ \A s \in SessionId : s # c => owner'[s] = owner[s] /\ lineage'[s] = lineage[s]
    BY <1>0, <1>2 DEF TypeOK
  <2>2. \A s \in SessionId : life[s] # "unused" => life'[s] # "unused"
    BY <1>0 DEF After, TypeOK, Life
  <2>3. ASSUME NEW s \in SessionId, s # c, life'[s] # "unused"
        PROVE  /\ lineage'[s].root \in SessionId
               /\ life'[lineage'[s].root] # "unused"
               /\ owner'[lineage'[s].root] = owner'[s]
    BY <1>2, <2>1, <2>2, <2>3 DEF RootsAreOwned
  <2>4. life'[f] # "unused" /\ owner'[f] = u
    BY <1>2, <2>1, <2>2
  <2>5. QED BY <2>1, <2>3, <2>4 DEF RootsAreOwned
<1>3. ASSUME NEW u \in User, Login(u) PROVE RootsAreOwned'
  <2>1. PICK c \in SessionId :
           /\ life[c] = "unused"
           /\ life' = [life EXCEPT ![c] = "live"]
           /\ owner' = [owner EXCEPT ![c] = u]
           /\ lineage' = [lineage EXCEPT ![c] = [root |-> c, parent |-> None, by |-> None]]
    BY <1>3 DEF Login
  <2>2. life'[c] = "live" /\ \A s \in SessionId \ {c} : life'[s] = life[s]
    BY <1>0, <2>1 DEF TypeOK
  <2>3. [root |-> c, parent |-> None, by |-> None].root = c
    OBVIOUS
  <2>4. QED BY <2>1, <2>2, <2>3, <1>2
<1>4. ASSUME NEW r \in Request, RotateCommit(r) PROVE RootsAreOwned'
  <2> DEFINE t == req[r].sess
  <2>1. PICK c \in SessionId :
           /\ life[c] = "unused"
           /\ life' = [Stamp({t}) EXCEPT ![c] = "live"]
           /\ owner' = [owner EXCEPT ![c] = owner[t]]
           /\ lineage' = [lineage EXCEPT ![c] = [root |-> lineage[t].root, parent |-> t, by |-> r]]
    BY <1>4 DEF RotateCommit
  <2>2. t \in SessionId /\ life[t] # "unused"
    BY <1>0, <1>4 DEF RotateCommit, TypeOK, ReqOK, OnSession, Stored, Revoked
  <2>3. life'[c] = "live" /\ \A s \in SessionId \ {c} : life[s] = "unused" => life'[s] = "unused"
    BY <2>1 DEF Stamp, Stored, Revoked
  <2>4. /\ lineage[t].root \in SessionId /\ life[lineage[t].root] # "unused"
        /\ owner[lineage[t].root] = owner[t]
    BY <2>2 DEF RootsAreOwned
  <2>5. [root |-> lineage[t].root, parent |-> t, by |-> r].root = lineage[t].root
    OBVIOUS
  <2>6. QED BY <2>1, <2>3, <2>4, <2>5, <1>2
<1>5. ASSUME NEW S, life' = Stamp(S), UNCHANGED <<owner, lineage>> PROVE RootsAreOwned'
  <2>1. \A s \in SessionId : life[s] = "unused" => life'[s] = "unused"
    BY <1>0, <1>5, StampAfter DEF TypeOK
  <2>2. QED BY <1>1, <1>5, <2>1
<1>6. ASSUME NEW r \in Request, Arrive(r) \/ ExpireRow(r) \/ LogoutRevoke(r) \/ RevokeAll(r)
                                \/ RotateAbort(r) \/ LogoutBlacklist(r) \/ SetPassword(r) \/ Crash(r)
      PROVE  (life' = life \/ \E S : life' = Stamp(S)) /\ UNCHANGED <<owner, lineage>>
  BY <1>6 DEF Arrive, RefreshReplay, RefreshExpired, RefreshLive, Logout, LogoutAll, ChangePassword,
     ResetPassword, RevokeSession, ExpireRow, LogoutRevoke, RevokeAll, RotateAbort,
     LogoutBlacklist, SetPassword, Crash
<1>7. ASSUME (\E s \in SessionId : Clock(s)) \/ Cleanup \/ UNCHANGED vars PROVE RootsAreOwned'
  <2>1. UNCHANGED <<owner, lineage>>
    BY <1>7 DEF Clock, AccessExpires, Expires, Ages, Cleanup, vars
  <2>2. \A s \in SessionId : life[s] = "unused" => life'[s] = "unused"
    BY <1>0, <1>7 DEF Clock, AccessExpires, Expires, Ages, Cleanup, Prunable, Stored, Revoked,
       vars, TypeOK
  <2>3. QED BY <1>1, <2>1, <2>2
<1>8. QED
  BY <1>1, <1>3, <1>4, <1>5, <1>6, <1>7 DEF Next, Undisturbed, Step

\* The families of a user are logins that took place.
LEMMA FamiliesTookPlace ==
    ASSUME TypeOK, RootsAreOwned, NEW u, NEW f \in Families(u)
    PROVE  f \in SessionId /\ life[f] # "unused" /\ owner[f] = u
<1>1. PICK s \in SessionId : Stored(s) /\ owner[s] = u /\ f = lineage[s].root
  BY DEF Families
<1>2. QED BY <1>1 DEF RootsAreOwned, Stored, Revoked

\* What is ended is the login of a session, or families of the user.
LEMMA EndedStep ==
    ASSUME IInv, RootsAreOwned, EndedTookPlace, [Next]_vars PROVE EndedTookPlace'
<1>0. /\ TypeOK /\ \A s \in SessionId : life'[s] \in After(life[s])
  BY LifeStep DEF IInv
<1>1. ASSUME NEW F \in SUBSET SessionId, \A f \in F : life[f] # "unused", NEW why,
             ended' = ended \/ End(F, why)
      PROVE  EndedTookPlace'
  <2> SUFFICES ASSUME NEW f \in SessionId, NEW w \in Why, <<f, w>> \in ended'
               PROVE  life'[f] # "unused"
    BY DEF EndedTookPlace
  <2>1. <<f, w>> \in ended \/ f \in F
    BY <1>1 DEF End
  <2>2. life[f] # "unused"
    BY <1>1, <2>1 DEF EndedTookPlace
  <2>3. QED BY <1>0, <2>2 DEF After, TypeOK, Life
<1>2. ASSUME NEW r \in Request, LogoutRevoke(r) PROVE EndedTookPlace'
  <2>1. req[r].sess \in SessionId /\ life[req[r].sess] # "unused"
    BY <1>0, <1>2 DEF LogoutRevoke, TypeOK, ReqOK, OnSession, Stored, Revoked
  <2>2. lineage[req[r].sess].root \in SessionId /\ life[lineage[req[r].sess].root] # "unused"
    BY <2>1 DEF RootsAreOwned
  <2>3. QED BY <1>1, <1>2, <2>2 DEF LogoutRevoke
<1>3. ASSUME NEW u PROVE Families(u) \in SUBSET SessionId /\ \A f \in Families(u) : life[f] # "unused"
  BY <1>0, FamiliesTookPlace
<1>4. ASSUME NEW r \in Request, SetPassword(r) PROVE EndedTookPlace'
  <2>1. Families(req[r].user) \ KeptFamily(req[r].sess) \in SUBSET SessionId
    BY <1>3
  <2>2. QED BY <1>1, <1>3, <1>4, <2>1 DEF SetPassword
<1>5. ASSUME NEW r \in Request, RevokeAll(r) PROVE EndedTookPlace'
  <2>1. ended' = ended \/ End(Families(req[r].user), req[r].why)
    BY <1>5 DEF RevokeAll
  <2>2. QED BY <1>1, <1>3, <2>1
<1>6. ASSUME ended' = ended PROVE EndedTookPlace'
  BY <1>0, <1>6 DEF EndedTookPlace, After, TypeOK, Life
<1>7. ASSUME NEW r \in Request, Arrive(r) \/ ExpireRow(r) \/ RotateCommit(r) \/ RotateAbort(r)
                                \/ LogoutBlacklist(r) \/ Crash(r)
      PROVE  ended' = ended
  BY <1>7 DEF Arrive, RefreshReplay, RefreshExpired, RefreshLive, Logout, LogoutAll, ChangePassword,
     ResetPassword, RevokeSession, ExpireRow, RotateCommit, RotateAbort, LogoutBlacklist, Crash
<1>8. ASSUME (\E u \in User : Login(u)) \/ (\E s \in SessionId : Clock(s)) \/ Cleanup \/ UNCHANGED vars
      PROVE  ended' = ended
  BY <1>8 DEF Login, Clock, AccessExpires, Expires, Ages, Cleanup, vars
<1>9. QED
  BY <1>2, <1>4, <1>5, <1>6, <1>7, <1>8 DEF Next, Undisturbed, Step

\* A handler keeps the reason and the session it started with.
LEMMA ReasonsStep ==
    ASSUME IInv, ReasonsFit, [Next]_vars PROVE ReasonsFit'
<1>0. req \in [Request -> ReqState]
  BY DEF IInv, TypeOK, ReqOK
<1>1. ASSUME NEW r \in Request, \A q \in Request : q # r => req'[q] = req[q],
             req'[r].pc \in {"setPassword", "revokeAll"} /\ req'[r].why \in {"reset", "theft"}
                => req'[r].sess = None,
             req'[r].pc = "setPassword" => req'[r].why # "theft"
      PROVE  ReasonsFit'
  BY <1>1 DEF ReasonsFit
<1>2. ASSUME req' = req PROVE ReasonsFit'
  BY <1>2 DEF ReasonsFit
<1>3. ASSUME NEW r \in Request, NEW pc, NEW s, NEW u, NEW why, Start(r, pc, s, u, why),
             pc \in {"setPassword", "revokeAll"} /\ why \in {"reset", "theft"} => s = None,
             pc = "setPassword" => why # "theft"
      PROVE  ReasonsFit'
  <2>1. req'[r] = [pc |-> pc, sess |-> s, user |-> u, why |-> Reason(why)]
        /\ \A q \in Request : q # r => req'[q] = req[q]
    BY <1>0, <1>3 DEF Start
  <2>2. Reason(why) \in {why, None} /\ None \notin {"reset", "theft"}
    BY NoneAssumption DEF Reason, Why
  <2>3. QED BY <1>1, <1>3, <2>1, <2>2
<1>4. ASSUME NEW r \in Request, NEW t \in SessionId,
             RefreshReplay(r, t) \/ RefreshExpired(r, t) \/ RefreshLive(r, t)
             \/ Logout(r, t) \/ LogoutAll(r, t) \/ ChangePassword(r, t)
      PROVE  ReasonsFit'
  <2>1. CASE RefreshReplay(r, t)
    BY <1>3, <2>1 DEF RefreshReplay
  <2>2. CASE RefreshExpired(r, t)
    BY <1>3, <2>2 DEF RefreshExpired
  <2>3. CASE RefreshLive(r, t)
    BY <1>3, <2>3 DEF RefreshLive
  <2>4. CASE Logout(r, t)
    BY <1>3, <2>4 DEF Logout
  <2>5. CASE LogoutAll(r, t)
    BY <1>3, <2>5 DEF LogoutAll
  <2>6. CASE ChangePassword(r, t)
    BY <1>3, <2>6 DEF ChangePassword
  <2>7. QED BY <1>4, <2>1, <2>2, <2>3, <2>4, <2>5, <2>6
<1>5. ASSUME NEW r \in Request, NEW u \in User, ResetPassword(r, u) PROVE ReasonsFit'
  BY <1>3, <1>5 DEF ResetPassword
<1>6. ASSUME NEW r \in Request, Finish(r) PROVE ReasonsFit'
  BY <1>0, <1>1, <1>6 DEF Finish, Idle
<1>7. ASSUME NEW r \in Request, LogoutRevoke(r) \/ SetPassword(r) PROVE ReasonsFit'
  <2>1. /\ \A q \in Request : q # r => req'[q] = req[q]
        /\ req'[r].why = req[r].why /\ req'[r].sess = req[r].sess
        /\ LogoutRevoke(r) => req'[r].pc = "blacklist"
        /\ SetPassword(r) => req[r].pc = "setPassword" /\ req'[r].pc = "revokeAll"
    BY <1>0, <1>7 DEF LogoutRevoke, SetPassword, Goto, ReqState
  <2>2. QED BY <1>1, <1>7, <2>1 DEF ReasonsFit
<1>8. ASSUME NEW r \in Request, ExpireRow(r) \/ RotateCommit(r) \/ RotateAbort(r)
                                \/ LogoutBlacklist(r) \/ RevokeAll(r) \/ Crash(r)
      PROVE  Finish(r)
  BY <1>8 DEF ExpireRow, RotateCommit, RotateAbort, LogoutBlacklist, RevokeAll, Crash
<1>9. ASSUME NEW r \in Request, NEW s \in SessionId, NEW t \in SessionId, RevokeSession(r, s, t)
      PROVE  req' = req
  BY <1>9 DEF RevokeSession
<1>10. ASSUME (\E u \in User : Login(u)) \/ (\E s \in SessionId : Clock(s)) \/ Cleanup \/ UNCHANGED vars
       PROVE  req' = req
  BY <1>10 DEF Login, Clock, AccessExpires, Expires, Ages, Cleanup, vars
<1>11. QED
  BY <1>2, <1>4, <1>5, <1>6, <1>7, <1>8, <1>9, <1>10 DEF Next, Undisturbed, Arrive, Step

\* A row that is live after a step without a new row was live before.
LEMMA LiveBefore ==
    ASSUME TypeOK, NEW S, life' = Stamp(S), NEW s \in SessionId, life'[s] = "live"
    PROVE  life[s] = "live" /\ s \notin S
BY DEF Stamp, Stored, Revoked, TypeOK

\* With a single slot, nothing that was ended is live once nobody sweeps.
LEMMA NothingToSweep ==
    ASSUME OneSlot, EndedAreSwept, NEW r \in Request, req[r].pc # "revokeAll",
           NEW s \in SessionId, life[s] = "live", NEW why \in {"reset", "theft"}
    PROVE  <<lineage[s].root, why>> \notin ended
BY DEF EndedAreSwept, Sweeping, OneSlot

\* If the one request does not sweep before or after, it ends none of the
\* watched families and makes no row live, then nothing ended is live.
LEMMA SweptQuiet ==
    ASSUME OneSlot, EndedAreSwept, NEW r \in Request, req[r].pc # "revokeAll",
           lineage' = lineage,
           \A s \in SessionId : life'[s] = "live" => life[s] = "live",
           \A s \in SessionId, why \in {"reset", "theft"} :
               <<lineage[s].root, why>> \in ended' => <<lineage[s].root, why>> \in ended
    PROVE  EndedAreSwept'
<1> SUFFICES ASSUME NEW s \in SessionId, NEW why \in {"reset", "theft"},
                    life'[s] = "live", <<lineage[s].root, why>> \in ended'
             PROVE  FALSE
  BY DEF EndedAreSwept
<1>1. QED BY NothingToSweep

\* Neither a new row nor a handler on its way lets a session of an ended family
\* live on.
LEMMA SweptStep ==
    ASSUME OneSlot, IInv, RotatingIsLive, RootsAreOwned, EndedTookPlace, ReasonsFit,
           EndedAreSwept, Undisturbed
    PROVE  EndedAreSwept'
<1>0. /\ TypeOK /\ req \in [Request -> ReqState] /\ \A q, r \in Request : q = r
      /\ life \in [SessionId -> Life] /\ lineage \in [SessionId -> Lineage]
  BY DEF IInv, TypeOK, ReqOK, OneSlot
<1>1. ASSUME NEW u \in User, Login(u) PROVE EndedAreSwept'
  <2>1. PICK c \in SessionId :
           /\ life[c] = "unused"
           /\ life' = [life EXCEPT ![c] = "live"]
           /\ owner' = [owner EXCEPT ![c] = u]
           /\ lineage' = [lineage EXCEPT ![c] = [root |-> c, parent |-> None, by |-> None]]
           /\ UNCHANGED <<req, ended>>
    BY <1>1 DEF Login
  <2>2. /\ lineage'[c].root = c
        /\ \A s \in SessionId : s # c =>
               life'[s] = life[s] /\ owner'[s] = owner[s] /\ lineage'[s] = lineage[s]
    BY <2>1 DEF IInv, TypeOK
  <2>3. \A why \in {"reset", "theft"} : <<c, why>> \notin ended
    BY <2>1 DEF EndedTookPlace, Why
  <2> SUFFICES ASSUME NEW s \in SessionId, NEW why \in {"reset", "theft"},
                      life'[s] = "live", <<lineage'[s].root, why>> \in ended
               PROVE  \E r \in Request : Sweeping(r, owner'[s])
    BY <2>1 DEF EndedAreSwept, Sweeping
  <2>4. s # c
    BY <2>2, <2>3
  <2>5. QED BY <2>2, <2>4 DEF EndedAreSwept
<1>2. ASSUME NEW r \in Request, RotateCommit(r) PROVE EndedAreSwept'
  <2> DEFINE t == req[r].sess
  <2>1. PICK c \in SessionId :
           /\ life[c] = "unused"
           /\ life' = [Stamp({t}) EXCEPT ![c] = "live"]
           /\ lineage' = [lineage EXCEPT ![c] = [root |-> lineage[t].root, parent |-> t, by |-> r]]
           /\ req[r].pc = "rotating" /\ UNCHANGED ended
    BY <1>2 DEF RotateCommit
  <2>2. t \in SessionId /\ life[t] = "live"
    BY <1>0, <1>2 DEF RotateCommit, TypeOK, ReqOK, OnSession, RotatingIsLive, Stored, Revoked
  <2>3. /\ lineage'[c].root = lineage[t].root
        /\ \A s \in SessionId : s # c => lineage'[s] = lineage[s]
        /\ \A s \in SessionId : s # c => (life'[s] = "live" => life[s] = "live")
    BY <1>0, <2>1 DEF Stamp, Stored, Revoked
  <2>4. \A s \in SessionId, why \in {"reset", "theft"} :
           life[s] = "live" => <<lineage[s].root, why>> \notin ended
    BY <2>1, NothingToSweep
  <2> SUFFICES ASSUME NEW s \in SessionId, NEW why \in {"reset", "theft"},
                      life'[s] = "live", <<lineage'[s].root, why>> \in ended
               PROVE  FALSE
    BY <2>1 DEF EndedAreSwept
  <2>5. CASE s = c
    BY <2>2, <2>3, <2>4, <2>5
  <2>6. CASE s # c
    BY <2>3, <2>4, <2>6
  <2>7. QED BY <2>5, <2>6
<1>3. ASSUME NEW r \in Request, SetPassword(r) PROVE EndedAreSwept'
  <2> DEFINE u == req[r].user
  <2>1. /\ req[r].pc = "setPassword" /\ req[r].why # "theft"
        /\ req[r].why = "reset" => req[r].sess = None
        /\ UNCHANGED <<life, owner, lineage>>
        /\ End(Families(u) \ KeptFamily(req[r].sess), req[r].why)
    BY <1>3 DEF SetPassword, ReasonsFit
  <2>2. req'[r].pc = "revokeAll" /\ req'[r].user = u /\ req'[r].sess = req[r].sess
    BY <1>0, <1>3 DEF SetPassword, Goto, ReqState
  <2> SUFFICES ASSUME NEW s \in SessionId, NEW why \in {"reset", "theft"},
                      life[s] = "live", <<lineage[s].root, why>> \in ended'
               PROVE  Sweeping(r, owner[s])'
    BY <2>1 DEF EndedAreSwept
  <2>3. <<lineage[s].root, why>> \notin ended
    BY <2>1, NothingToSweep
  <2>4. why = req[r].why /\ lineage[s].root \in Families(u)
    BY <2>1, <2>3 DEF End
  <2>5. owner[s] = u
    BY <1>0, <2>4, FamiliesTookPlace DEF RootsAreOwned
  <2>6. QED BY <2>1, <2>2, <2>4, <2>5 DEF Sweeping
<1>4. ASSUME NEW r \in Request, RevokeAll(r) PROVE EndedAreSwept'
  <2> DEFINE u == req[r].user
  <2>1. /\ req[r].pc = "revokeAll" /\ UNCHANGED <<owner, lineage>>
        /\ life' = Stamp(OpenRows(u, req[r].sess))
        /\ ended' = ended \/ (End(Families(u), req[r].why) /\ req[r].why \in {"theft", "logout_all"})
    BY <1>4 DEF RevokeAll
  <2> SUFFICES ASSUME NEW s \in SessionId, NEW why \in {"reset", "theft"},
                      life'[s] = "live", <<lineage[s].root, why>> \in ended'
               PROVE  FALSE
    BY <2>1 DEF EndedAreSwept
  <2>2. life[s] = "live" /\ s \notin OpenRows(u, req[r].sess)
    BY <1>0, <2>1, LiveBefore
  <2>3. ~Sweeping(r, owner[s])
    BY <2>2, NoneAssumption DEF OpenRows, Sweeping
  <2>4. <<lineage[s].root, why>> \notin ended
    BY <1>0, <2>2, <2>3 DEF EndedAreSwept
  <2>5. why = req[r].why /\ lineage[s].root \in Families(u)
    BY <2>1, <2>4 DEF End
  <2>6. owner[s] = u
    BY <1>0, <2>2, <2>5, FamiliesTookPlace DEF RootsAreOwned
  <2>7. QED BY <2>1, <2>3, <2>5, <2>6 DEF ReasonsFit, Sweeping
<1>5. ASSUME NEW r \in Request, Arrive(r) PROVE EndedAreSwept'
  <2>1. req[r].pc = "idle" /\ UNCHANGED <<lineage, ended>>
    BY <1>5 DEF Arrive, RefreshReplay, RefreshExpired, RefreshLive, Logout, LogoutAll,
       ChangePassword, ResetPassword, RevokeSession, Start
  <2>2. life' = life \/ \E S : life' = Stamp(S)
    BY <1>5 DEF Arrive, RefreshReplay, RefreshExpired, RefreshLive, Logout, LogoutAll,
       ChangePassword, ResetPassword, RevokeSession
  <2>3. \A s \in SessionId : life'[s] = "live" => life[s] = "live"
    BY <1>0, <2>2, LiveBefore
  <2>4. QED BY <2>1, <2>3, SweptQuiet
<1>6. ASSUME NEW r \in Request, ExpireRow(r) \/ RotateAbort(r) \/ LogoutBlacklist(r)
      PROVE  EndedAreSwept'
  <2>1. req[r].pc # "revokeAll" /\ UNCHANGED <<lineage, ended>>
    BY <1>6 DEF ExpireRow, RotateAbort, LogoutBlacklist
  <2>2. \A s \in SessionId : life'[s] = "live" => life[s] = "live"
    BY <1>0, <1>6, LiveBefore DEF ExpireRow, RotateAbort, LogoutBlacklist
  <2>3. QED BY <2>1, <2>2, SweptQuiet
<1>7. ASSUME NEW r \in Request, LogoutRevoke(r) PROVE EndedAreSwept'
  <2>1. /\ req[r].pc # "revokeAll" /\ lineage' = lineage
        /\ life' = Stamp({req[r].sess}) /\ End({lineage[req[r].sess].root}, "logout")
    BY <1>7 DEF LogoutRevoke
  <2>2. \A s \in SessionId : life'[s] = "live" => life[s] = "live"
    BY <1>0, <2>1, LiveBefore
  <2>3. \A f, why : why \in {"reset", "theft"} /\ <<f, why>> \in ended' => <<f, why>> \in ended
    BY <2>1 DEF End
  <2>4. QED BY <2>1, <2>2, <2>3, SweptQuiet
<1>8. ASSUME (\E s \in SessionId : Clock(s)) \/ Cleanup PROVE EndedAreSwept'
  <2>1. UNCHANGED <<owner, lineage, req, ended>>
    BY <1>8 DEF Clock, AccessExpires, Expires, Ages, Cleanup
  <2>2. \A s \in SessionId : life'[s] = "live" => life[s] = "live"
    BY <1>0, <1>8 DEF Clock, AccessExpires, Expires, Ages, Cleanup
  <2>3. QED BY <2>1, <2>2 DEF EndedAreSwept, Sweeping
<1>9. QED
  BY <1>1, <1>2, <1>3, <1>4, <1>5, <1>6, <1>7, <1>8 DEF Undisturbed, Step

\* One request at a time and no crash: when a reset, or the answer to a replayed
\* token, has run to its end, no session of the logins it ended is live.
THEOREM CalmTheorem == ASSUME OneSlot PROVE CalmSpec => []CalmEndsFamilies
<1>1. CalmInit => CalmInv
  BY DEF CalmInit, Init, CalmInv, RootsAreOwned, EndedTookPlace, ReasonsFit, EndedAreSwept, Idle
<1>2. IInv /\ RotatingIsLive /\ CalmInv /\ [CalmNext]_<<vars, calm>> => CalmInv'
  <2> SUFFICES ASSUME IInv, RotatingIsLive, CalmInv, [CalmNext]_<<vars, calm>> PROVE CalmInv'
    OBVIOUS
  <2>1. [Next]_vars /\ calm' = calm
    BY DEF CalmNext, Next
  <2>2. RootsAreOwned' /\ EndedTookPlace' /\ ReasonsFit'
    BY <2>1, RootsStep, EndedStep, ReasonsStep DEF CalmInv
  <2>3. CASE UNCHANGED vars
    BY <2>1, <2>2, <2>3 DEF CalmInv, EndedAreSwept, Sweeping, vars
  <2>4. ASSUME CalmNext, calm PROVE EndedAreSwept'
    BY <2>4, SweptStep DEF CalmInv, CalmNext
  <2>5. QED BY <2>1, <2>2, <2>3, <2>4 DEF CalmInv
<1>3. CalmInv => CalmEndsFamilies
  BY DEF CalmInv, CalmEndsFamilies, ResetEndsFamilies, TheftEndsFamilies, EndsFamilies,
     EndedAreSwept, Sweeping, Evicting
<1>4. QED BY <1>1, <1>2, <1>3, CalmAlways, PTL DEF CalmSpec
=============================================================================
