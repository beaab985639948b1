--------------------------- MODULE AccountsProofs ----------------------------
(***************************************************************************)
(* Proofs about the accounts outside their sessions, in three parts: the   *)
(* links (AccountTokens), the seats (Onboarding) and the lock              *)
(* (LoginLockout).  Each part is proved right by itself, for any values of *)
(* its constants, and then as a part of MCAccounts, where one of the three *)
(* moves.                                                                  *)
(*                                                                         *)
(* A link that was used is never in its column again, because tokens are   *)
(* numbered in the order of writing: what is in a column, in a request or  *)
(* in the history has been issued, and what is written has not.            *)
(***************************************************************************)
EXTENDS MCAccounts, FiniteSetTheorems, TLAPS

\* What a request carries from one step to the next.
RequestsKnow ==
    \A r \in Request :
        /\ req[r].pc \in {"write", "enqueue", "commit"} => req[r].kind \in Kind
        /\ req[r].pc \in {"enqueue", "commit"} =>
              req[r].tok \in 1..issued[req[r].kind]

\* Only tokens that were issued have been used.
SpentWasIssued == \A l \in Link : Spent(l) => l[2] <= issued[l[1]]

IInv == TypeOK /\ RequestsKnow /\ SpentWasIssued /\ SpentLinkIsDead /\ UnverifiedLinkIsLive

\* The initial state satisfies the invariant.
LEMMA InitIInv == Init => IInv
<1> SUFFICES ASSUME Init PROVE IInv
  OBVIOUS
<1>1. TypeOK
  <2>1. req \in [Request -> [pc : Pc, kind : Kind \cup {None}, tok : 0..MaxToken]]
    BY MaxTokenAssumption DEF Init, Idle, Pc
  <2>2. issued \in [Kind -> 0..MaxToken] /\ column \in [Kind -> 0..MaxToken]
        /\ \A k \in Kind : column[k] <= issued[k]
    BY MaxTokenAssumption DEF Init
  <2>3. stale = {} /\ verified \in BOOLEAN /\ queue = {} /\ mail = {}
    BY Zenon DEF Init
  <2>4. uses \in [Link -> Nat]
    BY DEF Init
  <2> QED BY <2>1, <2>2, <2>3, <2>4 DEF TypeOK
<1>2. RequestsKnow
  BY DEF Init, RequestsKnow, Idle
<1>3. \A l \in Link : ~Spent(l)
  BY DEF Init, Spent
<1>4. ~Registered
  BY DEF Init, Registered, Kind
<1> QED
  BY <1>1, <1>2, <1>3, <1>4
  DEF IInv, SpentWasIssued, SpentLinkIsDead, UnverifiedLinkIsLive

\* A new token goes into the column of its kind (register, resendVerification,
\* forgotPassword).
LEMMA WriteKeeps ==
    ASSUME IInv, NEW r \in Request, NEW k \in Kind, WriteToken(r, k)
    PROVE  IInv'
<1> USE MaxTokenAssumption
<1>1. /\ issued[k] \in Nat /\ issued[k] + 1 \in 1..MaxToken
      /\ issued' = [issued EXCEPT ![k] = issued[k] + 1]
      /\ column' = [column EXCEPT ![k] = issued[k] + 1]
      /\ req' = [req EXCEPT ![r] = [pc |-> "enqueue", kind |-> k, tok |-> issued[k] + 1]]
      /\ issued' \in [Kind -> 0..MaxToken]
  BY DEF IInv, TypeOK, WriteToken
<1>2. TypeOK'
  BY <1>1 DEF IInv, TypeOK, WriteToken, post, Pc
<1>3. RequestsKnow'
  BY <1>1 DEF IInv, TypeOK, RequestsKnow
<1>4. SpentWasIssued'
  BY <1>1 DEF IInv, TypeOK, SpentWasIssued, Spent, WriteToken, Link, Token
<1>5. SpentLinkIsDead'
  BY <1>1 DEF IInv, TypeOK, SpentWasIssued, SpentLinkIsDead, Spent, WriteToken, Link, Token
<1>6. UnverifiedLinkIsLive'
  BY <1>1 DEF IInv, TypeOK, UnverifiedLinkIsLive, Registered, WriteToken, Kind
<1> QED BY <1>2, <1>3, <1>4, <1>5, <1>6 DEF IInv

\* A link is used to the end (verifyEmail, resetPassword).
LEMMA CommitKeeps ==
    ASSUME IInv, NEW r \in Request, Commit(r)
    PROVE  IInv'
<1> DEFINE k == req[r].kind
           t == req[r].tok
           l == <<k, t>>
<1>1. k \in Kind /\ t \in 1..issued[k] /\ l \in Link /\ uses[l] \in Nat
  BY MaxTokenAssumption DEF IInv, TypeOK, RequestsKnow, Commit, Link, Token
<1>2. /\ column' = [column EXCEPT ![k] = 0]
      /\ stale' = stale \ {k}
      /\ verified' = (verified \/ k = "verify")
      /\ uses' = [uses EXCEPT ![l] = @ + 1]
      /\ req' = [req EXCEPT ![r] = Idle]
      /\ UNCHANGED <<issued, queue, mail>>
  BY DEF Commit, Finish, post
<1> HIDE DEF k, t
<1>3. TypeOK'
  <2>1. column' \in [Kind -> 0..MaxToken] /\ uses' \in [Link -> Nat]
    BY <1>1, <1>2, MaxTokenAssumption DEF IInv, TypeOK
  <2>2. \A j \in Kind : column'[j] <= issued'[j] /\ (j \in stale' => column'[j] # 0)
    BY <1>1, <1>2, MaxTokenAssumption DEF IInv, TypeOK
  <2>3. verified' \in BOOLEAN
    BY <1>2, Zenon
  <2>4. req' \in [Request -> [pc : Pc, kind : Kind \cup {None}, tok : 0..MaxToken]]
    BY <1>2, MaxTokenAssumption DEF IInv, TypeOK, Idle, Pc
  <2>5. stale' \subseteq Kind
    BY <1>2 DEF IInv, TypeOK
  <2> QED BY <1>2, <2>1, <2>2, <2>3, <2>4, <2>5 DEF IInv, TypeOK
<1>4. RequestsKnow'
  BY <1>2 DEF IInv, TypeOK, RequestsKnow, Idle
<1>5. SpentWasIssued'
  BY <1>1, <1>2 DEF IInv, TypeOK, SpentWasIssued, Spent
<1>6. SpentLinkIsDead'
  BY <1>1, <1>2 DEF IInv, TypeOK, SpentLinkIsDead, Spent, Link, Token
<1>7. UnverifiedLinkIsLive'
  BY <1>1, <1>2 DEF IInv, TypeOK, UnverifiedLinkIsLive, Registered, Kind
<1> QED BY <1>3, <1>4, <1>5, <1>6, <1>7 DEF IInv

\* The steps that leave columns, tokens and history alone.
LEMMA OthersKeep ==
    ASSUME IInv, UNCHANGED <<issued, column, verified, uses>>,
           TypeOK', RequestsKnow'
    PROVE  IInv'
  BY DEF IInv, SpentWasIssued, SpentLinkIsDead, UnverifiedLinkIsLive, Spent, Registered

\* Every step keeps the invariant.
LEMMA NextIInv == IInv /\ [Next]_vars => IInv'
<1> SUFFICES ASSUME IInv, [Next]_vars PROVE IInv'
  OBVIOUS
<1>1. ASSUME NEW r \in Request, Register(r) PROVE IInv'
  BY <1>1, WriteKeeps DEF Register, Kind
<1>2. ASSUME NEW r \in Request, Write(r) PROVE IInv'
  BY <1>2, WriteKeeps DEF Write, IInv, RequestsKnow
<1>3. ASSUME NEW r \in Request, Commit(r) PROVE IInv'
  BY <1>3, CommitKeeps
<1>4. ASSUME NEW r \in Request, Resend(r) \/ Forgot(r) PROVE IInv'
  <2>1. PICK k \in Kind : /\ req' = [req EXCEPT ![r] = [pc |-> "write", kind |-> k, tok |-> 0]]
                          /\ UNCHANGED <<issued, column, stale, verified, queue, mail, uses>>
    BY <1>4 DEF Resend, Forgot, Start, links, post, Kind
  <2>2. TypeOK' /\ RequestsKnow'
    BY <2>1, MaxTokenAssumption DEF IInv, TypeOK, RequestsKnow, Pc
  <2> QED BY <2>1, <2>2, OthersKeep
<1>5. ASSUME NEW r \in Request, NEW l \in Link, Use(r, l) PROVE IInv'
  <2>1. /\ req' = [req EXCEPT ![r] = [pc |-> "commit", kind |-> l[1], tok |-> l[2]]]
        /\ l[1] \in Kind /\ l[2] \in 1..MaxToken /\ l[2] \in 1..issued[l[1]]
        /\ UNCHANGED <<issued, column, stale, verified, queue, mail, uses>>
    BY <1>5, MaxTokenAssumption DEF Use, Start, links, post, Link, Token, IInv, TypeOK
  <2>2. TypeOK' /\ RequestsKnow'
    BY <2>1, MaxTokenAssumption DEF IInv, TypeOK, RequestsKnow, Pc
  <2> QED BY <2>1, <2>2, OthersKeep
<1>6. ASSUME NEW r \in Request, Enqueue(r) PROVE IInv'
  <2>1. /\ req' = [req EXCEPT ![r] = Idle]
        /\ queue' = queue \cup {<<req[r].kind, req[r].tok>>}
        /\ <<req[r].kind, req[r].tok>> \in Link
        /\ UNCHANGED <<issued, column, stale, verified, mail, uses>>
    BY <1>6, MaxTokenAssumption
    DEF Enqueue, Finish, links, IInv, TypeOK, RequestsKnow, Link, Token
  <2>2. TypeOK' /\ RequestsKnow'
    BY <2>1, MaxTokenAssumption DEF IInv, TypeOK, RequestsKnow, Idle, Pc
  <2> QED BY <2>1, <2>2, OthersKeep
<1>7. ASSUME NEW r \in Request, Crash(r) PROVE IInv'
  <2>1. /\ req' = [req EXCEPT ![r] = Idle]
        /\ UNCHANGED <<issued, column, stale, verified, queue, mail, uses>>
    BY <1>7 DEF Crash, Finish, links, post
  <2>2. TypeOK' /\ RequestsKnow'
    BY <2>1, MaxTokenAssumption DEF IInv, TypeOK, RequestsKnow, Idle, Pc
  <2> QED BY <2>1, <2>2, OthersKeep
<1>8. ASSUME NEW k \in Kind, Expire(k) PROVE IInv'
  <2>1. TypeOK' /\ RequestsKnow'
    BY <1>8 DEF Expire, post, IInv, TypeOK, RequestsKnow
  <2> QED BY <1>8, <2>1, OthersKeep DEF Expire
<1>9. ASSUME NEW l \in Link, Work(l) PROVE IInv'
  <2>1. TypeOK' /\ RequestsKnow'
    BY <1>9 DEF Work, Send, SendFails, links, IInv, TypeOK, RequestsKnow
  <2> QED BY <1>9, <2>1, OthersKeep DEF Work, Send, SendFails, links
<1>10. CASE UNCHANGED vars
  <2>1. TypeOK' /\ RequestsKnow'
    BY <1>10 DEF vars, IInv, TypeOK, RequestsKnow
  <2> QED BY <1>10, <2>1, OthersKeep DEF vars
<1> QED
  BY <1>1, <1>2, <1>3, <1>4, <1>5, <1>6, <1>7, <1>8, <1>9, <1>10 DEF Next, Step

\* The invariant holds of every behaviour.
LEMMA Invariance == Spec => []IInv
  BY InitIInv, NextIInv, PTL DEF Spec

\* The columns, the requests and the mail keep their types.
THEOREM TypeCorrect == Spec => []TypeOK
<1>1. IInv => TypeOK BY DEF IInv
<1> QED BY <1>1, Invariance, PTL

\* A link that verifyEmail or resetPassword has carried out is dead, however
\* many requests for new ones overlap with its use.
THEOREM SpentTheorem == Spec => []SpentLinkIsDead
<1>1. IInv => SpentLinkIsDead BY DEF IInv
<1> QED BY <1>1, Invariance, PTL

\* As long as an account is unverified its column has the newest token, so
\* that resendVerification always leads to a link that works.
THEOREM LiveTheorem == Spec => []UnverifiedLinkIsLive
<1>1. IInv => UnverifiedLinkIsLive BY DEF IInv
<1> QED BY <1>1, Invariance, PTL

-----------------------------------------------------------------------------
(* One request at a time.                                                  *)

\* The column has the newest reset token, or none, and it is that token which
\* a request that is about to commit has looked up.
NewestInColumn ==
    /\ column["reset"] \in {0, issued["reset"]}
    /\ \A r \in Request :
          req[r].pc = "commit" /\ req[r].kind = "reset" =>
              column["reset"] # 0 /\ req[r].tok = column["reset"]

AloneInv == AtMostOne(req) /\ NewestInColumn /\ NewestResetWorks

\* Requests that do not overlap keep the newest reset link working.
LEMMA AloneStep ==
    ASSUME IInv, AloneInv, [Next]_vars, AtMostOne(req)'
    PROVE  AloneInv'
<1> USE MaxTokenAssumption
<1>0. /\ req \in [Request -> [pc : Pc, kind : Kind \cup {None}, tok : 0..MaxToken]]
      /\ issued \in [Kind -> 0..MaxToken] /\ column \in [Kind -> 0..MaxToken]
      /\ uses \in [Link -> Nat] /\ "reset" \in Kind
      /\ \A q, r \in Request : req[q].pc # "idle" /\ req[r].pc # "idle" => q = r
  BY DEF IInv, TypeOK, AloneInv, AtMostOne, Busy, Kind
<1> SUFFICES NewestInColumn' /\ NewestResetWorks'
  BY DEF AloneInv
<1>1. ASSUME NEW r \in Request, NEW k \in Kind, req[r].pc \in {"idle", "write"}, WriteToken(r, k)
      PROVE  NewestInColumn' /\ NewestResetWorks'
  <2>1. /\ issued' = [issued EXCEPT ![k] = issued[k] + 1]
        /\ column' = [column EXCEPT ![k] = issued[k] + 1]
        /\ req' = [req EXCEPT ![r] = [pc |-> "enqueue", kind |-> k, tok |-> issued[k] + 1]]
        /\ uses' = uses
    BY <1>0, <1>1 DEF WriteToken
  <2>2. CASE k = "reset"
    <3>1. column'["reset"] = issued["reset"] + 1 /\ issued'["reset"] = issued["reset"] + 1
      BY <1>0, <2>1, <2>2
    <3>2. ASSUME NEW p \in Request, req'[p].pc = "commit" PROVE FALSE
      <4>1. p # r /\ req[p].pc = "commit"
        BY <1>0, <2>1, <3>2
      <4>2. req'[r].pc = "enqueue" /\ DOMAIN req' = Request
        BY <1>0, <2>1
      <4>3. QED BY <3>2, <4>1, <4>2 DEF AtMostOne, Busy
    <3>3. QED BY <3>1, <3>2 DEF NewestInColumn, NewestResetWorks
  <2>3. CASE k # "reset"
    <3>1. column'["reset"] = column["reset"] /\ issued'["reset"] = issued["reset"]
      BY <1>0, <2>1, <2>3
    <3>2. \A p \in Request : req'[p].pc = "commit" => req'[p] = req[p]
      BY <1>0, <2>1
    <3>3. QED BY <2>1, <3>1, <3>2 DEF AloneInv, NewestInColumn, NewestResetWorks, Spent
  <2>4. QED BY <2>2, <2>3
<1>2. ASSUME NEW r \in Request, Commit(r) PROVE NewestInColumn' /\ NewestResetWorks'
  <2> DEFINE k == req[r].kind
             t == req[r].tok
  <2>1. /\ req[r].pc = "commit" /\ k \in Kind /\ t \in 1..issued[k]
        /\ column' = [column EXCEPT ![k] = 0] /\ issued' = issued
        /\ uses' = [uses EXCEPT ![<<k, t>>] = @ + 1]
        /\ req' = [req EXCEPT ![r] = Idle]
    BY <1>2 DEF Commit, Finish, IInv, RequestsKnow
  <2>2. \A p \in Request : req'[p].pc # "commit"
    BY <1>0, <2>1 DEF Idle
  <2>3. CASE k = "reset"
    <3>1. column'["reset"] = 0 /\ t = column["reset"] /\ column["reset"] = issued["reset"]
      BY <1>0, <2>1, <2>3 DEF AloneInv, NewestInColumn
    <3>2. <<k, t>> \in Link /\ uses[<<k, t>>] \in Nat
      BY <1>0, <2>1 DEF Link, Token
    <3>3. uses'[<<"reset", issued["reset"]>>] > 0
      BY <1>0, <2>1, <2>3, <3>1, <3>2
    <3>4. QED BY <2>1, <2>2, <3>1, <3>3 DEF NewestInColumn, NewestResetWorks, Spent
  <2>4. CASE k # "reset"
    <3>1. column'["reset"] = column["reset"]
      BY <1>0, <2>1, <2>4
    <3>2. issued["reset"] > 0 => uses'[<<"reset", issued["reset"]>>] = uses[<<"reset", issued["reset"]>>]
      <4>1. issued["reset"] > 0 => <<"reset", issued["reset"]>> \in Link
        BY <1>0 DEF Link, Token
      <4>2. <<k, t>> # <<"reset", issued["reset"]>>
        BY <2>4
      <4>3. QED BY <1>0, <2>1, <4>1, <4>2
    <3>3. QED BY <2>1, <2>2, <3>1, <3>2 DEF AloneInv, NewestInColumn, NewestResetWorks, Spent
  <2>5. QED BY <2>3, <2>4
<1>3. ASSUME NEW r \in Request, NEW l \in Link, Use(r, l) PROVE NewestInColumn' /\ NewestResetWorks'
  <2>1. /\ req[r].pc = "idle" /\ column[l[1]] = l[2] /\ l[2] # 0
        /\ req' = [req EXCEPT ![r] = [pc |-> "commit", kind |-> l[1], tok |-> l[2]]]
        /\ UNCHANGED <<issued, column, uses>>
    BY <1>3 DEF Use, Start, links, Link, Token
  <2>2. req'[r].kind = l[1] /\ req'[r].tok = l[2] /\ \A p \in Request \ {r} : req'[p] = req[p]
    BY <1>0, <2>1
  <2>3. QED BY <2>1, <2>2 DEF AloneInv, NewestInColumn, NewestResetWorks, Spent
<1>4. ASSUME UNCHANGED <<issued, column, uses>>,
             \A p \in Request : req'[p].pc = "commit" => req'[p] = req[p]
      PROVE  NewestInColumn' /\ NewestResetWorks'
  BY <1>4 DEF AloneInv, NewestInColumn, NewestResetWorks, Spent
<1>5. ASSUME NEW r \in Request, Resend(r) \/ Forgot(r) \/ Enqueue(r) \/ Crash(r)
      PROVE  NewestInColumn' /\ NewestResetWorks'
  <2>1. UNCHANGED <<issued, column, uses>>
    BY <1>5 DEF Resend, Forgot, Enqueue, Crash, links
  <2>2. \A p \in Request : req'[p].pc = "commit" => req'[p] = req[p]
    BY <1>0, <1>5 DEF Resend, Forgot, Enqueue, Crash, Start, Finish, Idle
  <2>3. QED BY <1>4, <2>1, <2>2
<1>6. ASSUME (\E k \in Kind : Expire(k)) \/ (\E l \in Link : Work(l)) \/ UNCHANGED vars
      PROVE  NewestInColumn' /\ NewestResetWorks'
  <2>1. UNCHANGED <<issued, column, uses, req>>
    BY <1>6 DEF Expire, Work, Send, SendFails, links, vars
  <2>2. QED BY <1>4, <2>1
<1>7. ASSUME NEW r \in Request, Register(r) \/ Write(r) PROVE NewestInColumn' /\ NewestResetWorks'
  BY <1>1, <1>7 DEF Register, Write, IInv, RequestsKnow, Kind
<1>8. QED BY <1>2, <1>3, <1>5, <1>6, <1>7 DEF Next, Step

-----------------------------------------------------------------------------
(* The links as a part of MCAccounts.                                      *)

LEMMA LinksStep == [MCNext]_<<vars, seats, lock, part, alone>> => [Next]_vars
  BY DEF MCNext

\* As long as no two requests overlap, the newest reset link works until used.
THEOREM NewestResetTheorem == MCSpec => []AloneNewestResetWorks
<1> DEFINE Inv == IInv /\ (alone => AloneInv)
<1>1. MCInit => Inv
  <2> SUFFICES ASSUME MCInit PROVE Inv
    OBVIOUS
  <2>1. Init
    BY DEF MCInit
  <2>2. AloneInv
    BY <2>1 DEF Init, Idle, Kind, AloneInv, AtMostOne, Busy, NewestInColumn, NewestResetWorks
  <2>3. QED BY <2>1, <2>2, InitIInv
<1>2. Inv /\ [MCNext]_<<vars, seats, lock, part, alone>> => Inv'
  <2> SUFFICES ASSUME Inv, [MCNext]_<<vars, seats, lock, part, alone>> PROVE Inv'
    OBVIOUS
  <2>1. IInv' /\ [Next]_vars
    BY NextIInv, LinksStep
  <2>2. ASSUME alone' PROVE AloneInv'
    <3>1. CASE MCNext
      <4>1. alone /\ AtMostOne(req)'
        BY <2>2, <3>1 DEF MCNext
      <4>2. QED BY <2>1, <4>1, AloneStep
    <3>2. CASE UNCHANGED <<vars, seats, lock, part, alone>>
      BY <2>2, <3>2 DEF vars, AloneInv, AtMostOne, Busy, NewestInColumn, NewestResetWorks, Spent
    <3>3. QED BY <3>1, <3>2
  <2>3. QED BY <2>1, <2>2
<1>3. Inv => AloneNewestResetWorks
  BY DEF AloneInv, AloneNewestResetWorks
<1> QED BY <1>1, <1>2, <1>3, PTL DEF MCSpec

-----------------------------------------------------------------------------
(* Registrations and invitations, for any number of e-mails, invitations   *)
(* and requests.                                                           *)
(*                                                                         *)
(* An e-mail with a user row keeps the one seat it got when the row was    *)
(* committed.  That is inductive because the unique index keeps an open    *)
(* transaction away from an e-mail that has a row or is being inserted by  *)
(* another one, and because an invitation names an organization that has   *)
(* its owner, from the moment it is sent.                                  *)

\* The records of Onboarding!TypeOK.
SeatRequest == [pc : Seats!Pc, email : Email \cup {None}, inv : Invitation \cup {None}]
InvitationRow == [status : Seats!InvStatus, org : Email \cup {None}, role : Seats!Role]
USE DEF SeatRequest, InvitationRow

Open(r) == handler[r].pc \in {"founding", "accepting"}

\* The unique index on users.email.
EmailsAreUnique ==
    /\ \A r \in Request : Open(r) => handler[r].email \notin users
    /\ \A q, r \in Request : Open(q) /\ Open(r) /\ handler[q].email = handler[r].email => q = r

\* An invitation that was sent names an organization with an owner, and only
\* such an invitation is being accepted.
InvitationsLead ==
    /\ \A i \in Invitation :
          inv[i].status # "unsent" =>
              inv[i].org \in Email /\ seat[inv[i].org][inv[i].org] = Seats!OwnerSeat
    /\ \A r \in Request : handler[r].pc = "accepting" => inv[handler[r].inv].status # "unsent"

\* Who sits anywhere has a user row, and only an accepted invitation counts.
SeatsAreUsers ==
    /\ \A o, e \in Email : seat[o][e] # None => e \in users
    /\ \A e \in Email : via[e] # None => e \in users /\ inv[via[e]].status = "accepted"

\* The inductive invariant of the seats.
SeatsInv ==
    /\ Seats!TypeOK /\ EmailsAreUnique /\ InvitationsLead /\ SeatsAreUsers
    /\ Seats!OneOrganizationEach /\ Seats!AcceptedIsSeated

-----------------------------------------------------------------------------

\* The kinds of seat there are.
LEMMA SeatKinds ==
    /\ Seats!OwnerSeat \in Seats!Seat /\ Seats!OwnerSeat # None
    /\ \A role \in Seats!Role :
          Seats!InvitedSeat(role) \in Seats!Seat /\ Seats!InvitedSeat(role) # None
  BY SeatsAssumption DEF Seats!Seat, Seats!OwnerSeat, Seats!InvitedSeat, Seats!Role

\* The initial state satisfies the invariant.
LEMMA SeatsBegin == ASSUME Seats!Init PROVE SeatsInv
<1>1. Seats!TypeOK
  BY DEF Seats!Init, Seats!TypeOK, Seats!Idle, Seats!Pc, Seats!InvStatus, Seats!Role
<1>2. EmailsAreUnique /\ InvitationsLead /\ SeatsAreUsers
  BY DEF Seats!Init, EmailsAreUnique, InvitationsLead, SeatsAreUsers, Open, Seats!Idle
<1>3. Seats!OneOrganizationEach /\ Seats!AcceptedIsSeated
  BY DEF Seats!Init, Seats!OneOrganizationEach, Seats!AcceptedIsSeated, Seats!Members
<1> QED BY <1>1, <1>2, <1>3 DEF SeatsInv

\* A request that moves outside an open transaction, or leaves it without
\* committing, keeps the invariant.
LEMMA SeatsQuiet ==
    ASSUME SeatsInv, UNCHANGED <<users, seat, inv, via>>, Seats!TypeOK',
           \A r \in Request : Open(r)' => Open(r) /\ handler'[r] = handler[r]
    PROVE  SeatsInv'
<1>1. EmailsAreUnique' /\ InvitationsLead' /\ SeatsAreUsers'
  BY DEF SeatsInv, EmailsAreUnique, InvitationsLead, SeatsAreUsers, Open
<1>2. Seats!OneOrganizationEach' /\ Seats!AcceptedIsSeated'
  BY DEF SeatsInv, Seats!OneOrganizationEach, Seats!AcceptedIsSeated, Seats!Members
<1> QED BY <1>1, <1>2 DEF SeatsInv

\* A transaction opens: the index has let the e-mail in, and the invitation is
\* pending.
LEMMA InsertKeeps ==
    ASSUME SeatsInv, NEW r \in Request, Seats!Insert(r)
    PROVE  SeatsInv'
<1> DEFINE q == handler[r]
<1>1. /\ handler \in [Request -> SeatRequest]
      /\ q.pc = "hashed" /\ ~Seats!Inserting(q.email)
      /\ UNCHANGED <<users, seat, inv, mailed, via>>
  BY DEF SeatsInv, Seats!TypeOK, Seats!Insert
<1>2. CASE Seats!Finish(r)
  <2>1. Seats!TypeOK'
    BY <1>1, <1>2 DEF Seats!Finish, Seats!Idle, Seats!Pc, SeatsInv, Seats!TypeOK
  <2>2. \A p \in Request : Open(p)' => Open(p) /\ handler'[p] = handler[p]
    BY <1>1, <1>2 DEF Seats!Finish, Seats!Idle, Open
  <2>3. QED BY <1>1, <2>1, <2>2, SeatsQuiet
<1>3. ASSUME NEW pc \in {"founding", "accepting"}, Seats!Goto(r, pc), q.email \notin users,
             pc = "accepting" => q.inv # None /\ inv[q.inv].status = "pending"
      PROVE  SeatsInv'
  <2>1. /\ handler'[r] = [q EXCEPT !.pc = pc]
        /\ \A p \in Request \ {r} : handler'[p] = handler[p]
        /\ handler' \in [Request -> SeatRequest]
    BY <1>1, <1>3 DEF Seats!Goto, Seats!Pc
  <2>2. Seats!TypeOK'
    <3>1. q.email # None /\ (pc = "accepting" => q.inv # None)
      BY <1>1, <1>3 DEF SeatsInv, Seats!TypeOK
    <3>2. q \in SeatRequest
      BY <1>1
    <3>3. /\ handler'[r].pc = pc
          /\ handler'[r].email = q.email /\ handler'[r].inv = q.inv
      BY <2>1, <3>2
    <3>4. \A p \in Request :
            /\ handler'[p].pc \in {"hashed", "founding", "accepting"} => handler'[p].email # None
            /\ handler'[p].pc \in {"accepting", "inviting"} => handler'[p].inv # None
      BY <2>1, <3>1, <3>3 DEF SeatsInv, Seats!TypeOK
    <3>5. /\ users' \subseteq Email /\ mailed' \subseteq Invitation
          /\ seat' \in [Email -> [Email -> Seats!Seat \cup {None}]]
      BY <1>1 DEF SeatsInv, Seats!TypeOK
    <3>6. /\ inv' \in [Invitation -> InvitationRow]
          /\ via' \in [Email -> Invitation \cup {None}]
      BY <1>1 DEF SeatsInv, Seats!TypeOK
    <3> HIDE DEF q
    <3>7. QED BY <2>1, <3>4, <3>5, <3>6, Zenon DEF Seats!TypeOK, SeatRequest, InvitationRow
  <2>3. EmailsAreUnique'
    BY <1>1, <1>3, <2>1 DEF SeatsInv, EmailsAreUnique, Open, Seats!Inserting
  <2>4. InvitationsLead' /\ SeatsAreUsers'
    BY <1>1, <1>3, <2>1 DEF SeatsInv, InvitationsLead, SeatsAreUsers
  <2>5. Seats!OneOrganizationEach' /\ Seats!AcceptedIsSeated'
    BY <1>1 DEF SeatsInv, Seats!OneOrganizationEach, Seats!AcceptedIsSeated, Seats!Members
  <2>6. QED BY <2>2, <2>3, <2>4, <2>5 DEF SeatsInv
<1>4. QED BY <1>2, <1>3 DEF Seats!Insert

\* A commit makes e a user with the one seat o, which e did not have before.
LEMMA SeatKeeps ==
    ASSUME SeatsInv, NEW r \in Request, Open(r), Seats!Finish(r),
           NEW o \in Email, NEW s \in Seats!Seat,
           users' = users \cup {handler[r].email},
           seat' = [seat EXCEPT ![o][handler[r].email] = s],
           o = handler[r].email => s = Seats!OwnerSeat,
           o # handler[r].email => seat[o][o] = Seats!OwnerSeat
    PROVE  /\ users' \subseteq Email /\ seat' \in [Email -> [Email -> Seats!Seat \cup {None}]]
           /\ \A f, p \in Email :
                 seat'[p][f] = IF p = o /\ f = handler[r].email THEN s ELSE seat[p][f]
           /\ handler'[r] = Seats!Idle
           /\ \A p \in Request : Open(p)' => Open(p) /\ handler'[p] = handler[p]
           /\ handler' \in [Request -> SeatRequest]
           /\ EmailsAreUnique' /\ Seats!OneOrganizationEach'
           /\ \A f, p \in Email : seat'[p][f] # None => f \in users'
<1> DEFINE e == handler[r].email
<1>1. /\ e \in Email /\ e \notin users /\ users \subseteq Email
      /\ seat \in [Email -> [Email -> Seats!Seat \cup {None}]]
      /\ handler \in [Request -> SeatRequest]
  BY DEF SeatsInv, Seats!TypeOK, EmailsAreUnique, Open
<1>2. users' \subseteq Email /\ seat' \in [Email -> [Email -> Seats!Seat \cup {None}]]
  BY <1>1
<1>3. \A f, p \in Email : seat'[p][f] = IF p = o /\ f = e THEN s ELSE seat[p][f]
  BY <1>1
<1>4. /\ handler'[r] = Seats!Idle /\ \A p \in Request \ {r} : handler'[p] = handler[p]
      /\ handler' \in [Request -> SeatRequest]
  BY <1>1 DEF Seats!Finish, Seats!Idle, Seats!Pc
<1>5. \A p \in Request : Open(p)' => Open(p) /\ handler'[p] = handler[p]
  BY <1>4 DEF Open, Seats!Idle
<1>6. EmailsAreUnique'
  BY <1>1, <1>4, <1>5 DEF SeatsInv, EmailsAreUnique, Open, Seats!Idle
<1>7. s # None /\ \A p \in Email : seat[p][e] = None
  BY <1>1, SeatsAssumption DEF SeatsInv, SeatsAreUsers
<1> HIDE DEF e
<1>8. \A f, p \in Email : seat'[p][f] # None => f \in users'
  BY <1>1, <1>3 DEF SeatsInv, SeatsAreUsers, e
<1>9. Seats!OneOrganizationEach'
  <2>1. ASSUME NEW f \in users'
        PROVE  \E n \in Email : \A p \in Email : f \in Seats!Members(p)' <=> p = n
    <3>1. CASE f = e
      BY <1>1, <1>3, <1>7, <3>1 DEF Seats!Members
    <3>2. CASE f # e
      <4>1. PICK n \in Email : \A p \in Email : f \in Seats!Members(p) <=> p = n
        BY <3>2 DEF SeatsInv, Seats!OneOrganizationEach, e
      <4>2. f \in Email /\ \A p \in Email : seat'[p][f] = seat[p][f]
        BY <1>2, <1>3, <3>2
      <4>3. QED BY <4>1, <4>2 DEF Seats!Members
    <3>3. QED BY <3>1, <3>2
  <2>2. ASSUME NEW p \in Email, Seats!Members(p)' # {} PROVE seat'[p][p] = Seats!OwnerSeat
    <3>1. CASE p = o
      <4>1. CASE o = e
        BY <1>3, <3>1, <4>1 DEF e
      <4>2. CASE o # e
        BY <1>3, <3>1, <4>2 DEF e
      <4>3. QED BY <4>1, <4>2
    <3>2. CASE p # o
      <4>1. Seats!Members(p) # {} /\ seat'[p][p] = seat[p][p]
        BY <1>3, <2>2, <3>2 DEF Seats!Members
      <4>2. QED BY <4>1 DEF SeatsInv, Seats!OneOrganizationEach
    <3>3. QED BY <3>1, <3>2
  <2>3. QED BY <2>1, <2>2 DEF Seats!OneOrganizationEach
<1>10. QED BY <1>2, <1>3, <1>4, <1>5, <1>6, <1>8, <1>9 DEF e

\* A registration without invitation commits.
LEMMA FoundKeeps ==
    ASSUME SeatsInv, NEW r \in Request, Seats!Found(r)
    PROVE  SeatsInv'
<1> DEFINE e == handler[r].email
<1>1. /\ Open(r) /\ Seats!Finish(r) /\ e \in Email /\ Seats!OwnerSeat \in Seats!Seat
      /\ users' = users \cup {e} /\ seat' = [seat EXCEPT ![e][e] = Seats!OwnerSeat]
      /\ UNCHANGED <<inv, mailed, via>>
  BY SeatKinds DEF Seats!Found, Open, SeatsInv, Seats!TypeOK
<1>2. /\ users' \subseteq Email /\ seat' \in [Email -> [Email -> Seats!Seat \cup {None}]]
      /\ \A f, p \in Email : seat'[p][f] = IF p = e /\ f = e THEN Seats!OwnerSeat ELSE seat[p][f]
      /\ handler'[r] = Seats!Idle
      /\ \A p \in Request : Open(p)' => Open(p) /\ handler'[p] = handler[p]
      /\ handler' \in [Request -> SeatRequest]
      /\ EmailsAreUnique' /\ Seats!OneOrganizationEach'
      /\ \A f, p \in Email : seat'[p][f] # None => f \in users'
  BY <1>1, SeatKeeps
<1>3. e \notin users /\ \A f, p \in Email : seat[p][f] # None => f # e
  BY <1>1 DEF SeatsInv, EmailsAreUnique, SeatsAreUsers
<1> HIDE DEF e
<1>4. Seats!TypeOK'
  BY <1>1, <1>2 DEF SeatsInv, Seats!TypeOK, Seats!Finish, Seats!Idle
<1>5. InvitationsLead'
  BY <1>1, <1>2 DEF SeatsInv, InvitationsLead, Open
<1>6. SeatsAreUsers'
  BY <1>1, <1>2 DEF SeatsInv, SeatsAreUsers
<1>7. Seats!AcceptedIsSeated'
  <2>1. ASSUME NEW i \in Invitation, inv'[i].status = "accepted"
        PROVE  \E f \in users' :
                  via'[f] = i /\ seat'[inv'[i].org][f] = Seats!InvitedSeat(inv'[i].role)
    <3>1. PICK f \in users : via[f] = i /\ seat[inv[i].org][f] = Seats!InvitedSeat(inv[i].role)
      BY <1>1, <2>1 DEF SeatsInv, Seats!AcceptedIsSeated
    <3>2. f \in users' /\ f \in Email /\ f # e /\ inv[i].org \in Email
      BY <1>1, <1>2, <1>3, <2>1 DEF SeatsInv, InvitationsLead
    <3>3. seat'[inv[i].org][f] = seat[inv[i].org][f]
      BY <1>2, <3>2
    <3>4. QED BY <1>1, <3>1, <3>2, <3>3
  <2>2. ASSUME NEW o \in Email, NEW f \in Seats!Members(o)', f # o
        PROVE  \E i \in Invitation : /\ inv'[i].status = "accepted" /\ inv'[i].org = o
                                     /\ seat'[o][f] = Seats!InvitedSeat(inv'[i].role)
    <3>1. f \in Email /\ f \in Seats!Members(o) /\ seat'[o][f] = seat[o][f]
      BY <1>2, <2>2 DEF Seats!Members
    <3>2. QED BY <1>1, <2>2, <3>1 DEF SeatsInv, Seats!AcceptedIsSeated
  <2>3. QED BY <2>1, <2>2 DEF Seats!AcceptedIsSeated, Seats!Members
<1>8. QED BY <1>2, <1>4, <1>5, <1>6, <1>7 DEF SeatsInv

\* A registration with an invitation commits.
LEMMA AcceptKeeps ==
    ASSUME SeatsInv, NEW r \in Request, Seats!Accept(r)
    PROVE  SeatsInv'
<1> DEFINE e == handler[r].email
           j == handler[r].inv
           o == inv[j].org
           s == Seats!InvitedSeat(inv[j].role)
<1>0. inv \in [Invitation -> InvitationRow]
  BY DEF SeatsInv, Seats!TypeOK
<1>1. /\ Open(r) /\ Seats!Finish(r) /\ e \in Email /\ e \notin users
      /\ j \in Invitation /\ inv[j].status # "unsent"
      /\ o \in Email /\ seat[o][o] = Seats!OwnerSeat /\ s \in Seats!Seat
      /\ users' = users \cup {e} /\ seat' = [seat EXCEPT ![o][e] = s]
      /\ inv' = [inv EXCEPT ![j].status = "accepted"]
      /\ via' = [via EXCEPT ![e] = j]
      /\ UNCHANGED mailed
  BY <1>0, SeatKinds DEF Seats!Accept, Open, SeatsInv, Seats!TypeOK,
     InvitationsLead, EmailsAreUnique
<1>2. o \in users /\ o # e
  BY <1>1, SeatKinds DEF SeatsInv, SeatsAreUsers
<1>3. /\ users' \subseteq Email /\ seat' \in [Email -> [Email -> Seats!Seat \cup {None}]]
      /\ \A f, p \in Email : seat'[p][f] = IF p = o /\ f = e THEN s ELSE seat[p][f]
      /\ handler'[r] = Seats!Idle
      /\ \A p \in Request : Open(p)' => Open(p) /\ handler'[p] = handler[p]
      /\ handler' \in [Request -> SeatRequest]
      /\ EmailsAreUnique' /\ Seats!OneOrganizationEach'
      /\ \A f, p \in Email : seat'[p][f] # None => f \in users'
  <2> HIDE DEF o, s
  <2>1. QED BY <1>1, <1>2, SeatKeeps
<1>4. /\ inv'[j].status = "accepted" /\ inv' \in [Invitation -> InvitationRow]
      /\ \A i \in Invitation : inv'[i].org = inv[i].org /\ inv'[i].role = inv[i].role
      /\ \A i \in Invitation \ {j} : inv'[i].status = inv[i].status
  BY <1>0, <1>1 DEF Seats!InvStatus
<1>5. /\ via'[e] = j /\ via' \in [Email -> Invitation \cup {None}]
      /\ \A f \in Email \ {e} : via'[f] = via[f]
  BY <1>1 DEF SeatsInv, Seats!TypeOK
<1> HIDE DEF e, o, j, s
<1>6. Seats!TypeOK'
  BY <1>1, <1>3, <1>4, <1>5 DEF SeatsInv, Seats!TypeOK, Seats!Finish, Seats!Idle
<1>7. InvitationsLead'
  <2>1. \A i \in Invitation : inv'[i].status # "unsent" => inv[i].status # "unsent"
    BY <1>1, <1>4
  <2>2. \A p \in Request : handler[p].pc = "accepting" => handler[p].inv \in Invitation
    BY DEF SeatsInv, Seats!TypeOK
  <2>3. \A i \in Invitation : inv[i].status # "unsent" => inv'[i].status # "unsent"
    BY <1>4
  <2>4. \A p \in Email : seat'[p][p] = seat[p][p]
    BY <1>2, <1>3
  <2>5. ASSUME NEW i \in Invitation, inv'[i].status # "unsent"
        PROVE  inv'[i].org \in Email /\ seat'[inv'[i].org][inv'[i].org] = Seats!OwnerSeat
    <3>1. inv'[i].org = inv[i].org /\ inv[i].org \in Email
          /\ seat[inv[i].org][inv[i].org] = Seats!OwnerSeat
      BY <1>4, <2>1, <2>5 DEF SeatsInv, InvitationsLead
    <3>2. QED BY <2>4, <3>1
  <2>6. ASSUME NEW p \in Request, handler'[p].pc = "accepting"
        PROVE  inv'[handler'[p].inv].status # "unsent"
    <3>1. handler'[p] = handler[p] /\ handler[p].pc = "accepting"
      BY <1>3, <2>6 DEF Open
    <3>2. QED BY <2>2, <2>3, <3>1 DEF SeatsInv, InvitationsLead
  <2>7. QED BY <2>5, <2>6 DEF InvitationsLead
<1>8. SeatsAreUsers'
  <2>1. \A f \in Email : via'[f] # None => f \in users' /\ inv'[via'[f]].status = "accepted"
    BY <1>1, <1>4, <1>5 DEF SeatsInv, Seats!TypeOK, SeatsAreUsers, e
  <2>2. QED BY <1>3, <2>1 DEF SeatsAreUsers
<1>9. Seats!AcceptedIsSeated'
  <2>1. ASSUME NEW i \in Invitation, inv'[i].status = "accepted"
        PROVE  \E f \in users' :
                  via'[f] = i /\ seat'[inv'[i].org][f] = Seats!InvitedSeat(inv'[i].role)
    <3>1. CASE i = j
      BY <1>1, <1>3, <1>4, <1>5, <3>1 DEF o, s
    <3>2. CASE i # j
      <4>1. inv[i].status = "accepted" /\ inv[i].org \in Email
        BY <1>4, <2>1, <3>2 DEF SeatsInv, InvitationsLead
      <4>2. PICK f \in users : via[f] = i /\ seat[inv[i].org][f] = Seats!InvitedSeat(inv[i].role)
        BY <4>1 DEF SeatsInv, Seats!AcceptedIsSeated
      <4>3. f \in users' /\ f \in Email /\ f # e
        BY <1>1, <1>3, <4>2
      <4>4. seat'[inv[i].org][f] = seat[inv[i].org][f] /\ via'[f] = via[f]
        BY <1>3, <1>5, <4>1, <4>3
      <4>5. QED BY <1>4, <4>2, <4>3, <4>4
    <3>3. QED BY <3>1, <3>2
  <2>2. ASSUME NEW p \in Email, NEW f \in Seats!Members(p)', f # p
        PROVE  \E i \in Invitation : /\ inv'[i].status = "accepted" /\ inv'[i].org = p
                                     /\ seat'[p][f] = Seats!InvitedSeat(inv'[i].role)
    <3>1. CASE p = o /\ f = e
      BY <1>1, <1>3, <1>4, <3>1 DEF o, s
    <3>2. CASE ~(p = o /\ f = e)
      <4>1. f \in Email /\ f \in Seats!Members(p) /\ seat'[p][f] = seat[p][f]
        BY <1>3, <2>2, <3>2 DEF Seats!Members
      <4>2. QED BY <1>4, <2>2, <4>1 DEF SeatsInv, Seats!AcceptedIsSeated
    <3>3. QED BY <3>1, <3>2
  <2>3. QED BY <2>1, <2>2 DEF Seats!AcceptedIsSeated, Seats!Members
<1>10. QED BY <1>3, <1>6, <1>7, <1>8, <1>9 DEF SeatsInv

\* An invitation is created by somebody who may invite.
LEMMA InviteKeeps ==
    ASSUME SeatsInv, NEW r \in Request, NEW o \in Email, NEW e \in Email,
           NEW role \in Seats!Role, Seats!Invite(r, o, e, role)
    PROVE  SeatsInv'
<1>1. PICK i \in Invitation :
        /\ inv[i].status = "unsent"
        /\ inv' = [inv EXCEPT ![i] = [status |-> "pending", org |-> o, role |-> role]]
        /\ handler' = [handler EXCEPT ![r] = [pc |-> "inviting", email |-> None, inv |-> i]]
        /\ UNCHANGED <<users, seat, mailed, via>>
  BY DEF Seats!Invite
<1>2. /\ inv \in [Invitation -> InvitationRow]
      /\ inv' \in [Invitation -> InvitationRow]
      /\ inv'[i].org = o /\ \A j \in Invitation \ {i} : inv'[j] = inv[j]
  BY <1>1 DEF SeatsInv, Seats!TypeOK, Seats!InvStatus
<1>3. Seats!TypeOK'
  <2>1. /\ handler'[r] = [pc |-> "inviting", email |-> None, inv |-> i] /\ i # None
        /\ \A p \in Request \ {r} : handler'[p] = handler[p]
        /\ handler' \in [Request -> SeatRequest]
    BY <1>1, SeatsAssumption DEF SeatsInv, Seats!TypeOK, Seats!Pc
  <2>2. QED BY <1>1, <1>2, <2>1 DEF SeatsInv, Seats!TypeOK
<1>4. \A p \in Request : Open(p)' => Open(p) /\ handler'[p] = handler[p]
  BY <1>1 DEF SeatsInv, Seats!TypeOK, Open
<1>5. EmailsAreUnique'
  BY <1>1, <1>4 DEF SeatsInv, EmailsAreUnique, Open
<1>6. seat[o][o] = Seats!OwnerSeat
  <2>1. e \in Seats!Members(o)
    BY DEF Seats!Invite, Seats!MayInvite, Seats!Members
  <2>2. QED BY <2>1 DEF SeatsInv, Seats!OneOrganizationEach
<1>7. InvitationsLead'
  <2>1. \A p \in Request : handler[p].pc = "accepting" => handler[p].inv \in Invitation \ {i}
    BY <1>1 DEF SeatsInv, Seats!TypeOK, InvitationsLead
  <2>2. QED BY <1>1, <1>2, <1>4, <1>6, <2>1 DEF SeatsInv, InvitationsLead, Open
<1>8. \A j \in Invitation : inv[j].status = "accepted" => inv'[j] = inv[j]
  BY <1>1, <1>2
<1>9. \A j \in Invitation : inv'[j].status = "accepted" => inv'[j] = inv[j]
  <2>1. inv'[i].status = "pending"
    BY <1>1, <1>2
  <2>2. QED BY <1>2, <2>1
<1>10. SeatsAreUsers'
  BY <1>1, <1>8 DEF SeatsInv, Seats!TypeOK, SeatsAreUsers
<1>11. Seats!OneOrganizationEach'
  BY <1>1 DEF SeatsInv, Seats!OneOrganizationEach, Seats!Members
<1>12. Seats!AcceptedIsSeated'
  BY <1>1, <1>8, <1>9 DEF SeatsInv, Seats!AcceptedIsSeated, Seats!Members
<1>13. QED BY <1>3, <1>5, <1>7, <1>10, <1>11, <1>12 DEF SeatsInv

\* A pending invitation expires.
LEMMA ExpireKeeps ==
    ASSUME SeatsInv, NEW i \in Invitation, Seats!InvitationExpires(i)
    PROVE  SeatsInv'
<1>1. /\ inv[i].status = "pending" /\ UNCHANGED <<users, seat, mailed, handler, via>>
      /\ inv \in [Invitation -> InvitationRow]
      /\ inv' = [inv EXCEPT ![i].status = "expired"]
  BY DEF Seats!InvitationExpires, SeatsInv, Seats!TypeOK
<1>2. /\ inv' \in [Invitation -> InvitationRow]
      /\ inv'[i].status = "expired" /\ inv'[i].org = inv[i].org
      /\ \A j \in Invitation \ {i} : inv'[j] = inv[j]
  BY <1>1 DEF Seats!InvStatus
<1>3. Seats!TypeOK'
  BY <1>1, <1>2 DEF SeatsInv, Seats!TypeOK
<1>4. EmailsAreUnique'
  BY <1>1 DEF SeatsInv, EmailsAreUnique, Open
<1>5. InvitationsLead'
  BY <1>1, <1>2 DEF SeatsInv, Seats!TypeOK, InvitationsLead
<1>6. /\ \A j \in Invitation : inv[j].status = "accepted" => inv'[j] = inv[j]
      /\ \A j \in Invitation : inv'[j].status = "accepted" => inv'[j] = inv[j]
  BY <1>1, <1>2
<1>7. SeatsAreUsers'
  BY <1>1, <1>6 DEF SeatsInv, Seats!TypeOK, SeatsAreUsers
<1>8. Seats!OneOrganizationEach' /\ Seats!AcceptedIsSeated'
  BY <1>1, <1>6 DEF SeatsInv, Seats!OneOrganizationEach, Seats!AcceptedIsSeated, Seats!Members
<1>9. QED BY <1>3, <1>4, <1>5, <1>7, <1>8 DEF SeatsInv

\* Every step keeps the invariant.
LEMMA SeatsInvStep == ASSUME SeatsInv, [Seats!Next]_Seats!vars PROVE SeatsInv'
<1>0. handler \in [Request -> SeatRequest]
  BY DEF SeatsInv, Seats!TypeOK
<1>1. ASSUME NEW r \in Request, NEW e \in Email, NEW i \in Invitation \cup {None},
             Seats!Register(r, e, i)
      PROVE  SeatsInv'
  <2>1. /\ handler'[r] = [pc |-> "hashed", email |-> e, inv |-> i] /\ e # None
        /\ \A p \in Request \ {r} : handler'[p] = handler[p]
        /\ handler' \in [Request -> SeatRequest]
        /\ UNCHANGED <<users, seat, inv, mailed, via>>
    BY <1>0, <1>1, SeatsAssumption DEF Seats!Register, Seats!Pc
  <2>2. \A p \in Request : Open(p)' => Open(p) /\ handler'[p] = handler[p]
    BY <1>0, <1>1 DEF Seats!Register, Open
  <2>3. Seats!TypeOK'
    BY <2>1 DEF SeatsInv, Seats!TypeOK
  <2>4. QED BY <2>1, <2>2, <2>3, SeatsQuiet
<1>2. ASSUME NEW r \in Request, Seats!EnqueueInvitation(r) \/ Seats!Fail(r)
      PROVE  SeatsInv'
  <2>1. Seats!Finish(r) /\ UNCHANGED <<users, seat, inv, via>>
    BY <1>2 DEF Seats!EnqueueInvitation, Seats!Fail
  <2>2. mailed' \subseteq Invitation
    BY <1>0, <1>2 DEF Seats!EnqueueInvitation, Seats!Fail, SeatsInv, Seats!TypeOK
  <2>3. Seats!TypeOK'
    BY <2>1, <2>2 DEF Seats!Finish, Seats!Idle, SeatsInv, Seats!TypeOK, Seats!Pc
  <2>4. \A p \in Request : Open(p)' => Open(p) /\ handler'[p] = handler[p]
    BY <1>0, <2>1 DEF Seats!Finish, Seats!Idle, Open
  <2>5. QED BY <2>1, <2>3, <2>4, SeatsQuiet
<1>3. CASE UNCHANGED Seats!vars
  <2>1. Seats!TypeOK' /\ \A p \in Request : Open(p)' => Open(p) /\ handler'[p] = handler[p]
    BY <1>3 DEF Seats!vars, SeatsInv, Seats!TypeOK, Open
  <2>2. QED BY <1>3, <2>1, SeatsQuiet DEF Seats!vars
<1>4. QED
  BY <1>1, <1>2, <1>3, InsertKeeps, FoundKeeps, AcceptKeeps, InviteKeeps, ExpireKeeps
  DEF Seats!Next, Seats!Step

LEMMA SeatsAlways == Seats!Spec => []SeatsInv
  BY SeatsBegin, SeatsInvStep, PTL DEF Seats!Spec

LEMMA SeatsStep == [MCNext]_<<vars, seats, lock, part, alone>> => [Seats!Next]_Seats!vars
  BY DEF MCNext, seats, Seats!vars

LEMMA SeatsSpec == MCSpec => Seats!Spec
<1>1. MCInit => Seats!Init
  BY DEF MCInit
<1>2. QED BY <1>1, SeatsStep, PTL DEF MCSpec, Seats!Spec

\* In every interleaving of registrations, invitations and crashes each user
\* sits in one organization, and each organization keeps its founder as owner
\* (register, acceptInvitationInTransaction, invite).
THEOREM OneOrganizationTheorem == MCSpec => []OneOrganizationEach
<1>1. SeatsInv => OneOrganizationEach
  BY DEF SeatsInv, OneOrganizationEach
<1>2. QED BY <1>1, SeatsAlways, SeatsSpec, PTL

\* An invitation is marked accepted if and only if somebody got its seat.
THEOREM AcceptedTheorem == MCSpec => []AcceptedIsSeated
<1>1. SeatsInv => AcceptedIsSeated
  BY DEF SeatsInv, AcceptedIsSeated
<1>2. QED BY <1>1, SeatsAlways, SeatsSpec, PTL

-----------------------------------------------------------------------------
(* One request at a time.                                                  *)

SeatsAlone == \A q, r \in Request : handler[q].pc # "idle" /\ handler[r].pc # "idle" => q = r

\* Nobody has accepted the invitation that is being accepted.
StillOpen ==
    \A r \in Request : handler[r].pc = "accepting" => inv[handler[r].inv].status # "accepted"

\* Requests that do not overlap let one user in per invitation.
LEMMA SeatsAloneStep ==
    ASSUME SeatsInv, SeatsAlone, StillOpen, Seats!OneUserPerInvitation, [Seats!Next]_Seats!vars
    PROVE  StillOpen' /\ Seats!OneUserPerInvitation'
<1>0. /\ handler \in [Request -> SeatRequest]
      /\ inv \in [Invitation -> InvitationRow]
      /\ via \in [Email -> Invitation \cup {None}] /\ users \subseteq Email
      /\ \A r \in Request : handler[r].pc = "accepting" => handler[r].inv \in Invitation
  BY DEF SeatsInv, Seats!TypeOK
<1>1. ASSUME NEW r \in Request, Seats!Accept(r) PROVE StillOpen' /\ Seats!OneUserPerInvitation'
  <2> DEFINE e == handler[r].email
             j == handler[r].inv
  <2>1. /\ handler[r].pc = "accepting" /\ e \in Email /\ e \notin users /\ j \in Invitation
        /\ inv[j].status # "accepted"
        /\ users' = users \cup {e} /\ via' = [via EXCEPT ![e] = j]
        /\ handler' = [handler EXCEPT ![r] = Seats!Idle]
    BY <1>0, <1>1 DEF Seats!Accept, Seats!Finish, SeatsInv, Seats!TypeOK, EmailsAreUnique,
       Open, StillOpen
  <2>2. \A p \in Request : handler'[p].pc # "accepting"
    BY <1>0, <2>1 DEF SeatsAlone, Seats!Idle
  <2>3. \A d \in users : via[d] # j
    BY <1>0, <2>1, SeatsAssumption DEF SeatsInv, SeatsAreUsers
  <2>4. Seats!OneUserPerInvitation'
    BY <1>0, <2>1, <2>3 DEF Seats!OneUserPerInvitation
  <2>5. QED BY <2>2, <2>4 DEF StillOpen
<1>2. ASSUME NEW r \in Request, Seats!Found(r) PROVE StillOpen' /\ Seats!OneUserPerInvitation'
  <2>1. handler[r].email \in Email /\ via[handler[r].email] = None
    BY <1>2 DEF Seats!Found, SeatsInv, Seats!TypeOK, EmailsAreUnique, SeatsAreUsers, Open
  <2>2. Seats!OneUserPerInvitation'
    BY <1>2, <2>1 DEF Seats!Found, Seats!OneUserPerInvitation
  <2>3. StillOpen'
    BY <1>0, <1>2 DEF Seats!Found, Seats!Finish, Seats!Idle, StillOpen
  <2>4. QED BY <2>2, <2>3
<1>3. ASSUME NEW r \in Request, Seats!Insert(r) PROVE StillOpen' /\ Seats!OneUserPerInvitation'
  BY <1>0, <1>3 DEF Seats!Insert, Seats!Goto, Seats!Finish, Seats!Idle, StillOpen,
     Seats!OneUserPerInvitation
<1>4. ASSUME NEW r \in Request, Seats!EnqueueInvitation(r) \/ Seats!Fail(r)
      PROVE  StillOpen' /\ Seats!OneUserPerInvitation'
  BY <1>0, <1>4 DEF Seats!EnqueueInvitation, Seats!Fail, Seats!Finish, Seats!Idle,
     StillOpen, Seats!OneUserPerInvitation
<1>5. ASSUME NEW r \in Request, NEW e \in Email, NEW i \in Invitation \cup {None},
             Seats!Register(r, e, i)
      PROVE  StillOpen' /\ Seats!OneUserPerInvitation'
  BY <1>0, <1>5 DEF Seats!Register, StillOpen, Seats!OneUserPerInvitation
<1>6. ASSUME NEW r \in Request, NEW o \in Email, NEW e \in Email, NEW role \in Seats!Role,
             Seats!Invite(r, o, e, role)
      PROVE  StillOpen' /\ Seats!OneUserPerInvitation'
  BY <1>0, <1>6 DEF Seats!Invite, StillOpen, Seats!OneUserPerInvitation
<1>7. ASSUME NEW i \in Invitation, Seats!InvitationExpires(i)
      PROVE  StillOpen' /\ Seats!OneUserPerInvitation'
  BY <1>0, <1>7 DEF Seats!InvitationExpires, StillOpen, Seats!OneUserPerInvitation
<1>8. CASE UNCHANGED Seats!vars
  BY <1>8 DEF Seats!vars, StillOpen, Seats!OneUserPerInvitation
<1>9. QED BY <1>1, <1>2, <1>3, <1>4, <1>5, <1>6, <1>7, <1>8 DEF Seats!Next, Seats!Step

\* As long as no two requests overlap, one invitation lets in one user.
THEOREM OneUserTheorem == MCSpec => []AloneOneUserPerInvitation
<1> DEFINE Inv == alone => SeatsAlone /\ StillOpen /\ Seats!OneUserPerInvitation
<1>1. MCInit => Inv
  BY DEF MCInit, Seats!Init, Seats!Idle, SeatsAlone, StillOpen, Seats!OneUserPerInvitation
<1>2. SeatsInv /\ SeatsInv' /\ Inv /\ [MCNext]_<<vars, seats, lock, part, alone>> => Inv'
  <2> SUFFICES ASSUME SeatsInv, SeatsInv', Inv, [MCNext]_<<vars, seats, lock, part, alone>>, alone'
               PROVE  SeatsAlone' /\ StillOpen' /\ Seats!OneUserPerInvitation'
    OBVIOUS
  <2>1. alone
    BY DEF MCNext
  <2>2. StillOpen' /\ Seats!OneUserPerInvitation'
    BY <2>1, SeatsStep, SeatsAloneStep
  <2>3. SeatsAlone'
    <3>1. CASE MCNext
      <4>1. AtMostOne(handler)'
        BY <2>1, <3>1 DEF MCNext
      <4>2. DOMAIN handler' = Request
        BY DEF SeatsInv, Seats!TypeOK
      <4>3. QED BY <4>1, <4>2 DEF AtMostOne, Busy, SeatsAlone
    <3>2. CASE UNCHANGED <<vars, seats, lock, part, alone>>
      BY <2>1, <3>2 DEF seats, SeatsAlone
    <3>3. QED BY <3>1, <3>2
  <2>4. QED BY <2>2, <2>3
<1>3. Inv => AloneOneUserPerInvitation
  BY DEF AloneOneUserPerInvitation
<1>4. QED BY <1>1, <1>2, <1>3, SeatsAlways, SeatsSpec, PTL DEF MCSpec

-----------------------------------------------------------------------------
(* The lock, for any number of logins, any limit, any window and clocks of *)
(* any length.                                                             *)
(*                                                                         *)
(* FreshAfterLock rests on the order of the two dates: as long as a lock   *)
(* holds, the counter expires no later than it does, because whoever is    *)
(* still in flight when the lock falls ends within the same tick.          *)
(* OvershootIsBounded rests on who can still increment: while the account  *)
(* is open, every increment beyond the limit leaves a login about to lock; *)
(* while it is locked, only the logins that had read the row before.       *)

USE LockAssumption

\* The counter and the lock end within a window from now.
DatesAreNear ==
    /\ expiry # 0 => expiry > now /\ expiry <= now + Window
    /\ lockedUntil <= now + Window

\* A lock holds, and somebody is still in flight: it has just fallen.
LocksAreNew == Lock!Locked /\ ~Lock!AllIdle => lockedUntil = now + Window

\* While a lock holds the counter does not outlive it; afterwards a counter
\* with a TTL is a new one.
CounterFollowsLock ==
    /\ Lock!Locked /\ expiry # 0 => expiry <= lockedUntil
    /\ lockedUntil # 0 /\ ~Lock!Locked /\ expiry # 0 => expiry >= lockedUntil + Window

\* A counter without TTL has somebody who is about to set it, or lost him.
TTLIsComing ==
    count > 0 /\ deaths = 0 /\ expiry = 0 => \E r \in Request : login[r].pc = "expire"

DatesInv == Lock!TypeOK /\ DatesAreNear /\ LocksAreNew /\ CounterFollowsLock /\ TTLIsComing

-----------------------------------------------------------------------------

\* How each step moves a request.
LEMMA LoginMoves ==
    ASSUME Lock!TypeOK, NEW r \in Request, NEW pc \in Lock!Pc, NEW flag \in BOOLEAN,
           Lock!Goto(r, pc, flag) \/ (pc = "idle" /\ flag = FALSE /\ Lock!Finish(r))
    PROVE  /\ login' \in [Request -> [pc : Lock!Pc, flag : BOOLEAN]]
           /\ login'[r].pc = pc /\ login'[r].flag = flag
           /\ \A q \in Request \ {r} : login'[q] = login[q]
<1> DEFINE now1 == [pc |-> pc, flag |-> flag]
<1>1. now1 \in [pc : Lock!Pc, flag : BOOLEAN] /\ now1.pc = pc
  BY Zenon
<1>2. now1.flag = flag
  BY Zenon
<1>3. login' = [login EXCEPT ![r] = now1]
  BY Zenon DEF Lock!Goto, Lock!Finish, Lock!Idle
<1> HIDE DEF now1
<1>4. login \in [Request -> [pc : Lock!Pc, flag : BOOLEAN]]
  BY Zenon DEF Lock!TypeOK
<1>5. login'[r] = now1 /\ login' \in [Request -> [pc : Lock!Pc, flag : BOOLEAN]]
      /\ \A q \in Request \ {r} : login'[q] = login[q]
  BY <1>1, <1>3, <1>4
<1>6. QED BY <1>1, <1>2, <1>5, Zenon

LEMMA WrongMoves ==
    ASSUME Lock!TypeOK, NEW r \in Request, Lock!Wrong(r)
    PROVE  /\ login' \in [Request -> [pc : Lock!Pc, flag : BOOLEAN]]
           /\ login'[r].pc \in {"expire", "record"}
           /\ count = 0 => login'[r].pc = "expire"
           /\ count # 0 => login'[r].pc = "record"
           /\ login'[r].pc = "record" /\ count + 1 > Limit => login'[r].flag
           /\ \A q \in Request \ {r} : login'[q] = login[q]
<1>1. CASE count = 0
  <2>1. Lock!Goto(r, "expire", FALSE)
    BY <1>1 DEF Lock!Wrong
  <2>2. QED BY <1>1, <2>1, LoginMoves DEF Lock!Pc
<1>2. CASE count # 0
  <2>1. Lock!Goto(r, "record", count + 1 > Limit)
    BY <1>2 DEF Lock!Wrong
  <2>2. CASE count + 1 > Limit
    <3>1. (count + 1 > Limit) = TRUE
      BY <2>2, Zenon
    <3>2. Lock!Goto(r, "record", TRUE)
      BY <2>1, <3>1, Zenon
    <3>3. QED BY <1>2, <3>2, LoginMoves DEF Lock!Pc
  <2>3. CASE ~(count + 1 > Limit)
    <3>1. (count + 1 > Limit) = FALSE
      BY <2>3
    <3>2. Lock!Goto(r, "record", FALSE)
      BY <2>1, <3>1, Zenon
    <3>3. QED BY <1>2, <2>3, <3>2, LoginMoves DEF Lock!Pc
  <2>4. QED BY <2>2, <2>3
<1>3. QED BY <1>1, <1>2

LEMMA ExpireMoves ==
    ASSUME Lock!TypeOK, NEW r \in Request, Lock!Expire(r)
    PROVE  /\ login' \in [Request -> [pc : Lock!Pc, flag : BOOLEAN]]
           /\ login'[r].pc = "record" /\ login'[r].flag = FALSE
           /\ \A q \in Request \ {r} : login'[q] = login[q]
<1>1. ~(1 > Limit)
  OBVIOUS
<1>2. (1 > Limit) = FALSE
  BY <1>1
<1>3. Lock!Goto(r, "record", FALSE)
  BY <1>2, Zenon DEF Lock!Expire
<1>4. QED BY <1>3, LoginMoves DEF Lock!Pc

LEMMA ReadMoves ==
    ASSUME Lock!TypeOK, NEW r \in Request, Lock!Read(r)
    PROVE  /\ login' \in [Request -> [pc : Lock!Pc, flag : BOOLEAN]]
           /\ login'[r].pc = "compare"
           /\ \A q \in Request \ {r} : login'[q] = login[q]
<1>1. Lock!Goto(r, "compare", dirty)
  BY Zenon DEF Lock!Read
<1>2. dirty \in BOOLEAN
  BY Zenon DEF Lock!TypeOK
<1>3. "compare" \in Lock!Pc
  BY DEF Lock!Pc
<1>4. CASE dirty = TRUE
  <2>1. Lock!Goto(r, "compare", TRUE)
    BY <1>1, <1>4, Zenon
  <2>2. QED BY <1>3, <2>1, LoginMoves
<1>5. CASE dirty = FALSE
  <2>1. Lock!Goto(r, "compare", FALSE)
    BY <1>1, <1>5, Zenon
  <2>2. QED BY <1>3, <2>1, LoginMoves
<1>6. QED BY <1>2, <1>4, <1>5, Zenon

\* The login is over.
LEMMA LoginFinishes ==
    ASSUME Lock!TypeOK, NEW r \in Request, Lock!Finish(r)
    PROVE  /\ login' \in [Request -> [pc : Lock!Pc, flag : BOOLEAN]]
           /\ login'[r].pc = "idle"
           /\ \A q \in Request \ {r} : login'[q] = login[q]
<1>1. "idle" \in Lock!Pc /\ FALSE \in BOOLEAN
  BY DEF Lock!Pc
<1>2. QED BY <1>1, LoginMoves, Zenon

LEMMA RightMoves ==
    ASSUME Lock!TypeOK, NEW r \in Request, Lock!Right(r)
    PROVE  /\ login' \in [Request -> [pc : Lock!Pc, flag : BOOLEAN]]
           /\ login'[r].pc \in {"idle", "clear"}
           /\ \A q \in Request \ {r} : login'[q] = login[q]
<1>1. Lock!Goto(r, "clear", FALSE) \/ Lock!Finish(r)
  BY DEF Lock!Right
<1>2. "clear" \in Lock!Pc /\ FALSE \in BOOLEAN
  BY DEF Lock!Pc
<1>3. CASE Lock!Goto(r, "clear", FALSE)
  BY <1>2, <1>3, LoginMoves
<1>4. QED BY <1>1, <1>3, LoginFinishes

\* The steps keep the types.
LEMMA LockTypes == ASSUME Lock!TypeOK, [Lock!Next]_Lock!vars PROVE Lock!TypeOK'
<1>0. dirty' \in BOOLEAN
  BY Zenon DEF Lock!Next, Lock!Login, Lock!Read, Lock!Wrong, Lock!Expire, Lock!Record,
     Lock!Right, Lock!Clear, Lock!Crash, Lock!ResetPassword,
     Lock!Tick, Lock!Unlock, Lock!vars, Lock!TypeOK
<1>1. ASSUME NEW r \in Request, Lock!Read(r) PROVE Lock!TypeOK'
  <2>1. login' \in [Request -> [pc : Lock!Pc, flag : BOOLEAN]]
    BY <1>1, ReadMoves
  <2>2. QED BY <1>0, <1>1, <2>1 DEF Lock!Read, Lock!TypeOK, Lock!history
<1>2. ASSUME NEW r \in Request, Lock!Wrong(r) PROVE Lock!TypeOK'
  <2>1. login' \in [Request -> [pc : Lock!Pc, flag : BOOLEAN]]
    BY <1>2, WrongMoves
  <2>2. QED BY <1>0, <1>2, <2>1 DEF Lock!Wrong, Lock!TypeOK, Lock!history
<1>3. ASSUME NEW r \in Request, Lock!Expire(r) PROVE Lock!TypeOK'
  <2>1. login' \in [Request -> [pc : Lock!Pc, flag : BOOLEAN]]
    BY <1>3, ExpireMoves
  <2>2. QED BY <1>0, <1>3, <2>1 DEF Lock!Expire, Lock!TypeOK, Lock!history
<1>4. ASSUME NEW r \in Request, Lock!Record(r) PROVE Lock!TypeOK'
  <2>1. login' \in [Request -> [pc : Lock!Pc, flag : BOOLEAN]]
    BY <1>4, LoginFinishes DEF Lock!Record
  <2>2. QED BY <1>0, <1>4, <2>1 DEF Lock!Record, Lock!TypeOK, Lock!history
<1>5. ASSUME NEW r \in Request, Lock!Right(r) PROVE Lock!TypeOK'
  <2>1. login' \in [Request -> [pc : Lock!Pc, flag : BOOLEAN]]
    BY <1>5, RightMoves
  <2>2. QED BY <1>0, <1>5, <2>1 DEF Lock!Right, Lock!TypeOK, Lock!CounterGone
<1>6. ASSUME NEW r \in Request, Lock!Clear(r) PROVE Lock!TypeOK'
  <2>1. login' \in [Request -> [pc : Lock!Pc, flag : BOOLEAN]]
    BY <1>6, LoginFinishes DEF Lock!Clear
  <2>2. QED BY <1>0, <1>6, <2>1 DEF Lock!Clear, Lock!TypeOK, Lock!Unlock
<1>7. ASSUME NEW r \in Request, Lock!Crash(r) PROVE Lock!TypeOK'
  <2>1. login' \in [Request -> [pc : Lock!Pc, flag : BOOLEAN]]
    BY <1>7, LoginFinishes DEF Lock!Crash
  <2>2. QED BY <1>0, <1>7, <2>1 DEF Lock!Crash, Lock!TypeOK
<1>8. CASE Lock!ResetPassword
  BY <1>0, <1>8 DEF Lock!ResetPassword, Lock!TypeOK, Lock!Unlock
<1>9. CASE Lock!Tick
  BY <1>0, <1>9 DEF Lock!Tick, Lock!TypeOK, Lock!CounterGone
<1>10. CASE UNCHANGED Lock!vars
  BY <1>0, <1>10 DEF Lock!vars, Lock!TypeOK
<1>11. QED
  BY <1>1, <1>2, <1>3, <1>4, <1>5, <1>6, <1>7, <1>8, <1>9, <1>10 DEF Lock!Next, Lock!Login

\* The initial state satisfies the invariant.
LEMMA InitDates == ASSUME Lock!Init PROVE DatesInv
<1>1. dirty \in BOOLEAN /\ login \in [Request -> [pc : Lock!Pc, flag : BOOLEAN]]
  BY DEF Lock!Init, Lock!Idle, Lock!Pc
<1>2. Lock!TypeOK
  BY <1>1 DEF Lock!Init, Lock!TypeOK
<1>3. DatesAreNear /\ LocksAreNew /\ CounterFollowsLock /\ TTLIsComing
  BY DEF Lock!Init, DatesAreNear, LocksAreNew, Lock!Locked, CounterFollowsLock, TTLIsComing
<1>4. QED BY <1>2, <1>3 DEF DatesInv

\* The steps keep the dates in order.
LEMMA DatesStep == ASSUME DatesInv, [Lock!Next]_Lock!vars PROVE DatesInv'
<1>0. /\ Lock!TypeOK /\ Lock!TypeOK'
      /\ now \in Nat /\ count \in Nat /\ expiry \in Nat /\ lockedUntil \in Nat /\ deaths \in Nat
  BY LockTypes DEF DatesInv, Lock!TypeOK
<1>1. ASSUME NEW r \in Request, Lock!Read(r) PROVE DatesInv'
  <2>1. /\ login[r].pc = "idle" /\ ~Lock!Locked /\ login'[r].pc = "compare"
        /\ \A q \in Request \ {r} : login'[q] = login[q]
        /\ UNCHANGED <<now, count, expiry, lockedUntil, deaths>>
    BY <1>0, <1>1, ReadMoves DEF Lock!Read, Lock!history
  <2>2. DatesAreNear' /\ LocksAreNew' /\ CounterFollowsLock'
    BY <2>1 DEF DatesInv, DatesAreNear, LocksAreNew, CounterFollowsLock, Lock!Locked
  <2>3. TTLIsComing'
    BY <2>1 DEF DatesInv, TTLIsComing
  <2>4. QED BY <1>0, <2>2, <2>3 DEF DatesInv
<1>2. ASSUME NEW r \in Request, Lock!Wrong(r) PROVE DatesInv'
  <2>1. /\ login[r].pc = "compare" /\ (count = 0 => login'[r].pc = "expire")
        /\ \A q \in Request \ {r} : login'[q] = login[q]
        /\ count' = count + 1
        /\ UNCHANGED <<now, expiry, lockedUntil, deaths>>
    BY <1>0, <1>2, WrongMoves DEF Lock!Wrong, Lock!history
  <2>2. DatesAreNear' /\ LocksAreNew' /\ CounterFollowsLock'
    BY <2>1 DEF DatesInv, DatesAreNear, LocksAreNew, CounterFollowsLock, Lock!Locked, Lock!AllIdle
  <2>3. TTLIsComing'
    BY <1>0, <2>1 DEF DatesInv, TTLIsComing
  <2>4. QED BY <1>0, <2>2, <2>3 DEF DatesInv
<1>3. ASSUME NEW r \in Request, Lock!Expire(r) PROVE DatesInv'
  <2>1. /\ login[r].pc = "expire"
        /\ expiry' = (IF count > 0 THEN now + Window ELSE 0)
        /\ UNCHANGED <<now, count, lockedUntil, deaths>>
    BY <1>3 DEF Lock!Expire, Lock!history
  <2>2. ~Lock!AllIdle
    BY <2>1 DEF Lock!AllIdle
  <2>3. DatesAreNear' /\ LocksAreNew' /\ CounterFollowsLock'
    BY <1>0, <2>1, <2>2 DEF DatesInv, DatesAreNear, LocksAreNew, CounterFollowsLock, Lock!Locked
  <2>4. TTLIsComing'
    BY <1>0, <2>1 DEF TTLIsComing
  <2>5. QED BY <1>0, <2>3, <2>4 DEF DatesInv
<1>4. ASSUME NEW r \in Request, Lock!Record(r) PROVE DatesInv'
  <2>1. /\ login[r].pc = "record"
        /\ \A q \in Request \ {r} : login'[q] = login[q]
        /\ UNCHANGED <<now, count, expiry, deaths>>
    BY <1>0, <1>4, LoginFinishes DEF Lock!Record, Lock!history
  <2>2. lockedUntil' \in {lockedUntil, now + Window}
    BY <1>4 DEF Lock!Record
  <2>3. ~Lock!AllIdle /\ Window \in Nat
    BY <2>1 DEF Lock!AllIdle
  <2>4. DatesAreNear' /\ LocksAreNew'
    BY <1>0, <2>1, <2>2, <2>3 DEF DatesInv, DatesAreNear, LocksAreNew, Lock!Locked
  <2>5. CounterFollowsLock'
    <3>1. CASE lockedUntil' = lockedUntil
      BY <2>1, <3>1 DEF DatesInv, CounterFollowsLock, Lock!Locked
    <3>2. CASE lockedUntil' = now + Window
      <4>1. Lock!Locked'
        BY <1>0, <2>1, <3>2 DEF Lock!Locked
      <4>2. expiry' # 0 => expiry' <= lockedUntil'
        BY <2>1, <3>2 DEF DatesInv, DatesAreNear
      <4>3. QED BY <4>1, <4>2 DEF CounterFollowsLock
    <3>3. QED BY <2>2, <3>1, <3>2
  <2>6. TTLIsComing'
    BY <2>1 DEF DatesInv, TTLIsComing
  <2>7. QED BY <1>0, <2>4, <2>5, <2>6 DEF DatesInv
<1>5. ASSUME NEW r \in Request, Lock!Right(r) PROVE DatesInv'
  <2>1. /\ login[r].pc = "compare" /\ count' = 0 /\ expiry' = 0
        /\ UNCHANGED <<now, lockedUntil>>
    BY <1>5 DEF Lock!Right, Lock!CounterGone
  <2>2. DatesAreNear' /\ LocksAreNew' /\ CounterFollowsLock' /\ TTLIsComing'
    BY <1>0, <2>1
    DEF DatesInv, DatesAreNear, LocksAreNew, CounterFollowsLock, TTLIsComing,
        Lock!Locked, Lock!AllIdle
  <2>3. QED BY <1>0, <2>2 DEF DatesInv
<1>6. ASSUME NEW r \in Request, Lock!Clear(r) PROVE DatesInv'
  <2>1. /\ login[r].pc = "clear" /\ lockedUntil' = 0
        /\ \A q \in Request \ {r} : login'[q] = login[q]
        /\ UNCHANGED <<now, count, expiry, deaths>>
    BY <1>0, <1>6, LoginFinishes DEF Lock!Clear, Lock!Unlock
  <2>2. DatesAreNear' /\ LocksAreNew' /\ CounterFollowsLock' /\ TTLIsComing'
    BY <1>0, <2>1
    DEF DatesInv, DatesAreNear, LocksAreNew, CounterFollowsLock, TTLIsComing, Lock!Locked
  <2>3. QED BY <1>0, <2>2 DEF DatesInv
<1>7. ASSUME NEW r \in Request, Lock!Crash(r) PROVE DatesInv'
  <2>1. /\ login[r].pc # "idle" /\ UNCHANGED <<now, count, expiry, lockedUntil>>
        /\ deaths' = (IF count > 0 THEN deaths + 1 ELSE deaths)
    BY <1>7 DEF Lock!Crash
  <2>2. DatesAreNear' /\ LocksAreNew' /\ CounterFollowsLock' /\ TTLIsComing'
    BY <1>0, <2>1
    DEF DatesInv, DatesAreNear, LocksAreNew, CounterFollowsLock, TTLIsComing,
        Lock!Locked, Lock!AllIdle
  <2>3. QED BY <1>0, <2>2 DEF DatesInv
<1>8. CASE Lock!ResetPassword
  <2>1. lockedUntil' = 0 /\ UNCHANGED <<now, count, expiry, login, deaths>>
    BY <1>8 DEF Lock!ResetPassword, Lock!Unlock
  <2>2. DatesAreNear' /\ LocksAreNew' /\ CounterFollowsLock' /\ TTLIsComing'
    BY <1>0, <2>1
    DEF DatesInv, DatesAreNear, LocksAreNew, CounterFollowsLock, TTLIsComing, Lock!Locked
  <2>3. QED BY <1>0, <2>2 DEF DatesInv
<1>9. CASE Lock!Tick
  <2>1. /\ Lock!AllIdle /\ Lock!AllIdle' /\ now' = now + 1 /\ UNCHANGED <<lockedUntil, login>>
        /\ \/ expiry' = 0 /\ count' = 0
           \/ (expiry = 0 \/ expiry > now + 1) /\ UNCHANGED <<count, expiry, deaths>>
    BY <1>0, <1>9 DEF Lock!Tick, Lock!AllIdle, Lock!CounterGone
  <2>2. DatesAreNear'
    BY <1>0, <2>1 DEF DatesInv, DatesAreNear
  <2>3. LocksAreNew'
    BY <2>1 DEF LocksAreNew
  <2>4. CounterFollowsLock'
    BY <1>0, <2>1 DEF DatesInv, DatesAreNear, CounterFollowsLock, Lock!Locked
  <2>5. TTLIsComing'
    BY <1>0, <2>1 DEF DatesInv, TTLIsComing
  <2>6. QED BY <1>0, <2>2, <2>3, <2>4, <2>5 DEF DatesInv
<1>10. CASE UNCHANGED Lock!vars
  BY <1>0, <1>10 DEF Lock!vars, DatesInv, DatesAreNear, LocksAreNew, CounterFollowsLock,
                     TTLIsComing, Lock!Locked, Lock!AllIdle
<1>11. QED
  BY <1>1, <1>2, <1>3, <1>4, <1>5, <1>6, <1>7, <1>8, <1>9, <1>10 DEF Lock!Next, Lock!Login

LEMMA DatesAlways == Lock!Spec => []DatesInv
  BY InitDates, DatesStep, PTL DEF Lock!Spec

LEMMA LockStep == [MCNext]_<<vars, seats, lock, part, alone>> => [Lock!Next]_Lock!vars
  BY DEF MCNext, lock, Lock!vars

LEMMA LockSpec == MCSpec => Lock!Spec
<1>1. MCInit => Lock!Init
  BY DEF MCInit
<1>2. QED BY <1>1, LockStep, PTL DEF MCSpec, Lock!Spec

\* When a lock has run out so has the counter behind it, and only a death leaves
\* a counter without TTL (login, AuthRateLimitService).
THEOREM FreshTheorem == MCSpec => []FreshAfterLock
<1>1. DatesInv => FreshAfterLock
  <2> SUFFICES ASSUME DatesInv, Lock!AllIdle
               PROVE  /\ lockedUntil # 0 /\ lockedUntil <= now /\ expiry # 0
                            => expiry >= lockedUntil + Window
                      /\ count > 0 /\ deaths = 0 => expiry # 0
    BY DEF FreshAfterLock, Lock!FreshAfterLock
  <2>1. lockedUntil \in Nat /\ now \in Nat
    BY DEF DatesInv, Lock!TypeOK
  <2>2. lockedUntil <= now => ~Lock!Locked
    BY <2>1 DEF Lock!Locked
  <2>3. QED BY <2>2 DEF DatesInv, CounterFollowsLock, TTLIsComing, Lock!AllIdle
<1>2. QED BY <1>1, DatesAlways, LockSpec, PTL

-----------------------------------------------------------------------------
(* How far the counter overshoots.                                         *)

\* Who may still increment the counter, and who is about to write the lock.
Comparing == {r \in Request : login[r].pc = "compare"}
Locking == {r \in Request : login[r].pc = "record" /\ login[r].flag}

\* The limit, with what the locks that ended and the deaths have added to it.
Allowance(ended, died) == Limit + Cardinality(Request) * ended + died

CountIsBounded ==
    IF Lock!Locked
    THEN count + Cardinality(Comparing) <= Allowance(lifts, deaths) + Cardinality(Request)
    ELSE count <= Allowance(lifts, deaths) + Cardinality(Locking)

\* No request is in both sets.
LEMMA LoginSlots ==
    /\ IsFiniteSet(Comparing) /\ IsFiniteSet(Locking)
    /\ Cardinality(Comparing) \in Nat /\ Cardinality(Locking) \in Nat
    /\ Cardinality(Request) \in Nat
    /\ Cardinality(Comparing) + Cardinality(Locking) <= Cardinality(Request)
<1>1. Comparing \subseteq Request /\ Locking \subseteq Request /\ Comparing \cap Locking = {}
  BY DEF Comparing, Locking
<1>2. /\ IsFiniteSet(Request) /\ IsFiniteSet(Comparing) /\ IsFiniteSet(Locking)
      /\ IsFiniteSet(Comparing \cup Locking)
      /\ Cardinality(Comparing \cup Locking) <= Cardinality(Request)
  BY <1>1, FS_Subset
<1>3. Cardinality(Comparing \cup Locking)
        = Cardinality(Comparing) + Cardinality(Locking) - Cardinality({})
  BY <1>1, <1>2, FS_Union
<1>4. Cardinality({}) = 0
  BY FS_EmptySet
<1>5. /\ Cardinality(Comparing) \in Nat /\ Cardinality(Locking) \in Nat
      /\ Cardinality(Request) \in Nat
  BY <1>2, FS_CardinalityType
<1>6. QED BY <1>2, <1>3, <1>4, <1>5

\* One more lock that has ended adds one increment per request.
LEMMA AllowanceOf ==
    ASSUME NEW l \in Nat, NEW d \in Nat
    PROVE  /\ Allowance(l, d) \in Nat /\ Limit <= Allowance(l, d)
           /\ Allowance(l + 1, d) = Allowance(l, d) + Cardinality(Request)
           /\ Allowance(l, d + 1) = Allowance(l, d) + 1
<1>1. Cardinality(Request) \in Nat
  BY LoginSlots
<1>2. \A n \in Nat : n * l \in Nat /\ n * (l + 1) = n * l + n
  OBVIOUS
<1>3. QED BY <1>1, <1>2 DEF Allowance

\* The bound that the invariant implies.
LEMMA OvershootFollows == ASSUME Lock!TypeOK, CountIsBounded PROVE Lock!OvershootIsBounded
<1>1. count \in Nat /\ lifts \in Nat /\ deaths \in Nat
  BY DEF Lock!TypeOK
<1>2. Allowance(lifts + 1, deaths) = Allowance(lifts, deaths) + Cardinality(Request)
      /\ Allowance(lifts, deaths) \in Nat
  BY <1>1, AllowanceOf
<1>3. count <= Allowance(lifts + 1, deaths)
  BY <1>1, <1>2, LoginSlots DEF CountIsBounded
<1>4. Lock!Cardinality(Request) = Cardinality(Request)
  BY Zenon DEF Lock!Cardinality, Cardinality, Lock!IsFiniteSet, IsFiniteSet
<1>5. QED BY <1>3, <1>4 DEF Allowance, Lock!OvershootIsBounded

\* A request that stops comparing and recording leaves the sets.
LEMMA SlotLeaves ==
    ASSUME NEW r \in Request, login'[r].pc \notin {"compare", "record"},
           \A q \in Request \ {r} : login'[q] = login[q]
    PROVE  /\ Cardinality(Comparing') \in Nat /\ Cardinality(Locking') \in Nat
           /\ Cardinality(Comparing') <= Cardinality(Comparing)
           /\ Cardinality(Locking') >= Cardinality(Locking) - 1
           /\ r \notin Locking => Cardinality(Locking') = Cardinality(Locking)
<1>1. Comparing' = Comparing \ {r} /\ Locking' = Locking \ {r}
  BY DEF Comparing, Locking
<1>2. /\ IsFiniteSet(Comparing) /\ IsFiniteSet(Locking)
      /\ Cardinality(Comparing) \in Nat /\ Cardinality(Locking) \in Nat
  BY LoginSlots
<1>3. /\ IsFiniteSet(Comparing \ {r}) /\ IsFiniteSet(Locking \ {r})
      /\ Cardinality(Comparing \ {r})
           = IF r \in Comparing THEN Cardinality(Comparing) - 1 ELSE Cardinality(Comparing)
      /\ Cardinality(Locking \ {r})
           = IF r \in Locking THEN Cardinality(Locking) - 1 ELSE Cardinality(Locking)
  BY <1>2, FS_RemoveElement
<1>4. Cardinality(Comparing \ {r}) \in Nat /\ Cardinality(Locking \ {r}) \in Nat
  BY <1>3, FS_CardinalityType
<1>5. QED BY <1>1, <1>2, <1>3, <1>4

\* A failed comparison beyond the limit is paid for.
LEMMA WrongCounts ==
    ASSUME Lock!TypeOK, CountIsBounded, NEW r \in Request, Lock!Wrong(r)
    PROVE  CountIsBounded'
<1>1. /\ count \in Nat /\ lifts \in Nat /\ deaths \in Nat /\ Limit \in Nat \ {0}
      /\ Allowance(lifts, deaths) \in Nat /\ Limit <= Allowance(lifts, deaths)
  BY AllowanceOf DEF Lock!TypeOK
<1>2. /\ login[r].pc = "compare" /\ count' = count + 1 /\ lifts' = lifts /\ deaths' = deaths
      /\ Lock!Locked' = Lock!Locked
  BY DEF Lock!Wrong, Lock!history, Lock!Locked
<1>3. /\ login'[r].pc # "compare"
      /\ count + 1 > Limit => login'[r].pc = "record" /\ login'[r].flag
      /\ \A q \in Request \ {r} : login'[q] = login[q]
  BY <1>1, WrongMoves
<1>4. /\ Comparing' = Comparing \ {r} /\ r \in Comparing /\ r \notin Locking
      /\ Locking' \in {Locking, Locking \cup {r}}
      /\ count + 1 > Limit => Locking' = Locking \cup {r}
  BY <1>2, <1>3 DEF Comparing, Locking
<1>5. /\ IsFiniteSet(Comparing) /\ IsFiniteSet(Locking)
      /\ Cardinality(Comparing) \in Nat /\ Cardinality(Locking) \in Nat
      /\ Cardinality(Request) \in Nat
  BY LoginSlots
<1>6. /\ Cardinality(Comparing \ {r}) = Cardinality(Comparing) - 1
      /\ Cardinality(Locking \cup {r}) = Cardinality(Locking) + 1
  BY <1>4, <1>5, FS_RemoveElement, FS_AddElement
<1>7. CASE Lock!Locked
  BY <1>1, <1>2, <1>4, <1>5, <1>6, <1>7 DEF CountIsBounded
<1>8. CASE ~Lock!Locked
  <2>1. Cardinality(Locking') \in Nat
    <3>1. CASE Locking' = Locking
      BY <1>5, <3>1
    <3>2. CASE Locking' = Locking \cup {r}
      BY <1>5, <1>6, <3>2
    <3>3. QED BY <1>4, <3>1, <3>2
  <2>2. count + 1 > Limit => Cardinality(Locking') = Cardinality(Locking) + 1
    BY <1>4, <1>6
  <2>3. count' <= Allowance(lifts, deaths) + Cardinality(Locking')
    BY <1>1, <1>2, <1>5, <1>8, <2>1, <2>2 DEF CountIsBounded
  <2>4. QED BY <1>2, <1>8, <2>3 DEF CountIsBounded
<1>9. QED BY <1>7, <1>8

\* The other steps keep the bound.
LEMMA CountStep == ASSUME DatesInv, CountIsBounded, [Lock!Next]_Lock!vars PROVE CountIsBounded'
<1>0. /\ Lock!TypeOK /\ count \in Nat /\ lifts \in Nat /\ deaths \in Nat /\ now \in Nat
      /\ Cardinality(Comparing) \in Nat /\ Cardinality(Locking) \in Nat
      /\ Cardinality(Request) \in Nat
      /\ Cardinality(Comparing) + Cardinality(Locking) <= Cardinality(Request)
      /\ Allowance(lifts, deaths) \in Nat
      /\ Allowance(lifts + 1, deaths) = Allowance(lifts, deaths) + Cardinality(Request)
      /\ Allowance(lifts, deaths + 1) = Allowance(lifts, deaths) + 1
  <2>1. /\ Lock!TypeOK /\ count \in Nat /\ lifts \in Nat /\ deaths \in Nat /\ now \in Nat
    BY DEF DatesInv, Lock!TypeOK
  <2>2. QED BY <2>1, LoginSlots, AllowanceOf
<1>1. ASSUME NEW r \in Request, Lock!Read(r) PROVE CountIsBounded'
  <2>1. /\ login[r].pc = "idle" /\ login'[r].pc = "compare" /\ ~Lock!Locked /\ ~Lock!Locked'
        /\ \A q \in Request \ {r} : login'[q] = login[q]
        /\ UNCHANGED <<count, lifts, deaths>>
    BY <1>0, <1>1, ReadMoves DEF Lock!Read, Lock!history, Lock!Locked
  <2>2. Locking' = Locking
    BY <2>1 DEF Locking
  <2>3. QED BY <2>1, <2>2 DEF CountIsBounded
<1>2. ASSUME NEW r \in Request, Lock!Expire(r) PROVE CountIsBounded'
  <2>1. /\ login[r].pc = "expire" /\ login'[r].pc = "record" /\ ~login'[r].flag
        /\ \A q \in Request \ {r} : login'[q] = login[q]
        /\ Lock!Locked' = Lock!Locked /\ UNCHANGED <<count, lifts, deaths>>
    BY <1>0, <1>2, ExpireMoves DEF Lock!Expire, Lock!history, Lock!Locked
  <2>2. Comparing' = Comparing /\ Locking' = Locking
    BY <2>1 DEF Comparing, Locking
  <2>3. QED BY <2>1, <2>2 DEF CountIsBounded
<1>3. ASSUME NEW r \in Request, Lock!Record(r) PROVE CountIsBounded'
  <2>1. /\ login[r].pc = "record" /\ login'[r].pc = "idle"
        /\ \A q \in Request \ {r} : login'[q] = login[q]
        /\ lockedUntil' = (IF login[r].flag THEN now + Window ELSE lockedUntil)
        /\ UNCHANGED <<now, count, lifts, deaths>>
    BY <1>0, <1>3, LoginFinishes DEF Lock!Record, Lock!history
  <2>2. /\ Cardinality(Comparing') \in Nat /\ Cardinality(Locking') \in Nat
        /\ Cardinality(Comparing') <= Cardinality(Comparing)
        /\ r \notin Locking => Cardinality(Locking') = Cardinality(Locking)
    BY <2>1, SlotLeaves
  <2>3. CASE login[r].flag
    <3>1. Lock!Locked'
      BY <1>0, <2>1, <2>3 DEF Lock!Locked
    <3>2. QED BY <1>0, <2>1, <2>2, <3>1 DEF CountIsBounded
  <2>4. CASE ~login[r].flag
    <3>1. Lock!Locked' = Lock!Locked /\ r \notin Locking
      BY <2>1, <2>4 DEF Lock!Locked, Locking
    <3>2. QED BY <1>0, <2>1, <2>2, <3>1 DEF CountIsBounded
  <2>5. QED BY <2>3, <2>4
<1>4. ASSUME NEW r \in Request, Lock!Right(r) PROVE CountIsBounded'
  <2>1. /\ login'[r].pc \notin {"compare", "record"}
        /\ \A q \in Request \ {r} : login'[q] = login[q]
        /\ count' = 0 /\ lifts' = 0 /\ deaths' = 0
    BY <1>0, <1>4, RightMoves DEF Lock!Right, Lock!CounterGone
  <2>2. /\ Cardinality(Comparing') \in Nat /\ Cardinality(Locking') \in Nat
        /\ Cardinality(Comparing') <= Cardinality(Comparing)
    BY <2>1, SlotLeaves
  <2>3. Allowance(0, 0) \in Nat
    BY AllowanceOf
  <2>4. QED BY <1>0, <2>1, <2>2, <2>3 DEF CountIsBounded
<1>5. ASSUME NEW r \in Request, Lock!Clear(r) PROVE CountIsBounded'
  <2>1. /\ login[r].pc = "clear" /\ login'[r].pc = "idle"
        /\ \A q \in Request \ {r} : login'[q] = login[q]
        /\ ~Lock!Locked' /\ lifts' = (IF Lock!Locked THEN lifts + 1 ELSE lifts)
        /\ UNCHANGED <<count, deaths>>
    BY <1>0, <1>5, LoginFinishes DEF Lock!Clear, Lock!Unlock, Lock!Locked
  <2>2. Cardinality(Locking') = Cardinality(Locking)
    BY <2>1, SlotLeaves DEF Locking
  <2>3. QED BY <1>0, <2>1, <2>2 DEF CountIsBounded
<1>6. ASSUME NEW r \in Request, Lock!Crash(r) PROVE CountIsBounded'
  <2>1. /\ login'[r].pc = "idle" /\ \A q \in Request \ {r} : login'[q] = login[q]
        /\ deaths' = (IF count > 0 THEN deaths + 1 ELSE deaths)
        /\ Lock!Locked' = Lock!Locked /\ UNCHANGED <<count, lifts>>
    BY <1>0, <1>6, LoginFinishes DEF Lock!Crash, Lock!Locked
  <2>2. /\ Cardinality(Comparing') \in Nat /\ Cardinality(Locking') \in Nat
        /\ Cardinality(Comparing') <= Cardinality(Comparing)
        /\ Cardinality(Locking') >= Cardinality(Locking) - 1
    BY <2>1, SlotLeaves
  <2>3. QED BY <1>0, <2>1, <2>2 DEF CountIsBounded
<1>7. CASE Lock!ResetPassword
  <2>1. /\ ~Lock!Locked' /\ lifts' = (IF Lock!Locked THEN lifts + 1 ELSE lifts)
        /\ Locking' = Locking /\ UNCHANGED <<count, deaths>>
    BY <1>0, <1>7 DEF Lock!ResetPassword, Lock!Unlock, Lock!Locked, Locking
  <2>2. QED BY <1>0, <2>1 DEF CountIsBounded
<1>8. CASE Lock!Tick
  <2>1. /\ Comparing' = Comparing /\ Locking' = Locking /\ lockedUntil' = lockedUntil
        /\ now' = now + 1
        /\ \/ count' = 0 /\ lifts' = 0 /\ deaths' = 0
           \/ /\ lifts' = (IF Lock!Locked /\ lockedUntil <= now + 1 THEN lifts + 1 ELSE lifts)
              /\ UNCHANGED <<count, deaths>>
    BY <1>8 DEF Lock!Tick, Lock!CounterGone, Comparing, Locking
  <2>2. lockedUntil \in Nat
    BY <1>0 DEF Lock!TypeOK
  <2>3. CASE count' = 0 /\ lifts' = 0 /\ deaths' = 0
    <3>1. Allowance(0, 0) \in Nat
      BY AllowanceOf
    <3>2. QED BY <1>0, <2>1, <2>3, <3>1 DEF CountIsBounded
  <2>4. CASE /\ lifts' = (IF Lock!Locked /\ lockedUntil <= now + 1 THEN lifts + 1 ELSE lifts)
             /\ UNCHANGED <<count, deaths>>
    <3>1. CASE Lock!Locked /\ lockedUntil <= now + 1
      <4>1. ~Lock!Locked'
        BY <1>0, <2>1, <2>2, <3>1 DEF Lock!Locked
      <4>2. QED BY <1>0, <2>1, <2>4, <3>1, <4>1 DEF CountIsBounded
    <3>2. CASE ~(Lock!Locked /\ lockedUntil <= now + 1)
      <4>1. Lock!Locked' <=> Lock!Locked
        BY <1>0, <2>1, <2>2, <3>2 DEF Lock!Locked
      <4>2. QED BY <1>0, <2>1, <2>4, <3>2, <4>1 DEF CountIsBounded
    <3>3. QED BY <3>1, <3>2
  <2>5. QED BY <2>1, <2>3, <2>4
<1>9. CASE UNCHANGED Lock!vars
  BY <1>9 DEF Lock!vars, Lock!history, CountIsBounded, Lock!Locked, Comparing, Locking
<1>10. ASSUME NEW r \in Request, Lock!Wrong(r) PROVE CountIsBounded'
  BY <1>0, <1>10, WrongCounts
<1>11. QED
  BY <1>1, <1>2, <1>3, <1>4, <1>5, <1>6, <1>7, <1>8, <1>9, <1>10 DEF Lock!Next, Lock!Login

\* Failed logins overshoot the limit by no more than the requests in flight,
\* once more per lock that ended, and the deaths (login, recordFailedLogin).
THEOREM OvershootTheorem == MCSpec => []OvershootIsBounded
<1>1. Lock!Init => CountIsBounded
  BY LoginSlots, AllowanceOf DEF Lock!Init, CountIsBounded, Lock!Locked
<1>2. DatesInv /\ CountIsBounded => OvershootIsBounded
  BY OvershootFollows DEF DatesInv, OvershootIsBounded
<1>3. Lock!Spec => [](DatesInv /\ CountIsBounded)
  BY <1>1, CountStep, DatesAlways, PTL DEF Lock!Spec
<1>4. QED BY <1>2, <1>3, LockSpec, PTL
=============================================================================
