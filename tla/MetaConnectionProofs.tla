------------------------ MODULE MetaConnectionProofs -------------------------
(***************************************************************************)
(* Proofs about the connections to Meta, for any number of users,          *)
(* workspaces, Meta users, OAuth states and requests in flight.            *)
(***************************************************************************)
EXTENDS MCMetaConnection, TLAPS

-----------------------------------------------------------------------------
(* The inductive invariant.                                                *)

\* The steps of a handler at which it knows its workspace, a row that exists,
\* or the row that it is about to write.
OnWorkspace == {"del", "exchange", "profile"}
OnOldRow == {"rotRead", "rotMeta", "rotWrite", "disRead", "disMeta", "disWrite"}
OnRow == OnOldRow \cup {"connect"}

\* The state of a handler, as TypeOK has it.
Handler == [pc : Pc, st : State \cup {None}, ws : Workspace \cup {None},
            match : BOOLEAN, row : Row \cup {None}, tok : Token]

\* What a handler carries from one step to the next.
HandlerOK(q) ==
    /\ q.pc = "del" => q.st \in State
    /\ q.pc \in OnWorkspace => q.ws \in Workspace
    /\ q.pc \in OnRow => q.row \in Row
    /\ q.pc \in OnOldRow => conn[q.row].status # None
    /\ q.tok \in 0..Len(owner)
    /\ q.pc \in OnRow /\ q.tok # 0 => owner[q.tok] = q.row[2]

IInv ==
    /\ TypeOK
    /\ created \in Seq(Row)
    /\ \A x \in Row : conn[x].tok \in 0..Len(owner)
    /\ \A r \in Request : HandlerOK(req[r])

\* A sequence that grows by one element ranges over one more.
LEMMA RangeAppend ==
    ASSUME NEW S, NEW s \in Seq(S), NEW x \in S
    PROVE  Range(Append(s, x)) = Range(s) \cup {x}
<1>1. /\ DOMAIN s = 1..Len(s)
      /\ DOMAIN Append(s, x) = 1..(Len(s) + 1)
      /\ \A i \in 1..Len(s) : Append(s, x)[i] = s[i]
      /\ Append(s, x)[Len(s) + 1] = x
      /\ Len(s) \in Nat
  OBVIOUS
<1>2. QED BY <1>1 DEF Range

\* The invariant holds initially: nothing exists and no request is in flight.
LEMMA IInvInit == Init => IInv
<1> SUFFICES ASSUME Init PROVE IInv
  OBVIOUS
<1>1. owner = <<>> /\ created = <<>> /\ Len(owner) = 0 /\ DOMAIN owner = {}
  BY DEF Init
<1>2. Range(created) = {}
  BY <1>1 DEF Range
<1>3. TypeOK
  BY <1>1, <1>2, NumbersAssumption, NoneAssumption
     DEF Init, TypeOK, Token, NoRow, Idle, Pc
<1>4. \A r \in Request : HandlerOK(req[r])
  BY <1>1 DEF Init, HandlerOK, Idle, OnWorkspace, OnRow, OnOldRow
<1>5. QED
  BY <1>1, <1>3, <1>4 DEF IInv, Init, NoRow

\* What is typed stays typed while the tables of Meta and of the application
\* stand still and one handler moves on.
LEMMA HandlerMoves ==
    ASSUME IInv, UNCHANGED <<conn, created, owner>>, NEW r \in Request, NEW q,
           live' \subseteq live,
           state' \in [State -> Payload \cup {Fresh, Spent}],
           req' = [req EXCEPT ![r] = q],
           q \in Handler,
           HandlerOK(q)
    PROVE  IInv'
<1>1. \A p \in Request : req'[p] = IF p = r THEN q ELSE req[p]
  BY DEF IInv, TypeOK
<1>2. TypeOK'
  BY DEF IInv, TypeOK, Row, Handler
<1>3. \A p \in Request : HandlerOK(req[p])'
  BY <1>1 DEF IInv, HandlerOK, Row
<1>4. QED BY <1>2, <1>3 DEF IInv, Row

\* A request that arrives carries well-formed data, and so does one that ends.
LEMMA HandlerStarts ==
    ASSUME IInv, UNCHANGED <<state, table, meta>>, NEW r \in Request,
           \/ \E u \in User, w \in Workspace \cup {None}, s \in State : Callback(r, u, w, s)
           \/ \E x \in Row : Rotate(r, x) \/ Disconnect(r, x)
           \/ Finish(r)
    PROVE  IInv'
<1> USE DEF table, meta
<1>0. UNCHANGED <<state, conn, created, owner, live>> /\ 0 \in 0..Len(owner) /\ 0 \in Token
  BY NumbersAssumption DEF IInv, TypeOK, Token
<1>1. ASSUME NEW u \in User, NEW w \in Workspace \cup {None}, NEW s \in State, Callback(r, u, w, s)
      PROVE  IInv'
  <2>1. state[s].ws \in Workspace
    BY <1>1 DEF Callback, Payload
  <2> DEFINE q == [Idle EXCEPT !.pc = "del", !.st = s, !.ws = state[s].ws,
                               !.match = state[s].user = u /\ w \in {None, state[s].ws}]
  <2>2. req' = [req EXCEPT ![r] = q]
    BY <1>1 DEF Callback, Start
  <2>3. q \in Handler
    BY <1>0, <2>1 DEF Handler, Idle, Pc
  <2>4. HandlerOK(q)
    BY <1>0, <2>1 DEF HandlerOK, Idle, OnWorkspace, OnRow, OnOldRow
  <2> HIDE DEF q
  <2>5. QED BY <1>0, <2>2, <2>3, <2>4, HandlerMoves DEF IInv, TypeOK
<1>2. ASSUME NEW x \in Row, conn[x].status # None, NEW pc \in {"rotRead", "disRead"},
             req' = [req EXCEPT ![r] = [Idle EXCEPT !.pc = pc, !.row = x]]
      PROVE  IInv'
  <2> DEFINE q == [Idle EXCEPT !.pc = pc, !.row = x]
  <2>1. q \in Handler
    BY <1>0 DEF Handler, Idle, Pc
  <2>2. HandlerOK(q)
    BY <1>0, <1>2 DEF HandlerOK, Idle, OnWorkspace, OnRow, OnOldRow
  <2> HIDE DEF q
  <2>3. QED BY <1>0, <1>2, <2>1, <2>2, HandlerMoves DEF IInv, TypeOK, q
<1>3. CASE Finish(r)
  <2>1. Idle \in Handler
    BY <1>0 DEF Handler, Idle, Pc
  <2>2. HandlerOK(Idle)
    BY <1>0 DEF HandlerOK, Idle, OnWorkspace, OnRow, OnOldRow
  <2>3. QED BY <1>0, <1>3, <2>1, <2>2, HandlerMoves DEF IInv, TypeOK, Finish
<1>4. ASSUME NEW x \in Row, Surfaced(x) PROVE conn[x].status # None
  BY <1>4, NoneAssumption DEF Surfaced, Active
<1>5. QED BY <1>1, <1>2, <1>3, <1>4 DEF Rotate, Disconnect, Start

\* A new token of Meta takes nothing away from the older ones.
LEMMA IssueStep ==
    ASSUME IInv, NEW r \in Request, NEW m \in MetaUser, NEW pc \in {"profile", "rotWrite"},
           Issue(r, m, pc), UNCHANGED <<state, conn, created>>,
           pc = "profile" => req[r].ws \in Workspace,
           pc = "rotWrite" => /\ req[r].row \in Row /\ req[r].row[2] = m
                              /\ conn[req[r].row].status # None
    PROVE  IInv'
<1> DEFINE t == Len(owner) + 1
           q == [[req[r] EXCEPT !.pc = pc] EXCEPT !.tok = t]
<1>1. /\ owner \in Seq(MetaUser) /\ Len(owner) \in Nat /\ Len(owner) < MaxToken
      /\ owner' = Append(owner, m) /\ live' = live \cup {t}
  BY DEF Issue, IInv, TypeOK
<1>2. /\ owner' \in Seq(MetaUser) /\ Len(owner') = t /\ DOMAIN owner' = 1..t
      /\ DOMAIN owner = 1..Len(owner)
      /\ \A i \in 1..Len(owner) : owner'[i] = owner[i]
      /\ owner'[t] = m
  BY <1>1
<1>3. t \in Token /\ t \in 1..MaxToken
  BY <1>1, NumbersAssumption DEF Token
<1>4. req \in [Request -> Handler]
  BY DEF IInv, TypeOK, Handler
<1>5. /\ q \in Handler
      /\ q.pc = pc /\ q.tok = t /\ q.ws = req[r].ws /\ q.row = req[r].row
  <2>1. pc \in Pc /\ req[r] \in Handler
    BY <1>4 DEF Pc
  <2>2. QED BY <1>3, <2>1 DEF Handler
<1>6. req' \in [Request -> Handler]
      /\ \A p \in Request : req'[p] = IF p = r THEN q ELSE req[p]
  <2>1. req' = [req EXCEPT ![r].pc = pc, ![r].tok = t]
    BY DEF Issue
  <2>2. req' = [req EXCEPT ![r] = q]
    BY <1>4, <2>1
  <2> HIDE DEF q
  <2>3. QED BY <1>4, <1>5, <2>2
<1> HIDE DEF q
<1>7. ASSUME NEW n \in 0..Len(owner), n # 0 PROVE n \in 1..Len(owner) /\ n \in 0..t
  BY <1>1, <1>7
<1>8. \A x \in Row : conn[x].tok \in 0..t /\ (conn[x].tok # 0 => owner'[conn[x].tok] = x[2])
  BY <1>1, <1>2, <1>7 DEF IInv, TypeOK
<1>9. \A p \in Request : HandlerOK(req[p])'
  <2> SUFFICES ASSUME NEW p \in Request PROVE HandlerOK(req[p])'
    OBVIOUS
  <2>1. CASE p = r
    <3>1. req'[r] = q /\ 0 \in 0..t /\ t \in 0..t
      BY <1>1, <1>6
    <3>2. QED BY <2>1, <3>1, <1>2, <1>5 DEF HandlerOK, OnWorkspace, OnRow, OnOldRow
  <2>2. CASE p # r
    <3>1. HandlerOK(req[p]) /\ req'[p] = req[p]
      BY <2>2, <1>6 DEF IInv
    <3>2. QED BY <3>1, <1>1, <1>2, <1>7 DEF HandlerOK
  <2>3. QED BY <2>1, <2>2
<1>10. TypeOK'
  BY <1>1, <1>2, <1>3, <1>6, <1>8 DEF IInv, TypeOK, Handler
<1>11. QED BY <1>2, <1>8, <1>9, <1>10 DEF IInv

\* A handler that ends with the write of a row.
LEMMA RowStep ==
    ASSUME IInv, UNCHANGED <<state, owner, live>>, NEW r \in Request, Finish(r),
           NEW x \in Row, NEW c \in [status : {"ACTIVE", "REVOKED"}, tok : 0..Len(owner)],
           c.tok # 0 => owner[c.tok] = x[2],
           conn' = [conn EXCEPT ![x] = c],
           created' \in Seq(Row),
           Range(created') = Range(created) \cup {x}
    PROVE  IInv'
<1>0. 0 \in 0..Len(owner) /\ c.tok \in Token /\ 0 \in Token /\ Len(owner) \in Nat
  BY NumbersAssumption DEF IInv, TypeOK, Token
<1>1. \A p \in Request : req'[p] = IF p = r THEN Idle ELSE req[p]
  BY DEF IInv, TypeOK, Finish
<1>2. conn' \in [Row -> [status : {"ACTIVE", "REVOKED", None}, tok : Token]]
      /\ \A y \in Row : conn'[y] = IF y = x THEN c ELSE conn[y]
  BY <1>0 DEF IInv, TypeOK
<1>3. \A y \in Row : conn'[y].status # None <=> y \in Range(created')
  BY <1>2, NoneAssumption DEF IInv, TypeOK
<1>4. \A y \in Row : /\ conn'[y].tok \in 0..Len(owner)
                     /\ conn'[y].tok # 0 => owner[conn'[y].tok] = y[2]
  BY <1>2 DEF IInv, TypeOK
<1>5. req' \in [Request -> Handler]
  BY <1>0 DEF IInv, TypeOK, Finish, Handler, Idle, Pc
<1>6. TypeOK'
  BY <1>2, <1>3, <1>4, <1>5 DEF IInv, TypeOK, Handler
<1>7. \A p \in Request : HandlerOK(req[p])'
  <2> SUFFICES ASSUME NEW p \in Request PROVE HandlerOK(req[p])'
    OBVIOUS
  <2>1. CASE p = r
    BY <2>1, <1>0, <1>1 DEF HandlerOK, Idle, OnWorkspace, OnRow, OnOldRow
  <2>2. CASE p # r
    <3>1. HandlerOK(req[p]) /\ req'[p] = req[p]
      BY <2>2, <1>1 DEF IInv
    <3>2. req[p].pc \in OnOldRow => conn'[req[p].row].status # None
      BY <3>1, <1>2, NoneAssumption DEF HandlerOK, OnRow
    <3>3. QED BY <3>1, <3>2 DEF HandlerOK
  <2>3. QED BY <2>1, <2>2
<1>8. QED BY <1>4, <1>6, <1>7 DEF IInv

\* Every step of a handler keeps the invariant.
LEMMA HandlerStep == ASSUME IInv, NEW r \in Request, Step(r) PROVE IInv'
<1> USE DEF table, meta
<1>0. req \in [Request -> Handler] /\ HandlerOK(req[r])
  BY DEF IInv, TypeOK, Handler
<1>1. CASE DeleteState(r)
  <2>1. CASE req[r].match
    <3> DEFINE q == [req[r] EXCEPT !.pc = "exchange"]
    <3>1. req' = [req EXCEPT ![r] = q] /\ req[r].pc = "del"
      BY <1>1, <2>1, <1>0 DEF DeleteState, Goto
    <3>2. q \in Handler
      BY <1>0 DEF Handler, Pc
    <3>3. HandlerOK(q)
      BY <1>0, <3>1 DEF HandlerOK, Handler, OnWorkspace, OnRow, OnOldRow
    <3> HIDE DEF q
    <3>4. state' \in [State -> Payload \cup {Fresh, Spent}]
      BY <1>1 DEF DeleteState, IInv, TypeOK
    <3>5. QED BY <1>1, <3>1, <3>2, <3>3, <3>4, HandlerMoves DEF DeleteState
  <2>2. CASE ~req[r].match
    <3>1. req' = [req EXCEPT ![r] = Idle]
      BY <1>1, <2>2 DEF DeleteState, Finish
    <3>2. Idle \in Handler /\ HandlerOK(Idle)
      BY NumbersAssumption DEF HandlerOK, Handler, Idle, Token, OnWorkspace, OnRow,
         OnOldRow, IInv, TypeOK, Pc
    <3>3. state' \in [State -> Payload \cup {Fresh, Spent}]
      BY <1>1 DEF DeleteState, IInv, TypeOK
    <3>4. QED BY <1>1, <3>1, <3>2, <3>3, HandlerMoves DEF DeleteState
  <2>3. QED BY <2>1, <2>2
<1>2. CASE Exchange(r)
  <2>1. PICK m \in MetaUser : Issue(r, m, "profile")
    BY <1>2 DEF Exchange
  <2>2. req[r].ws \in Workspace
    BY <1>2, <1>0 DEF Exchange, HandlerOK, OnWorkspace
  <2>3. QED BY <1>2, <2>1, <2>2, IssueStep DEF Exchange
<1>3. CASE Profile(r)
  <2> DEFINE x == <<req[r].ws, owner[req[r].tok]>>
             q == [[req[r] EXCEPT !.pc = "connect"] EXCEPT !.row = x]
  <2>1. req[r].pc = "profile" /\ req[r].ws \in Workspace /\ owner[req[r].tok] \in MetaUser
    BY <1>3, <1>0 DEF Profile, HandlerOK, OnWorkspace, IInv, TypeOK
  <2>2. x \in Row /\ x[2] = owner[req[r].tok]
    BY <2>1 DEF Row
  <2>3. req' = [req EXCEPT ![r] = q]
    BY <1>3, <1>0 DEF Profile
  <2> HIDE DEF x
  <2>4. /\ q \in Handler
        /\ q.pc = "connect" /\ q.row = x /\ q.tok = req[r].tok /\ q.ws = req[r].ws
    BY <1>0, <2>2 DEF Handler, Pc
  <2> HIDE DEF q
  <2>5. HandlerOK(q)
    BY <1>0, <2>1, <2>2, <2>4 DEF HandlerOK, OnWorkspace, OnRow, OnOldRow
  <2>6. QED BY <1>3, <2>3, <2>4, <2>5, HandlerMoves DEF Profile, IInv, TypeOK
<1>4. CASE Connect(r)
  <2>1. req[r].row \in Row /\ req[r].tok \in 0..Len(owner)
        /\ (req[r].tok # 0 => owner[req[r].tok] = req[r].row[2])
    BY <1>4, <1>0 DEF Connect, HandlerOK, OnRow
  <2>2. created' \in Seq(Row) /\ Range(created') = Range(created) \cup {req[r].row}
    BY <1>4, <2>1, RangeAppend DEF Connect, IInv
  <2>3. QED BY <1>4, <2>1, <2>2, RowStep DEF Connect
<1>5. CASE RotateWrite(r) \/ DisconnectWrite(r)
  <2> DEFINE x == req[r].row
  <2>1. /\ x \in Row /\ conn[x].status \in {"ACTIVE", "REVOKED"} /\ x \in Range(created)
        /\ req[r].tok \in 0..Len(owner)
        /\ req[r].tok # 0 => owner[req[r].tok] = x[2]
        /\ conn[x].tok \in 0..Len(owner)
        /\ conn[x].tok # 0 => owner[conn[x].tok] = x[2]
    BY <1>5, <1>0 DEF RotateWrite, DisconnectWrite, HandlerOK, OnRow, OnOldRow, IInv, TypeOK
  <2>2. created' \in Seq(Row) /\ Range(created') = Range(created) \cup {x}
    BY <1>5, <2>1 DEF RotateWrite, DisconnectWrite, IInv
  <2>3. conn \in [Row -> [status : {"ACTIVE", "REVOKED", None}, tok : Token]]
    BY DEF IInv, TypeOK
  <2>4. CASE RotateWrite(r)
    <3> DEFINE c == [conn[x] EXCEPT !.tok = req[r].tok]
    <3>1. conn' = [conn EXCEPT ![x] = c]
      BY <2>4, <2>3 DEF RotateWrite
    <3>2. c \in [status : {"ACTIVE", "REVOKED"}, tok : 0..Len(owner)] /\ c.tok = req[r].tok
      BY <2>1, <2>3
    <3> HIDE DEF c
    <3>3. Finish(r) /\ UNCHANGED <<state, owner, live>>
      BY <2>4 DEF RotateWrite
    <3>4. c.tok # 0 => owner[c.tok] = x[2]
      BY <2>1, <3>2
    <3>5. QED BY <2>1, <2>2, <3>1, <3>2, <3>3, <3>4, RowStep
  <2>5. CASE DisconnectWrite(r)
    <3> DEFINE c == [conn[x] EXCEPT !.status = "REVOKED"]
    <3>1. conn' = [conn EXCEPT ![x] = c]
      BY <2>5, <2>3 DEF DisconnectWrite
    <3>2. c \in [status : {"ACTIVE", "REVOKED"}, tok : 0..Len(owner)] /\ c.tok = conn[x].tok
      BY <2>1, <2>3
    <3> HIDE DEF c
    <3>3. Finish(r) /\ UNCHANGED <<state, owner, live>>
      BY <2>5 DEF DisconnectWrite
    <3>4. c.tok # 0 => owner[c.tok] = x[2]
      BY <2>1, <3>2
    <3>5. QED BY <2>1, <2>2, <3>1, <3>2, <3>3, <3>4, RowStep
  <2>6. QED BY <1>5, <2>4, <2>5
<1>6. CASE RotateMeta(r)
  <2>1. /\ req[r].row \in Row /\ req[r].tok # 0 /\ req[r].tok \in DOMAIN owner
        /\ owner[req[r].tok] = req[r].row[2] /\ conn[req[r].row].status # None
    BY <1>6, <1>0 DEF RotateMeta, HandlerOK, OnRow, OnOldRow, IInv, TypeOK
  <2>2. owner[req[r].tok] \in MetaUser
    BY <2>1 DEF Row
  <2>3. QED BY <1>6, <2>1, <2>2, IssueStep DEF RotateMeta
<1>7. ASSUME NEW pc \in {"rotMeta", "disMeta"}, req[r].pc \in {"rotRead", "disRead"},
             req' = [req EXCEPT ![r].pc = pc, ![r].tok = conn[req[r].row].tok],
             UNCHANGED <<state, table, meta>>
      PROVE  IInv'
  <2> DEFINE x == req[r].row
             q == [[req[r] EXCEPT !.pc = pc] EXCEPT !.tok = conn[x].tok]
  <2>1. /\ x \in Row /\ conn[x].status # None
        /\ conn[x].tok \in 0..Len(owner) /\ conn[x].tok \in Token
        /\ conn[x].tok # 0 => owner[conn[x].tok] = x[2]
    BY <1>7, <1>0 DEF HandlerOK, OnRow, OnOldRow, IInv, TypeOK
  <2>2. req' = [req EXCEPT ![r] = q]
    BY <1>7, <1>0
  <2>3. /\ q \in Handler
        /\ q.pc = pc /\ q.tok = conn[x].tok /\ q.row = x /\ q.ws = req[r].ws
    <3>1. pc \in Pc /\ req[r] \in Handler
      BY <1>0 DEF Pc
    <3>2. QED BY <2>1, <3>1 DEF Handler
  <2> HIDE DEF q
  <2>4. HandlerOK(q)
    BY <2>1, <2>3 DEF HandlerOK, OnWorkspace, OnRow, OnOldRow
  <2>5. QED BY <1>7, <2>2, <2>3, <2>4, HandlerMoves DEF IInv, TypeOK
<1>8. CASE RotateRead(r) \/ DisconnectRead(r)
  BY <1>7, <1>8, HandlerStarts DEF RotateRead, DisconnectRead
<1>9. CASE DisconnectMeta(r)
  <2> DEFINE q == [req[r] EXCEPT !.pc = "disWrite"]
  <2>1. req' = [req EXCEPT ![r] = q] /\ req[r].pc = "disMeta"
    BY <1>9, <1>0 DEF DisconnectMeta, Goto
  <2>2. q \in Handler /\ q.pc = "disWrite" /\ q.row = req[r].row /\ q.tok = req[r].tok
    BY <1>0 DEF Handler, Pc
  <2> HIDE DEF q
  <2>3. HandlerOK(q)
    BY <1>0, <2>1, <2>2 DEF HandlerOK, OnWorkspace, OnRow, OnOldRow
  <2>4. live' \subseteq live
    BY <1>9 DEF DisconnectMeta
  <2>5. QED BY <1>9, <2>1, <2>2, <2>3, <2>4, HandlerMoves DEF DisconnectMeta, IInv, TypeOK
<1>10. CASE MetaFails(r)
  BY <1>10, HandlerStarts DEF MetaFails
<1>11. QED
  BY <1>1, <1>2, <1>3, <1>4, <1>5, <1>6, <1>8, <1>9, <1>10 DEF Step

\* Every step keeps the invariant.
LEMMA IInvStep == IInv /\ [Next]_vars => IInv'
<1> SUFFICES ASSUME IInv, [Next]_vars PROVE IInv'
  OBVIOUS
<1>1. ASSUME state' \in [State -> Payload \cup {Fresh, Spent}],
             UNCHANGED <<conn, created, owner, live, req>>
      PROVE  IInv'
  BY <1>1 DEF IInv, TypeOK, Row, HandlerOK
<1>2. ASSUME NEW s \in State, NEW u \in User, NEW w \in Workspace, InitConnect(u, w, s)
      PROVE  IInv'
  <2>1. [ws |-> w, user |-> u] \in Payload
    BY DEF Payload
  <2>2. QED BY <1>1, <1>2, <2>1 DEF InitConnect, table, meta, IInv, TypeOK
<1>3. ASSUME NEW s \in State, StateExpires(s) PROVE IInv'
  BY <1>1, <1>3 DEF StateExpires, table, meta, IInv, TypeOK
<1>4. ASSUME NEW r \in Request, NEW u \in User, NEW w \in Workspace \cup {None},
             NEW s \in State, Callback(r, u, w, s)
      PROVE  IInv'
  BY <1>4, HandlerStarts DEF Callback
<1>5. ASSUME NEW r \in Request, NEW x \in Row, Rotate(r, x) \/ Disconnect(r, x) PROVE IInv'
  BY <1>5, HandlerStarts DEF Rotate, Disconnect
<1>6. ASSUME NEW r \in Request, Crash(r) PROVE IInv'
  BY <1>6, HandlerStarts DEF Crash
<1>7. CASE UNCHANGED vars
  BY <1>1, <1>7 DEF vars, IInv, TypeOK
<1>8. QED
  BY <1>2, <1>3, <1>4, <1>5, <1>6, <1>7, HandlerStep DEF Next, Undisturbed

\* The inductive invariant holds in every behaviour.
LEMMA IInvAlways == Spec => []IInv
BY IInvInit, IInvStep, PTL DEF Spec

\* The type invariant: the rows that exist are those that were created, and the
\* token of a row was issued for the Meta user of that row, whoever overlaps.
THEOREM TypeCorrect == Spec => []TypeOK
<1>1. IInv => TypeOK
  BY DEF IInv
<1>2. QED BY <1>1, IInvAlways, PTL

-----------------------------------------------------------------------------
(* Action properties.                                                      *)

\* Only the write at the end of a callback makes a REVOKED row ACTIVE: neither a
\* rotation that overlaps the disconnect nor a crash does.
THEOREM RevokedTheorem == Spec => RevokedUntilOAuth
<1> DEFINE Revives(x) == conn[x].status = "REVOKED" /\ conn'[x].status = "ACTIVE"
           P == \A x \in Row : Revives(x) =>
                   \E r \in Request : req[r].pc = "connect" /\ req[r].row = x
<1>1. IInv /\ [Next]_vars => [P]_vars
  <2> SUFFICES ASSUME IInv, Next, NEW x \in Row, Revives(x)
               PROVE  \E r \in Request : req[r].pc = "connect" /\ req[r].row = x
    BY DEF vars
  <2>0. conn \in [Row -> [status : {"ACTIVE", "REVOKED", None}, tok : Token]]
    BY DEF IInv, TypeOK
  <2>1. ~UNCHANGED conn
    OBVIOUS
  <2>2. PICK r \in Request : Connect(r) \/ RotateWrite(r) \/ DisconnectWrite(r)
    BY <2>1 DEF Next, Undisturbed, InitConnect, StateExpires, Callback, Rotate, Disconnect,
       Crash, Step, DeleteState, Exchange, Profile, RotateRead, RotateMeta, DisconnectRead,
       DisconnectMeta, MetaFails, table
  <2>3. ~RotateWrite(r)
    BY <2>0 DEF RotateWrite
  <2>4. ~DisconnectWrite(r)
    BY <2>0 DEF DisconnectWrite
  <2>5. QED BY <2>0, <2>2, <2>3, <2>4 DEF Connect
<1>2. QED BY <1>1, IInvAlways, PTL DEF Spec, RevokedUntilOAuth

-----------------------------------------------------------------------------
(* One request at a time.                                                  *)

\* MetaConnection leaves open how many workspaces there are.  What follows
\* needs that no two of them share a Meta user: DELETE /me/permissions in one
\* takes the tokens of the other away.
OneWorkspace == \A x, y \in Row : x[2] = y[2] => x = y

\* A disconnect has been to Meta and is about to mark the row x.
Marking(x) == \E r \in Request : req[r].pc = "disWrite" /\ req[r].row = x

\* Whatever is ACTIVE works, unless it is about to be marked; and the token a
\* handler is about to write works.
AloneInv ==
    mode = "alone" =>
        /\ AtMostOne
        /\ \A x \in Row : Active(x) => conn[x].tok \in live \/ Marking(x)
        /\ \A r \in Request : req[r].pc \in {"connect", "rotWrite"} => req[r].tok \in live

\* MCSpec takes steps of Spec only.
LEMMA MCStep == MCNext => Next /\ mode' = mode
BY DEF MCNext, Next

\* So IInv holds there as well.
LEMMA MCAlways == MCSpec => []IInv
<1>1. MCInit => IInv
  BY IInvInit DEF MCInit
<1>2. IInv /\ [MCNext]_<<vars, mode>> => IInv'
  <2>1. [MCNext]_<<vars, mode>> => [Next]_vars
    BY MCStep
  <2>2. QED BY <2>1, IInvStep
<1>3. QED BY <1>1, <1>2, PTL DEF MCSpec

\* The moving handler is the only one that is not idle.
LEMMA OthersIdle ==
    ASSUME AtMostOne, NEW r \in Request, req[r].pc # "idle"
    PROVE  \A q \in Request : q # r => req[q].pc = "idle"
BY DEF AtMostOne

\* A step that neither removes a token nor touches a row keeps AloneInv, if the
\* handler that moves does not come from the mark nor carry a dead token.
LEMMA AloneQuiet ==
    ASSUME IInv, AloneInv, mode = "alone", mode' = mode, AtMostOne',
           live \subseteq live', conn' = conn,
           \A r \in Request : req'[r] # req[r] =>
               /\ req[r].pc # "disWrite"
               /\ req'[r].pc \in {"connect", "rotWrite"} => req'[r].tok \in live'
    PROVE  AloneInv'
<1>1. \A x \in Row : Active(x)' => conn'[x].tok \in live' \/ Marking(x)'
  BY DEF AloneInv, Active, Marking
<1>2. \A r \in Request : req'[r].pc \in {"connect", "rotWrite"} => req'[r].tok \in live'
  BY DEF AloneInv
<1>3. QED BY <1>1, <1>2 DEF AloneInv

\* A handler that moves alone keeps AloneInv.
LEMMA AloneHandler ==
    ASSUME OneWorkspace, IInv, AloneInv, mode = "alone", mode' = mode, AtMostOne',
           NEW r \in Request, Step(r)
    PROVE  AloneInv'
<1> USE DEF table, meta
<1>0. /\ req \in [Request -> Handler] /\ HandlerOK(req[r]) /\ AtMostOne
      /\ conn \in [Row -> [status : {"ACTIVE", "REVOKED", None}, tok : Token]]
      /\ owner \in Seq(MetaUser) /\ live \subseteq DOMAIN owner
  BY DEF IInv, TypeOK, Handler, AloneInv
<1>1. ASSUME live \subseteq live', conn' = conn, req[r].pc # "disWrite",
             \A q \in Request : q # r => req'[q] = req[q],
             req'[r].pc \in {"connect", "rotWrite"} => req'[r].tok \in live'
      PROVE  AloneInv'
  BY <1>1, AloneQuiet
<1>2. CASE DeleteState(r)
  BY <1>0, <1>1, <1>2 DEF DeleteState, Goto, Finish, Idle, Handler
<1>3. CASE Exchange(r)
  BY <1>0, <1>1, <1>3 DEF Exchange, Issue, Handler
<1>4. CASE Profile(r)
  BY <1>0, <1>1, <1>4 DEF Profile, Handler
<1>5. CASE RotateRead(r) \/ DisconnectRead(r)
  BY <1>0, <1>1, <1>5 DEF RotateRead, DisconnectRead, Finish, Idle, Handler
<1>6. CASE RotateMeta(r)
  BY <1>0, <1>1, <1>6 DEF RotateMeta, Issue, Handler
<1>7. CASE MetaFails(r)
  BY <1>0, <1>1, <1>7 DEF MetaFails, Finish, Idle, Handler
<1> DEFINE x == req[r].row
<1>8. ASSUME req[r].pc \in {"connect", "rotWrite", "disMeta", "disWrite"}
      PROVE  /\ x \in Row
             /\ \A q \in Request : q # r => req[q].pc = "idle"
             /\ \A y \in Row : Active(y) /\ (req[r].pc = "disWrite" => y # x)
                                => conn[y].tok \in live
  <2>1. \A q \in Request : q # r => req[q].pc = "idle"
    BY <1>0, <1>8, OthersIdle
  <2>2. \A y \in Row : Marking(y) => req[r].pc = "disWrite" /\ y = x
    BY <2>1 DEF Marking
  <2>3. x \in Row
    BY <1>0, <1>8 DEF HandlerOK, OnRow, OnOldRow
  <2>4. QED BY <2>1, <2>2, <2>3 DEF AloneInv
<1>9. CASE Connect(r) \/ RotateWrite(r)
  <2>1. /\ req[r].tok \in live /\ live' = live
        /\ \A q \in Request : req'[q].pc = "idle"
        /\ \A y \in Row : y # x => conn'[y] = conn[y]
        /\ conn'[x].tok = req[r].tok
    BY <1>0, <1>8, <1>9 DEF Connect, RotateWrite, Finish, Idle, AloneInv
  <2>2. \A y \in Row : Active(y)' => conn'[y].tok \in live'
    BY <1>8, <1>9, <2>1 DEF Active, Connect, RotateWrite
  <2>3. QED BY <2>1, <2>2 DEF AloneInv
<1>10. CASE DisconnectMeta(r)
  <2>1. /\ req[r].pc = "disMeta" /\ conn' = conn
        /\ req'[r].pc = "disWrite" /\ req'[r].row = x
        /\ \A q \in Request : q # r => req'[q] = req[q]
    BY <1>0, <1>10 DEF DisconnectMeta, Goto, Handler
  <2>2. Marking(x)'
    BY <2>1 DEF Marking
  <2>3. ASSUME NEW y \in Row, Active(y), y # x PROVE conn[y].tok \in live'
    <3>1. conn[y].tok \in live /\ x \in Row
      BY <1>8, <2>1, <2>3
    <3>2. CASE live' = live
      BY <3>1, <3>2
    <3>3. CASE req[r].tok \in live /\ live' = {k \in live : owner[k] # owner[req[r].tok]}
      <4>1. owner[req[r].tok] = x[2]
        BY <1>0, <2>1, <3>3 DEF HandlerOK, OnRow, OnOldRow
      <4>2. owner[conn[y].tok] = y[2]
        BY <1>0, <3>1 DEF IInv, TypeOK
      <4>3. y[2] # x[2]
        BY <2>3, <3>1 DEF OneWorkspace
      <4>4. QED BY <3>1, <3>3, <4>1, <4>2, <4>3
    <3>4. QED BY <1>10, <3>2, <3>3 DEF DisconnectMeta
  <2>4. \A y \in Row : Active(y)' => conn'[y].tok \in live' \/ Marking(y)'
    BY <2>1, <2>2, <2>3 DEF Active
  <2>5. \A q \in Request : req'[q].pc \notin {"connect", "rotWrite"}
    BY <1>8, <2>1
  <2>6. QED BY <2>4, <2>5 DEF AloneInv
<1>11. CASE DisconnectWrite(r)
  <2>1. /\ req[r].pc = "disWrite" /\ live' = live
        /\ \A q \in Request : req'[q].pc = "idle"
        /\ \A y \in Row : y # x => conn'[y] = conn[y]
        /\ conn'[x].status = "REVOKED"
    BY <1>0, <1>8, <1>11 DEF DisconnectWrite, Finish, Idle
  <2>2. \A y \in Row : Active(y)' => conn'[y].tok \in live'
    BY <1>8, <2>1 DEF Active
  <2>3. QED BY <2>1, <2>2 DEF AloneInv
<1>12. QED
  BY <1>2, <1>3, <1>4, <1>5, <1>6, <1>7, <1>9, <1>10, <1>11 DEF Step

\* Every step of MCSpec keeps AloneInv.
LEMMA AloneStep ==
    ASSUME OneWorkspace
    PROVE  IInv /\ AloneInv /\ [MCNext]_<<vars, mode>> => AloneInv'
<1> SUFFICES ASSUME IInv, AloneInv, [MCNext]_<<vars, mode>>, mode' = "alone"
             PROVE  AloneInv'
  BY DEF AloneInv
<1> USE DEF table, meta
<1>1. mode = "alone" /\ AtMostOne' /\ req \in [Request -> Handler]
  BY DEF MCNext, AloneInv, vars, AtMostOne, IInv, TypeOK, Handler
<1>2. CASE UNCHANGED vars
  BY <1>1, <1>2, AloneQuiet DEF vars
<1>3. ASSUME NEW s \in State,
             StateExpires(s) \/ \E u \in User, w \in Workspace : InitConnect(u, w, s)
      PROVE  AloneInv'
  BY <1>1, <1>3, AloneQuiet DEF StateExpires, InitConnect
<1>4. ASSUME NEW r \in Request, req[r].pc = "idle", live' = live, conn' = conn,
             \A q \in Request : q # r => req'[q] = req[q],
             req'[r].pc \in {"del", "rotRead", "disRead"}
      PROVE  AloneInv'
  BY <1>1, <1>4, AloneQuiet
<1>5. ASSUME NEW r \in Request, NEW u \in User, NEW w \in Workspace \cup {None},
             NEW s \in State, Callback(r, u, w, s)
      PROVE  AloneInv'
  BY <1>1, <1>4, <1>5 DEF Callback, Start, Idle
<1>6. ASSUME NEW r \in Request, NEW x \in Row, Rotate(r, x) \/ Disconnect(r, x)
      PROVE  AloneInv'
  <2>1. PICK pc \in {"rotRead", "disRead"} :
           Start(r, [Idle EXCEPT !.pc = pc, !.row = x]) /\ live' = live /\ conn' = conn
    BY <1>6 DEF Rotate, Disconnect
  <2>2. [Idle EXCEPT !.pc = pc, !.row = x].pc = pc
    BY DEF Idle
  <2>3. QED BY <1>1, <1>4, <2>1, <2>2 DEF Start
<1>7. ASSUME NEW r \in Request, Step(r) PROVE AloneInv'
  <2>1. mode' = mode
    BY <1>1
  <2>2. QED BY <1>1, <1>7, <2>1, AloneHandler
<1>8. UNCHANGED vars \/ Undisturbed
  BY <1>1 DEF MCNext, vars
<1>9. QED
  BY <1>2, <1>3, <1>5, <1>6, <1>7, <1>8 DEF Undisturbed

\* One request at a time, and one workspace per Meta user: at rest every ACTIVE
\* connection has a token that Meta accepts, wherever Meta failed in between.
THEOREM AloneTheorem == ASSUME OneWorkspace PROVE MCSpec => []AloneActiveWorks
<1>1. MCInit => AloneInv
  BY NoneAssumption DEF MCInit, Init, AloneInv, AtMostOne, Active, NoRow, Idle
<1>2. AloneInv => AloneActiveWorks
  BY DEF AloneInv, AloneActiveWorks, ActiveWorks, AtRest, Marking
<1>3. QED BY <1>1, <1>2, AloneStep, MCAlways, PTL DEF MCSpec
=============================================================================
