--------------------------- MODULE MetaConnection ----------------------------
(***************************************************************************)
(* The connections of workspaces to Meta users: the OAuth round trip       *)
(* (initConnect and the two callback handlers, with the state in Redis),   *)
(* and connect, rotate and disconnect of MetaConnectionsService, against   *)
(* the tokens that Meta has issued.                                        *)
(*                                                                         *)
(* A row is one (workspace, Meta user): it is written by the first connect *)
(* and never deleted.  Handlers call Meta between reading a row and        *)
(* writing it.  Tokens stand for themselves: encryption is an identity for *)
(* a row that stays in its workspace.  That a token runs out at Meta, or   *)
(* is withdrawn there, is left out.                                        *)
(***************************************************************************)
EXTENDS Naturals, Sequences, Functions

CONSTANTS
    User,         \* users of the application
    Workspace,
    MetaUser,     \* people with an account at Meta
    State,        \* OAuth states that can be drawn; none is drawn twice
    Request,      \* requests that can be in flight at the same time
    MaxToken,     \* bound: tokens that Meta issues
    None, Fresh, Spent

ASSUME NumbersAssumption == MaxToken \in Nat
ASSUME NoneAssumption == None \notin {"ACTIVE", "REVOKED"}

VARIABLES
    state,     \* state[s] : Fresh, the payload stored for s in Redis, or Spent
    conn,      \* conn[x] : the row of x, a workspace and a Meta user
    created,   \* the rows that exist, oldest first
    owner,     \* owner[t] : the Meta user that token t was issued for
    live,      \* tokens that Meta accepts
    req        \* req[r] : where the handler in slot r stands

vars == <<state, conn, created, owner, live, req>>

Row == Workspace \X MetaUser
Payload == [ws : Workspace, user : User]
Token == 0..MaxToken     \* 0: no token

Pc == {"idle", "del", "exchange", "profile", "connect",
       "rotRead", "rotMeta", "rotWrite", "disRead", "disMeta", "disWrite"}

Idle == [pc |-> "idle", st |-> None, ws |-> None, match |-> FALSE, row |-> None, tok |-> 0]

NoRow == [status |-> None, tok |-> 0]

TypeOK ==
    /\ state \in [State -> Payload \cup {Fresh, Spent}]
    /\ conn \in [Row -> [status : {"ACTIVE", "REVOKED", None}, tok : Token]]
    /\ \A x \in Row : conn[x].status # None <=> x \in Range(created)
    /\ owner \in Seq(MetaUser) /\ Len(owner) <= MaxToken
    /\ live \subseteq DOMAIN owner
    /\ \A x \in Row : conn[x].tok # 0 => owner[conn[x].tok] = x[2]
    /\ req \in [Request -> [pc : Pc, st : State \cup {None}, ws : Workspace \cup {None},
                            match : BOOLEAN, row : Row \cup {None}, tok : Token]]

Init ==
    /\ state = [s \in State |-> Fresh]
    /\ conn = [x \in Row |-> NoRow]
    /\ created = <<>>
    /\ owner = <<>>
    /\ live = {}
    /\ req = [r \in Request |-> Idle]

Active(x) == conn[x].status = "ACTIVE"

\* getByWorkspace: x was created last among the ACTIVE rows of its workspace.
Surfaced(x) ==
    /\ Active(x)
    /\ \E i \in DOMAIN created :
        /\ created[i] = x
        /\ \A j \in DOMAIN created :
            Active(created[j]) /\ created[j][1] = x[1] => j <= i

Start(r, q) == req[r].pc = "idle" /\ req' = [req EXCEPT ![r] = q]
Goto(r, pc) == req' = [req EXCEPT ![r].pc = pc]
Finish(r) == req' = [req EXCEPT ![r] = Idle]

\* Meta issues a token for m, to request r, which goes on at pc.
Issue(r, m, pc) ==
    /\ Len(owner) < MaxToken
    /\ owner' = Append(owner, m)
    /\ live' = live \cup {Len(owner) + 1}
    /\ req' = [req EXCEPT ![r].pc = pc, ![r].tok = Len(owner) + 1]

table == <<conn, created>>
meta == <<owner, live>>

-----------------------------------------------------------------------------
(* The OAuth round trip.                                                   *)

InitConnect(u, w, s) ==
    /\ state[s] = Fresh
    /\ state' = [state EXCEPT ![s] = [ws |-> w, user |-> u]]
    /\ UNCHANGED <<table, meta, req>>

StateExpires(s) ==
    /\ state[s] \in Payload
    /\ state' = [state EXCEPT ![s] = Spent]
    /\ UNCHANGED <<table, meta, req>>

\* GET of the state.  The callback under a workspace's URL compares that
\* workspace as well; the one under /meta has none, w = None.
Callback(r, u, w, s) ==
    /\ state[s] \in Payload
    /\ Start(r, [Idle EXCEPT !.pc = "del", !.st = s, !.ws = state[s].ws,
                             !.match = state[s].user = u /\ w \in {None, state[s].ws}])
    /\ UNCHANGED <<state, table, meta>>

DeleteState(r) ==
    /\ req[r].pc = "del"
    /\ state' = [state EXCEPT ![req[r].st] = Spent]
    /\ IF req[r].match THEN Goto(r, "exchange") ELSE Finish(r)
    /\ UNCHANGED <<table, meta>>

\* The code is whatever Meta user consented in the browser.
Exchange(r) ==
    /\ req[r].pc = "exchange"
    /\ \E m \in MetaUser : Issue(r, m, "profile")
    /\ UNCHANGED <<state, table>>

Profile(r) ==
    LET q == req[r] IN
    /\ q.pc = "profile"
    /\ q.tok \in live
    /\ req' = [req EXCEPT ![r].pc = "connect", ![r].row = <<q.ws, owner[q.tok]>>]
    /\ UNCHANGED <<state, table, meta>>

\* Mutant: the update of the upsert leaves the token of the row alone.
ConnectKeepsToken(r) ==
    LET x == req[r].row IN
    /\ req[r].pc = "connect"
    /\ conn' = [conn EXCEPT ![x].status = "ACTIVE",
                            ![x].tok = IF x \in Range(created) THEN @ ELSE req[r].tok]
    /\ created' = IF x \in Range(created) THEN created ELSE Append(created, x)
    /\ Finish(r)
    /\ UNCHANGED <<state, meta>>

\* connect: the upsert on (workspaceId, metaUserId).
Connect(r) ==
    LET x == req[r].row IN
    /\ req[r].pc = "connect"
    /\ conn' = [conn EXCEPT ![x] = [status |-> "ACTIVE", tok |-> req[r].tok]]
    /\ created' = IF x \in Range(created) THEN created ELSE Append(created, x)
    /\ Finish(r)
    /\ UNCHANGED <<state, meta>>

-----------------------------------------------------------------------------
(* rotate                                                                  *)

\* assertConnectionInWorkspace lets through the row that is surfaced only.
Rotate(r, x) ==
    /\ Surfaced(x)
    /\ Start(r, [Idle EXCEPT !.pc = "rotRead", !.row = x])
    /\ UNCHANGED <<state, table, meta>>

RotateRead(r) ==
    LET x == req[r].row IN
    /\ req[r].pc = "rotRead"
    /\ IF Active(x)
       THEN req' = [req EXCEPT ![r].pc = "rotMeta", ![r].tok = conn[x].tok]
       ELSE Finish(r)
    /\ UNCHANGED <<state, table, meta>>

\* fb_exchange_token: another token of the same Meta user.
RotateMeta(r) ==
    /\ req[r].pc = "rotMeta"
    /\ req[r].tok \in live
    /\ Issue(r, owner[req[r].tok], "rotWrite")
    /\ UNCHANGED <<state, table>>

\* Mutant: the row is written whole, status included.
RotateWriteActive(r) ==
    LET x == req[r].row IN
    /\ req[r].pc = "rotWrite"
    /\ conn' = [conn EXCEPT ![x] = [status |-> "ACTIVE", tok |-> req[r].tok]]
    /\ Finish(r)
    /\ UNCHANGED <<state, created, meta>>

RotateWrite(r) ==
    LET x == req[r].row IN
    /\ req[r].pc = "rotWrite"
    /\ conn' = [conn EXCEPT ![x].tok = req[r].tok]
    /\ Finish(r)
    /\ UNCHANGED <<state, created, meta>>

-----------------------------------------------------------------------------
(* disconnect                                                              *)

Disconnect(r, x) ==
    /\ Surfaced(x)
    /\ Start(r, [Idle EXCEPT !.pc = "disRead", !.row = x])
    /\ UNCHANGED <<state, table, meta>>

DisconnectRead(r) ==
    LET x == req[r].row IN
    /\ req[r].pc = "disRead"
    /\ IF conn[x].status = "REVOKED"
       THEN Finish(r)
       ELSE req' = [req EXCEPT ![r].pc = "disMeta", ![r].tok = conn[x].tok]
    /\ UNCHANGED <<state, table, meta>>

\* Mutant: an error of Meta ends the request.
DisconnectMetaThrows(r) ==
    LET t == req[r].tok IN
    /\ req[r].pc = "disMeta"
    /\ \/ /\ t \in live
          /\ live' = {k \in live : owner[k] # owner[t]}
          /\ Goto(r, "disWrite")
       \/ /\ Finish(r)
          /\ UNCHANGED live
    /\ UNCHANGED <<state, table, owner>>

\* DELETE /me/permissions takes the application away from the Meta user, and
\* every token with it; a failure is ignored.
DisconnectMeta(r) ==
    LET t == req[r].tok IN
    /\ req[r].pc = "disMeta"
    /\ \/ /\ t \in live
          /\ live' = {k \in live : owner[k] # owner[t]}
       \/ UNCHANGED live
    /\ Goto(r, "disWrite")
    /\ UNCHANGED <<state, table, owner>>

DisconnectWrite(r) ==
    /\ req[r].pc = "disWrite"
    /\ conn' = [conn EXCEPT ![req[r].row].status = "REVOKED"]
    /\ Finish(r)
    /\ UNCHANGED <<state, created, meta>>

\* exchangeCode, fetchProfile or rotate of the client throws, or times out.
MetaFails(r) ==
    /\ req[r].pc \in {"exchange", "profile", "rotMeta"}
    /\ Finish(r)
    /\ UNCHANGED <<state, table, meta>>

\* The process dies: the rest of the handler never runs.
Crash(r) ==
    /\ req[r].pc # "idle"
    /\ Finish(r)
    /\ UNCHANGED <<state, table, meta>>

-----------------------------------------------------------------------------

\* The rest of a handler.
Step(r) ==
    \/ DeleteState(r) \/ Exchange(r) \/ Profile(r) \/ Connect(r)
    \/ RotateRead(r) \/ RotateMeta(r) \/ RotateWrite(r)
    \/ DisconnectRead(r) \/ DisconnectMeta(r) \/ DisconnectWrite(r)
    \/ MetaFails(r)

\* As long as no process dies.
Undisturbed ==
    \/ \E s \in State :
        \/ \E u \in User, w \in Workspace : InitConnect(u, w, s)
        \/ StateExpires(s)
    \/ \E r \in Request :
        \/ \E u \in User, w \in Workspace \cup {None}, s \in State : Callback(r, u, w, s)
        \/ \E x \in Row : Rotate(r, x) \/ Disconnect(r, x)
        \/ Step(r)

Next == Undisturbed \/ \E r \in Request : Crash(r)

Spec == Init /\ [][Next]_vars

\* A handler that has been started runs on: every call of Meta answers or fails
\* in the end, since fetch gives up by itself.
FairSpec == Spec /\ \A r \in Request : WF_vars(Step(r))

-----------------------------------------------------------------------------
(* Properties.                                                             *)

AtRest == \A r \in Request : req[r].pc = "idle"

\* PROGRESS.md: the callback deletes the state on first use.  No two callbacks
\* are let through by one state.  The code breaks it: GET and DEL are two calls.
OneExchange ==
    \A r, q \in Request :
        /\ req[r].pc \in {"exchange", "profile", "connect"}
        /\ req[q].pc \in {"exchange", "profile", "connect"}
        /\ req[r].st = req[q].st
        => r = q

\* PROGRESS.md: disconnect is reversible only by re-running the OAuth flow.  A
\* rotate that overlaps the disconnect does not bring the row back: only a
\* callback does, for a workspace some state was issued for.
RevokedUntilOAuth ==
    [][\A x \in Row : conn[x].status = "REVOKED" /\ conn'[x].status = "ACTIVE" =>
          \E r \in Request : req[r].pc = "connect" /\ req[r].row = x]_vars

\* At rest, the token of every ACTIVE row is one that Meta accepts: rotating,
\* disconnecting and connecting again, with Meta failing at any point, never
\* leaves a connection that looks usable and is not.
ActiveWorks == AtRest => \A x \in Row : Active(x) => conn[x].tok \in live

\* meta-connection.spec.ts: a callback persists an ACTIVE connection that is
\* visible via GET /meta.  The code breaks it for a row that is revived.
ConnectSurfaces ==
    [][\A r \in Request, x \in Row :
          Connect(r) /\ req[r].row = x => Surfaced(x)']_vars

\* meta-api-client.interface.ts: the local row is always marked REVOKED,
\* whether or not the revocation at Meta succeeds.
LocalRevocation ==
    \A x \in Row :
        (\E r \in Request : req[r].pc = "disMeta" /\ req[r].row = x)
            ~> conn[x].status = "REVOKED"
=============================================================================
