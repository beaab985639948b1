-------------------------- MODULE MCMetaConnection ---------------------------
(***************************************************************************)
(* MetaConnection on small instances, for TLC.  Three kinds of behaviours  *)
(* are explored side by side:                                              *)
(*   "crash"    requests overlap and processes die;                        *)
(*   "overlap"  requests overlap, and each runs to its end;                *)
(*   "alone"    one request at a time, and each runs to its end.           *)
(***************************************************************************)
EXTENDS MetaConnection

VARIABLE mode

AtMostOne ==
    \A r, q \in Request : req[r].pc # "idle" /\ req[q].pc # "idle" => r = q

MCInit == Init /\ mode \in {"crash", "overlap", "alone"}
MCNext ==
    /\ Undisturbed \/ (mode = "crash" /\ \E r \in Request : Crash(r))
    /\ UNCHANGED mode
    /\ mode = "alone" => AtMostOne'
MCSpec == MCInit /\ [][MCNext]_<<vars, mode>>

\* MetaConnection!FairSpec: a handler that was started runs on.
MCFairSpec ==
    MCSpec /\ \A r \in Request : WF_<<vars, mode>>(Step(r) /\ UNCHANGED mode)

\* One request at a time, one workspace: at rest, the token of every ACTIVE row
\* is one that Meta accepts.
AloneActiveWorks == mode = "alone" => ActiveWorks

\* meta-api-client.interface.ts: unless the process dies, a disconnect that
\* goes to Meta ends with the row REVOKED.
UncrashedLocalRevocation ==
    \A x \in Row :
        (mode # "crash" /\ \E r \in Request : req[r].pc = "disMeta" /\ req[r].row = x)
            ~> conn[x].status = "REVOKED"
=============================================================================
