----------------------------- MODULE MCMfaVerify -----------------------------
(***************************************************************************)
(* MfaVerify on small instances, for TLC.  Three kinds of behaviours are   *)
(* explored side by side, each with the bounds that it needs:              *)
(*   "overlap"  requests overlap, over few batches and few logins;         *)
(*   "alone"    one request at a time, over more batches and secrets;      *)
(*   "batch"    requests overlap over a single batch, for as many logins   *)
(*              as there may be.                                           *)
(***************************************************************************)
EXTENDS MfaVerify, TLC

VARIABLE mode

AtMostOne == \A q, r \in Request : req[q].pc # "idle" /\ req[r].pc # "idle" => q = r
UsedAtMost(n) == \A c \in Code : used[c] <= n

Allowed ==
    CASE mode = "overlap" -> batches <= 2 /\ secrets <= 1 /\ UsedAtMost(1)
      [] mode = "alone"   -> AtMostOne /\ UsedAtMost(2)
      [] mode = "batch"   -> /\ batches <= 1 /\ secrets <= 1
                             /\ \A r \in Request : req[r].pc # "disable"

MCInit == Init /\ mode \in {"overlap", "alone", "batch"}
MCNext == Next /\ UNCHANGED mode /\ Allowed'
MCSpec == MCInit /\ [][MCNext]_<<vars, mode>>

\* Each backup code can be used only once (backup-codes-display.tsx): as long
\* as no two requests overlap, no code pays for two logins, and the codes that
\* are accepted are of the batch handed out last, whichever handler dies half way
\* (regenerateBackupCodes, mfaSetupComplete, mfaVerify).
AloneSingleUse == mode = "alone" => SingleUse /\ OnlyLatestBatch

Symmetry == Permutations(Request)
=============================================================================
