--------------------------- MODULE MCSessionsAlone ---------------------------
(***************************************************************************)
(* Sessions one request at a time, for TLC.  CalmSpec has, side by side,   *)
(* the behaviours of Sessions and those in which no process dies; what     *)
(* needs that is stated of the calm ones.                                  *)
(***************************************************************************)
EXTENDS SessionsProps, TLC

VARIABLE calm

CalmInit == Init /\ calm \in BOOLEAN

CalmNext ==
    /\ \/ Undisturbed
       \/ ~calm /\ \E r \in Request : Crash(r)
    /\ UNCHANGED calm

CalmSpec == CalmInit /\ [][CalmNext]_<<vars, calm>>

\* A password reset that runs to its end leaves none of the user's logins, nor
\* what grew out of them, alive (AuthService.resetPassword); nor does the answer
\* to a replayed refresh token (SessionService.rotate).
CalmEndsFamilies == calm => ResetEndsFamilies /\ TheftEndsFamilies

Symmetry == Permutations(SessionId) \cup Permutations(Request)
=============================================================================
