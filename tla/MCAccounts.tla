----------------------------- MODULE MCAccounts ------------------------------
(***************************************************************************)
(* What happens to an account outside its sessions, on small instances for *)
(* TLC: the links that are mailed to it (AccountTokens), the lock of its   *)
(* password (LoginLockout), and the seats that registrations and           *)
(* invitations give it (Onboarding).  The three have no state in common    *)
(* and are explored side by side, one of them per behaviour; at most two   *)
(* registrations or invitations overlap.                                   *)
(***************************************************************************)
EXTENDS AccountTokens, TLC

CONSTANTS Email, Invitation, Limit, Window, MaxNow, MaxResets, MaxDeaths

VARIABLES
    part,    \* the one that moves
    alone,   \* do its requests never overlap?
    users, seat, inv, mailed, handler, via,
    now, count, expiry, dirty, lockedUntil, login, resets, lifts, deaths, crashes

Seats == INSTANCE Onboarding WITH req <- handler
Lock == INSTANCE LoginLockout WITH req <- login

seats == <<users, seat, inv, mailed, handler, via>>
lock == <<now, count, expiry, dirty, lockedUntil, login, resets, lifts, deaths, crashes>>

ASSUME SeatsAssumption == None \notin Email \cup Invitation \cup Seats!Seat
ASSUME LockAssumption ==
    /\ Limit \in Nat \ {0} /\ Window \in Nat \ {0}
    /\ MaxNow \in Nat /\ MaxResets \in Nat /\ MaxDeaths \in Nat
    /\ IsFiniteSet(Request)

Busy(slots) == {r \in DOMAIN slots : slots[r].pc # "idle"}
AtMostOne(slots) == \A q, r \in Busy(slots) : q = r

MCInit ==
    /\ part \in {"links", "lock", "seats"}
    /\ alone \in BOOLEAN
    /\ part = "lock" => ~alone
    /\ Init /\ Seats!Init /\ Lock!Init

MCNext ==
    /\ UNCHANGED <<part, alone>>
    /\ \/ part = "links" /\ Next /\ UNCHANGED <<seats, lock>>
       \/ part = "seats" /\ Seats!Next /\ UNCHANGED <<vars, lock>>
       \/ part = "lock" /\ Lock!Next /\ UNCHANGED <<vars, seats>>
    /\ alone => AtMostOne(req)' /\ AtMostOne(handler)'
    /\ Cardinality(Busy(handler)') <= 2

MCSpec == MCInit /\ [][MCNext]_<<vars, seats, lock, part, alone>>

-----------------------------------------------------------------------------

\* As long as no two requests overlap, the newest reset link works until it is
\* used, whatever the worker does and whoever dies (forgotPassword).
AloneNewestResetWorks == alone => NewestResetWorks

\* docs/module-02-resume.md: register accepts the invitation token atomically:
\* as long as no two requests overlap, one invitation lets in one user.
AloneOneUserPerInvitation == alone => Seats!OneUserPerInvitation

\* See Onboarding: a user sits in one organization, which keeps its owner.
OneOrganizationEach == Seats!OneOrganizationEach

\* See Onboarding: invitations and the seats they were for go together.
AcceptedIsSeated == Seats!AcceptedIsSeated

\* See LoginLockout: how far logins in flight overshoot the limit.
OvershootIsBounded == Lock!OvershootIsBounded

\* See LoginLockout: counter and lock run out together.
FreshAfterLock == Lock!FreshAfterLock

Symmetry == Permutations(Request) \cup Permutations(Invitation)
=============================================================================
